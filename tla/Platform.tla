-------------------------------- MODULE Platform --------------------------------
(***************************************************************************)
(* The platform drivers and devices of 12, 13 and 14 on one bus.           *)
(*                                                                         *)
(* Three driver modules that all call their driver "pseudo-char-device":   *)
(* by_name (12) is matched by that name, by_id (13) by its id table, by_dt *)
(* (14) by its device-tree table or its id table.  Two device modules, of  *)
(* 12 ("pcdev") and of 13 and 14 ("Dev001": the two have the same code and *)
(* the same module name, so that one can be loaded at a time), and the     *)
(* device "dt" of the device tree, which is always there.                  *)
(*                                                                         *)
(* The driver core is external: registering a driver walks over the        *)
(* devices, removing one over those it has bound, each walk with a         *)
(* reference to one device at a time; adding a device looks for a driver.  *)
(* probe and remove run under the lock of the device, so each is a step.   *)
(***************************************************************************)
Drivers == {"by_name", "by_id", "by_dt"}
Devices == {"pcdev", "Dev001", "dt"}
None == "none"

VARIABLES
  drv,       \* driver modules: "out", "refused" (loaded, but its driver is not
             \* registered), "attaching", "live" or "detaching"
  dvc,       \* devices: "out", "failed" (module loaded, but the device is not
             \* registered), "adding", "live", "deleting" or "leaving"
  bound,     \* the driver of each device
  id_entry,  \* pdev->id_entry: the module whose id table it points into
  held,      \* the device a driver's walk has a reference to; "freed" if the
             \* device's module has been removed since
  visited,   \* the devices a driver's walk has seen
  dangling,  \* the drivers that have a freed device in their list
  fault,     \* "no", or what has crashed: "probe", "unregister", "release" or "detach"
  raced      \* history: the devices that a driver_attach had when they left the bus

vars == <<drv, dvc, bound, id_entry, held, visited, dangling, fault, raced>>

OnBus == {v \in Devices : dvc[v] \in {"adding", "live"}}

Init ==
  /\ drv = [d \in Drivers |-> "out"]
  /\ dvc = [v \in Devices |-> IF v = "dt" THEN "live" ELSE "out"]
  /\ bound = [v \in Devices |-> None] /\ id_entry = [v \in Devices |-> None]
  /\ held = [d \in Drivers |-> None] /\ visited = [d \in Drivers |-> {}]
  /\ dangling = {} /\ fault = "no" /\ raced = {}

-----------------------------------------------------------------------------
(* What the structures of the modules say.                                 *)

\* A by_id without its id table.
id_table_missing(d) == IF d = "by_dt" THEN {"Dev001"} ELSE {}

\* .id_table = pcdevs_ids
id_table(d) == IF d \in {"by_id", "by_dt"} THEN {"Dev001"} ELSE {}

\* .of_match_table = of_pcdevs_ids
of_match_table(d) == IF d = "by_dt" THEN {"dt"} ELSE {}

\* The device whose name is that of all three drivers.
NameMatches(v) == v = "pcdev"

\* .platform_data = &prv_dvc1
platform_data == {"pcdev", "Dev001"}

\* The name is compared only if there is no id table.
platform_match(d, v) ==
  v \in of_match_table(d) \cup id_table(d) \/ (id_table(d) = {} /\ NameMatches(v))

-----------------------------------------------------------------------------
(* The probe functions.                                                    *)

\* A by_dt that reads the platform data of every device.
ReadsPlatdataAlways(d, v) == TRUE

\* Those of 12 and 13, and that of 14 for a device it has not matched in its
\* device-tree table, read the platform data.
ReadsPlatdata(d, v) == v \notin of_match_table(d)

\* Those of 13 and 14 then read pdev->id_entry too: it is NULL, or points into the
\* table of a module that may be gone.
EntryMissing(d, v, entry) ==
  /\ d \in {"by_id", "by_dt"} /\ v \notin of_match_table(d)
  /\ entry # d

\* Match v and d, and probe v if it has no driver: a match in an id table sets
\* pdev->id_entry, of a device that has a driver too.
probe(d, v) ==
  LET entry == IF v \in id_table(d) THEN d ELSE id_entry[v] IN
  /\ id_entry' = [id_entry EXCEPT ![v] = entry]
  /\ IF bound[v] = None /\ platform_match(d, v)
     THEN IF (ReadsPlatdata(d, v) /\ v \notin platform_data) \/ EntryMissing(d, v, entry)
          THEN fault' = "probe" /\ UNCHANGED bound
          ELSE bound' = [bound EXCEPT ![v] = d] /\ UNCHANGED fault
     ELSE UNCHANGED <<bound, fault>>

-----------------------------------------------------------------------------
(* Driver modules.                                                         *)

Registered(d) == drv[d] \in {"attaching", "live", "detaching"}

\* Three drivers with three names.
NamesDiffer == FALSE

\* All three have one .name.
NameTaken == \E d \in Drivers : Registered(d)

\* platform_driver_register, whose result is ignored: a name that is taken is
\* refused, and memory may run out.
driver_init(d) ==
  /\ drv[d] = "out"
  /\ \/ ~NameTaken /\ drv' = [drv EXCEPT ![d] = "attaching"]
     \/ drv' = [drv EXCEPT ![d] = "refused"]
  /\ UNCHANGED <<dvc, bound, id_entry, held, visited, dangling, fault, raced>>

driver_attach_next(d) ==
  /\ drv[d] = "attaching" /\ held[d] = None
  /\ \E v \in OnBus \ visited[d] :
       /\ held' = [held EXCEPT ![d] = v]
       /\ visited' = [visited EXCEPT ![d] = @ \cup {v}]
  /\ UNCHANGED <<drv, dvc, bound, id_entry, dangling, fault, raced>>

\* dev->kobj.state_in_sysfs: still set for a device that has left the list of the
\* bus and lost its driver but is not deleted from sysfs yet.
device_is_registered(v) == dvc[v] \in {"adding", "live", "deleting"}

driver_attach(d) ==
  /\ drv[d] = "attaching" /\ held[d] \in Devices
  /\ held' = [held EXCEPT ![d] = None]
  /\ IF device_is_registered(held[d]) THEN probe(d, held[d])
                                      ELSE UNCHANGED <<bound, id_entry, fault>>
  /\ UNCHANGED <<drv, dvc, visited, dangling, raced>>

driver_attach_done(d) ==
  /\ drv[d] = "attaching" /\ held[d] = None
  /\ OnBus \subseteq visited[d]
  /\ drv' = [drv EXCEPT ![d] = "live"]
  /\ visited' = [visited EXCEPT ![d] = {}]
  /\ UNCHANGED <<dvc, bound, id_entry, held, dangling, fault, raced>>

\* An exit function that forgets platform_driver_unregister.
driver_exit_forgets(d) ==
  /\ drv[d] \in {"live", "refused"}
  /\ drv' = [drv EXCEPT ![d] = "out"]
  /\ UNCHANGED <<dvc, bound, id_entry, held, visited, dangling, fault, raced>>

\* platform_driver_unregister only warns about a driver that is not registered.
driver_exit(d) ==
  /\ drv[d] \in {"live", "refused"}
  /\ drv' = [drv EXCEPT ![d] = IF @ = "live" THEN "detaching" ELSE "out"]
  /\ UNCHANGED <<dvc, bound, id_entry, held, visited, dangling, fault, raced>>

driver_detach_next(d) ==
  /\ drv[d] = "detaching" /\ held[d] = None /\ d \notin dangling
  /\ \E v \in Devices : bound[v] = d /\ held' = [held EXCEPT ![d] = v]
  /\ UNCHANGED <<drv, dvc, bound, id_entry, visited, dangling, fault, raced>>

\* The driver's remove function, unless the device has been removed meanwhile.
driver_detach(d) ==
  /\ drv[d] = "detaching" /\ held[d] \in Devices
  /\ bound' = [bound EXCEPT ![held[d]] = IF @ = d THEN None ELSE @]
  /\ held' = [held EXCEPT ![d] = None]
  /\ UNCHANGED <<drv, dvc, id_entry, visited, dangling, fault, raced>>

driver_detach_done(d) ==
  /\ drv[d] = "detaching" /\ held[d] = None /\ d \notin dangling
  /\ \A v \in Devices : bound[v] # d
  /\ drv' = [drv EXCEPT ![d] = "out"]
  /\ UNCHANGED <<dvc, bound, id_entry, held, visited, dangling, fault, raced>>

\* The walk meets a device that was freed with its driver still bound.
detach_freed(d) ==
  /\ drv[d] = "detaching" /\ held[d] = None /\ d \in dangling
  /\ fault' = "detach"
  /\ UNCHANGED <<drv, dvc, bound, id_entry, held, visited, dangling, raced>>

-----------------------------------------------------------------------------
(* Device modules.                                                         *)

\* platform_device_register, whose result is ignored.
device_init(v) ==
  /\ dvc[v] = "out"
  /\ \/ dvc' = [dvc EXCEPT ![v] = "adding"]
     \/ dvc' = [dvc EXCEPT ![v] = "failed"]
  /\ id_entry' = [id_entry EXCEPT ![v] = None]
  /\ raced' = raced \ {v}
  /\ UNCHANGED <<drv, bound, held, visited, dangling, fault>>

\* The new device looks for a driver.
device_attach(v) ==
  /\ dvc[v] = "adding"
  /\ \/ \E d \in Drivers : drv[d] \in {"attaching", "live"} /\ probe(d, v)
     \/ /\ \A d \in Drivers : drv[d] \notin {"attaching", "live"}
        /\ UNCHANGED <<bound, id_entry, fault>>
  /\ dvc' = [dvc EXCEPT ![v] = "live"]
  /\ UNCHANGED <<drv, held, visited, dangling, raced>>

\* platform_device_unregister: the device leaves the list of the bus and its
\* driver's remove function is called.  A device that was never added cannot be
\* deleted.
device_exit(v) ==
  /\ v # "dt"
  /\ \/ /\ dvc[v] = "live"
        /\ dvc' = [dvc EXCEPT ![v] = "deleting"]
        /\ bound' = [bound EXCEPT ![v] = None]
        /\ raced' = IF \E d \in Drivers : drv[d] = "attaching" /\ held[d] = v
                    THEN raced \cup {v} ELSE raced
        /\ UNCHANGED fault
     \/ /\ dvc[v] = "failed"
        /\ fault' = "unregister"
        /\ UNCHANGED <<dvc, bound, raced>>
  /\ UNCHANGED <<drv, id_entry, held, visited, dangling>>

\* kobject_del: from now on it is not probed.
device_deleted(v) ==
  /\ dvc[v] = "deleting"
  /\ dvc' = [dvc EXCEPT ![v] = "leaving"]
  /\ UNCHANGED <<drv, bound, id_entry, held, visited, dangling, fault, raced>>

\* The last reference but those of the walks is given up, and the module is
\* freed: pcdev_release runs now if no walk has the device.  A driver that is
\* bound to it has no reference.
device_freed(v) ==
  /\ dvc[v] = "leaving"
  /\ dvc' = [dvc EXCEPT ![v] = "out"]
  /\ held' = [d \in Drivers |-> IF held[d] = v THEN "freed" ELSE held[d]]
  /\ dangling' = dangling \cup ({bound[v]} \cap Drivers)
  /\ bound' = [bound EXCEPT ![v] = None]
  /\ UNCHANGED <<drv, id_entry, visited, fault, raced>>

\* A walk gives up the last reference: the code of pcdev_release is gone.
late_release(d) ==
  /\ held[d] = "freed"
  /\ fault' = "release"
  /\ UNCHANGED <<drv, dvc, bound, id_entry, held, visited, dangling, raced>>

-----------------------------------------------------------------------------
\* A fault leaves the lock of the bus or of the device taken, and the model ends.
Next ==
  /\ fault = "no"
  /\ \/ \E d \in Drivers :
          \/ driver_init(d) \/ driver_attach_next(d) \/ driver_attach(d)
          \/ driver_attach_done(d) \/ driver_exit(d) \/ driver_detach_next(d)
          \/ driver_detach(d) \/ driver_detach_done(d) \/ detach_freed(d) \/ late_release(d)
     \/ \E v \in Devices :
          \/ device_init(v) \/ device_attach(v) \/ device_exit(v) \/ device_deleted(v)
          \/ device_freed(v)

Spec == Init /\ [][Next]_vars

-----------------------------------------------------------------------------
(* Properties.                                                             *)

\* The type of the state; the device of the device tree never goes, and the bus
\* knows one of the three drivers at a time.
TypeOK ==
  /\ drv \in [Drivers -> {"out", "refused", "attaching", "live", "detaching"}]
  /\ dvc \in [Devices -> {"out", "failed", "adding", "live", "deleting", "leaving"}]
  /\ dvc["dt"] = "live"
  /\ bound \in [Devices -> Drivers \cup {None}]
  /\ id_entry \in [Devices -> Drivers \cup {None}]
  /\ held \in [Drivers -> Devices \cup {None, "freed"}]
  /\ visited \in [Drivers -> SUBSET Devices]
  /\ dangling \subseteq Drivers /\ raced \subseteq Devices
  /\ fault \in {"no", "probe", "unregister", "release", "detach"}
  /\ \A d, e \in Drivers : Registered(d) /\ Registered(e) => d = e

(***************************************************************************)
(* No probe function reads platform data that is not there, or a           *)
(* pdev->id_entry that is NULL or points into the table of another         *)
(* driver's module, whichever modules have come and gone before.           *)
(***************************************************************************)
ProbesFindData == fault # "probe"

(***************************************************************************)
(* No device is bound to a module that is gone, however the walks, the     *)
(* additions and the removals overlap, and none that has left the bus is   *)
(* bound, with one exception: a driver_attach that had it then may bind it *)
(* again before it is deleted from sysfs.  Such a device is freed while it *)
(* is in the list of its driver, whose removal then crashes.               *)
(***************************************************************************)
NoneDangling ==
  \A v \in Devices : bound[v] # None =>
    /\ Registered(bound[v])
    /\ v \in OnBus \/ (v \in raced /\ dvc[v] \in {"deleting", "leaving"})

Intended == {<<"by_name", "pcdev">>, <<"by_id", "Dev001">>, <<"by_dt", "Dev001">>,
             <<"by_dt", "dt">>}

(***************************************************************************)
(* A device is only ever served by a driver written for it, and it is      *)
(* served as soon as both are there, whichever came first and also if they *)
(* came at the same time.  Only a driver that was refused, as one that     *)
(* comes second is because of the common name, serves nothing.             *)
(***************************************************************************)
ServedAsIntended ==
  /\ \A v \in Devices : bound[v] # None => <<bound[v], v>> \in Intended
  /\ \A d \in Drivers, v \in Devices :
       <<d, v>> \in Intended /\ drv[d] = "live" /\ dvc[v] = "live" => bound[v] = d
=============================================================================
