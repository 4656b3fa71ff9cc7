------------------------------ MODULE Registration ------------------------------
(***************************************************************************)
(* How the drivers of the repository enter the kernel and leave it: the    *)
(* init and exit functions of the modules 11 (psd), 17 (poll) and 18       *)
(* (ioctl), and the probe and remove functions of 15 (i2c_gen) and of the  *)
(* drivers w25q32 and ds1302.                                              *)
(*                                                                         *)
(* Each of these functions is a sequence of calls that acquire or release  *)
(* something.  A record per driver says which calls, in which order, which *)
(* failures the code notices and what it releases then.  Any call may      *)
(* fail, several modules may be loaded and several devices probed at the   *)
(* same time, and class names are shared by all of them.                   *)
(***************************************************************************)
EXTENDS Integers, Sequences, FiniteSets

CONSTANTS
  Registrants,  \* modules being loaded and devices being probed
  Teams,        \* combinations of drivers for them to have
  None

Drivers   == {"psd", "poll", "ioctl", "i2c_gen", "w25q32", "ds1302"}

\* The drivers that count their devices.
BusDrivers == {"i2c_gen", "w25q32"}

\* What can be held; the other steps hold nothing.
Resources == {"mem", "region", "class", "cdev", "device", "kobj", "file", "map", "rtc"}

ASSUME RegAssumption ==
  /\ Teams \subseteq [Registrants -> Drivers]
  /\ None \notin Registrants
  /\ "err" \notin Registrants

-----------------------------------------------------------------------------
(* The drivers.  init: the calls of the init or probe function.  noticed:  *)
(* the calls whose failure makes it fail.  undo: what it then releases.    *)
(* exit: the calls of the exit or remove function.                         *)

psd_init ==
  [init    |-> <<"region", "class", "cdev", "device">>,
   noticed |-> {"region", "class", "cdev", "device"},
   undo    |-> [region |-> << >>,
                class  |-> <<"region">>,
                cdev   |-> <<"class", "region">>,
                device |-> <<"cdev", "class", "region">>]]

\* The exit function with the class destroyed before its device.
psd_exit_reversed == <<"class", "device", "cdev", "region">>

\* An exit function that takes its data from a pointer nobody has set.
psd_exit_drvdata == <<"drvdata", "device", "class", "cdev", "region">>

psd_exit == <<"device", "class", "cdev", "region">>

\* class_create and device_create are compared with NULL, which they never
\* return, and the result of kobject_create_and_add is not looked at.
poll_init ==
  [init    |-> <<"region", "cdev", "class", "device", "kobj", "file">>,
   noticed |-> {"region", "cdev", "file"},
   undo    |-> [region |-> << >>,
                cdev   |-> <<"region">>,
                file   |-> <<"kobj", "class", "region">>]]

poll_exit == <<"kobj", "device", "class", "cdev", "region">>

\* An init function that frees no number when cdev_add fails.
ioctl_init_leaky ==
  [init    |-> <<"region", "cdev", "class", "device">>,
   noticed |-> {"region", "cdev"},
   undo    |-> [region |-> << >>,
                cdev   |-> << >>]]

ioctl_init ==
  [init    |-> <<"region", "cdev", "class", "device">>,
   noticed |-> {"region", "cdev"},
   undo    |-> [region |-> << >>,
                cdev   |-> <<"region">>]]

ioctl_exit == <<"device", "class", "cdev", "region">>

\* A probe that uses the class of the first device instead of creating one.
i2c_gen_probe_classless ==
  [init    |-> <<"check", "mem", "region", "cdev", "device">>,
   noticed |-> {"check", "mem", "region", "cdev", "device"},
   undo    |-> [check  |-> << >>,
                mem    |-> << >>,
                region |-> <<"mem">>,
                cdev   |-> <<"region", "mem">>,
                device |-> <<"cdev", "region", "mem">>]]

i2c_gen_probe ==
  [init    |-> <<"check", "mem", "region", "class", "cdev", "device">>,
   noticed |-> {"check", "mem", "region", "class", "cdev", "device"},
   undo    |-> [check  |-> << >>,
                mem    |-> << >>,
                region |-> <<"mem">>,
                class  |-> <<"region", "mem">>,
                cdev   |-> <<"class", "region", "mem">>,
                device |-> <<"cdev", "class", "region", "mem">>]]

\* drvdata: i2c_get_clientdata, and the first use of what it returns.
i2c_gen_remove == <<"drvdata", "device", "class", "cdev", "region">>

\* A probe that goes on without its device node.
w25q32_probe_unchecked ==
  [init    |-> <<"mem", "setup", "region", "class", "cdev", "device">>,
   noticed |-> {"mem", "setup", "region", "class", "cdev"},
   undo    |-> [mem    |-> << >>,
                setup  |-> <<"mem">>,
                region |-> <<"mem">>,
                class  |-> <<"region", "mem">>,
                cdev   |-> <<"class", "region", "mem">>]]

w25q32_probe ==
  [init    |-> <<"mem", "setup", "region", "class", "cdev", "device">>,
   noticed |-> {"mem", "setup", "region", "class", "cdev", "device"},
   undo    |-> [mem    |-> << >>,
                setup  |-> <<"mem">>,
                region |-> <<"mem">>,
                class  |-> <<"region", "mem">>,
                cdev   |-> <<"class", "region", "mem">>,
                device |-> <<"cdev", "class", "region", "mem">>]]

w25q32_remove == <<"drvdata", "device", "class", "cdev", "region">>

\* set_time reads driver data that probe stores only after the rtc.
ds1302_probe ==
  [init    |-> <<"mem", "setup", "map", "regmap_read", "set_time", "rtc">>,
   noticed |-> {"mem", "setup", "map", "regmap_read", "rtc"},
   undo    |-> [mem         |-> << >>,
                setup       |-> <<"mem">>,
                map         |-> <<"mem">>,
                regmap_read |-> << >>,
                rtc         |-> <<"map", "mem">>]]

ds1302_remove == << >>

InitOf == [psd |-> psd_init, poll |-> poll_init, ioctl |-> ioctl_init,
           i2c_gen |-> i2c_gen_probe, w25q32 |-> w25q32_probe, ds1302 |-> ds1302_probe]

ExitOf == [psd |-> psd_exit, poll |-> poll_exit, ioctl |-> ioctl_exit,
           i2c_gen |-> i2c_gen_remove, w25q32 |-> w25q32_remove, ds1302 |-> ds1302_remove]

\* The names the drivers give their classes.
ClassName == [psd |-> "psd_class", poll |-> "etx_class", ioctl |-> "etx_class",
              i2c_gen |-> "generic_i2c_dev_rk", w25q32 |-> "w25q32"]

-----------------------------------------------------------------------------
VARIABLES
  DriverOf,     \* the driver of each registrant; it never changes
  st,           \* "out", "init", "counting", "undo", "live", "exit" or "oops"
  todo,         \* the calls still to be made
  held,         \* what each registrant has acquired
  class_ptr,    \* the class pointer of each driver: None, "err" or whose class it is
  class_owner,  \* who has registered each class name
  minor_count,  \* the device counter of each bus driver
  read,         \* what each probe read from it: for its device number, for the
                \* name of its node and for the increment
  failed_at     \* history: the call that made the last init or probe fail

vars == <<DriverOf, st, todo, held, class_ptr, class_owner, minor_count, read, failed_at>>

Reads  == {"region", "device", "count"}
Unread == [x \in Reads |-> 0]

ClassNames == {ClassName[d] : d \in DOMAIN ClassName}

Init ==
  /\ DriverOf \in Teams
  /\ st = [r \in Registrants |-> "out"]
  /\ todo = [r \in Registrants |-> << >>]
  /\ held = [r \in Registrants |-> {}]
  /\ class_ptr = [d \in Drivers |-> None]
  /\ class_owner = [n \in ClassNames |-> None]
  /\ minor_count = [d \in BusDrivers |-> 0]
  /\ read = [r \in Registrants |-> Unread]
  /\ failed_at = [r \in Registrants |-> None]

Name(r) == ClassName[DriverOf[r]]
Ptr(r)  == class_ptr[DriverOf[r]]
Counter(r) == minor_count[DriverOf[r]]

\* A device or cdev that an earlier load has left stays registered in freed memory,
\* out of reach of the new load; a class that was left keeps its name.
start_init(r) ==
  /\ st[r] = "out"
  /\ st' = [st EXCEPT ![r] = "init"]
  /\ todo' = [todo EXCEPT ![r] = InitOf[DriverOf[r]].init]
  /\ held' = [held EXCEPT ![r] = @ \cap {"class"}]
  /\ read' = [read EXCEPT ![r] = Unread]
  /\ failed_at' = [failed_at EXCEPT ![r] = None]
  /\ UNCHANGED <<DriverOf, class_ptr, class_owner, minor_count>>

\* Calls of an init function that dereference something that is not there:
\* sysfs_create_file the NULL that kobject_create_and_add returned, and
\* ds1302_set_time the driver data.
InitFaults(r, step) == step = "set_time" \/ (step = "file" /\ "kobj" \notin held[r])

\* A call of the init function that succeeds.
acquire(r) ==
  LET step == Head(todo[r]) IN
  /\ st[r] = "init"
  /\ todo[r] # << >>
  /\ step = "class" => class_owner[Name(r)] = None
  /\ step = "device" => Ptr(r) # "err"
  /\ ~InitFaults(r, step)
  /\ held' = [held EXCEPT ![r] = @ \cup ({step} \cap Resources)]
  /\ class_owner' = IF step = "class" THEN [class_owner EXCEPT ![Name(r)] = r]
                                      ELSE class_owner
  /\ class_ptr' = IF step = "class" THEN [class_ptr EXCEPT ![DriverOf[r]] = r]
                                    ELSE class_ptr
  /\ read' = IF DriverOf[r] \in BusDrivers /\ step \in {"region", "device"}
             THEN [read EXCEPT ![r][step] = Counter(r)] ELSE read
  /\ todo' = [todo EXCEPT ![r] = Tail(@)]
  /\ UNCHANGED <<DriverOf, st, minor_count, failed_at>>

\* A failed class_create that stores NULL.
fail_null(r) ==
  LET step == Head(todo[r])
      drv  == InitOf[DriverOf[r]]
  IN
  /\ st[r] = "init"
  /\ todo[r] # << >>
  /\ ~InitFaults(r, step)
  /\ class_ptr' = IF step = "class" THEN [class_ptr EXCEPT ![DriverOf[r]] = "null"]
                                    ELSE class_ptr
  /\ \/ /\ step \in drv.noticed
        /\ st' = [st EXCEPT ![r] = "undo"]
        /\ todo' = [todo EXCEPT ![r] = drv.undo[step]]
        /\ failed_at' = [failed_at EXCEPT ![r] = step]
     \/ /\ step \notin drv.noticed
        /\ todo' = [todo EXCEPT ![r] = Tail(@)]
        /\ UNCHANGED <<st, failed_at>>
  /\ UNCHANGED <<DriverOf, held, class_owner, minor_count, read>>

\* A call of the init function that fails.
fail(r) ==
  LET step == Head(todo[r])
      drv  == InitOf[DriverOf[r]]
  IN
  /\ st[r] = "init"
  /\ todo[r] # << >>
  /\ ~InitFaults(r, step)
  /\ class_ptr' = IF step = "class" THEN [class_ptr EXCEPT ![DriverOf[r]] = "err"]
                                    ELSE class_ptr
  /\ \/ /\ step \in drv.noticed
        /\ st' = [st EXCEPT ![r] = "undo"]
        /\ todo' = [todo EXCEPT ![r] = drv.undo[step]]
        /\ failed_at' = [failed_at EXCEPT ![r] = step]
     \/ /\ step \notin drv.noticed
        /\ todo' = [todo EXCEPT ![r] = Tail(@)]
        /\ UNCHANGED <<st, failed_at>>
  /\ UNCHANGED <<DriverOf, held, class_owner, minor_count, read>>

\* minor_count++ of a probe function: the load, ...
load_count(r) ==
  /\ st[r] = "init"
  /\ todo[r] = << >>
  /\ DriverOf[r] \in BusDrivers
  /\ read' = [read EXCEPT ![r]["count"] = Counter(r)]
  /\ st' = [st EXCEPT ![r] = "counting"]
  /\ UNCHANGED <<DriverOf, todo, held, class_ptr, class_owner, minor_count, failed_at>>

\* ... and the store, with which it returns 0; the other functions do not count.
init_done(r) ==
  /\ \/ /\ st[r] = "counting"
        /\ minor_count' = [minor_count EXCEPT ![DriverOf[r]] = read[r]["count"] + 1]
     \/ /\ st[r] = "init"
        /\ todo[r] = << >>
        /\ DriverOf[r] \notin BusDrivers
        /\ UNCHANGED minor_count
  /\ st' = [st EXCEPT ![r] = "live"]
  /\ UNCHANGED <<DriverOf, todo, held, class_ptr, class_owner, read, failed_at>>

\* rmmod, or the device goes away.
start_exit(r) ==
  /\ st[r] = "live"
  /\ st' = [st EXCEPT ![r] = "exit"]
  /\ todo' = [todo EXCEPT ![r] = ExitOf[DriverOf[r]]]
  /\ UNCHANGED <<DriverOf, held, class_ptr, class_owner, minor_count, read, failed_at>>

\* Calls that dereference something that is not there: the client data, which
\* no probe function sets, and in device_destroy an error code as a class.
Faults(r, step) == step = "drvdata" \/ (step = "device" /\ Ptr(r) = "err")

oops(r) ==
  /\ todo[r] # << >>
  /\ \/ st[r] = "init" /\ InitFaults(r, Head(todo[r]))
     \/ st[r] \in {"undo", "exit"} /\ Faults(r, Head(todo[r]))
  /\ st' = [st EXCEPT ![r] = "oops"]
  /\ UNCHANGED <<DriverOf, todo, held, class_ptr, class_owner, minor_count, read, failed_at>>

\* class_destroy does nothing with an error code; kobject_put removes the
\* directory with the file in it.
release(r) ==
  LET step == Head(todo[r]) IN
  /\ st[r] \in {"undo", "exit"}
  /\ todo[r] # << >>
  /\ ~Faults(r, step)
  /\ held' = [held EXCEPT ![r] =
                CASE step = "kobj" -> @ \ {"kobj", "file"}
                  [] step = "class" -> IF Ptr(r) = r THEN @ \ {"class"} ELSE @
                  [] OTHER -> @ \ {step}]
  /\ class_owner' = IF step = "class" /\ Ptr(r) \in Registrants
                    THEN [class_owner EXCEPT ![Name(r)] = None] ELSE class_owner
  /\ todo' = [todo EXCEPT ![r] = Tail(@)]
  /\ UNCHANGED <<DriverOf, st, class_ptr, minor_count, read, failed_at>>

\* The driver core frees what devm_ functions allocated after remove.  The
\* remove functions of the bus drivers count down, but fault before they end.
exit_done(r) ==
  /\ st[r] \in {"undo", "exit"}
  /\ todo[r] = << >>
  /\ held' = [held EXCEPT ![r] = @ \ {"mem", "map"}]
  /\ minor_count' = IF st[r] = "exit" /\ DriverOf[r] \in BusDrivers
                    THEN [minor_count EXCEPT ![DriverOf[r]] = @ - 1] ELSE minor_count
  /\ st' = [st EXCEPT ![r] = "out"]
  /\ UNCHANGED <<DriverOf, todo, class_ptr, class_owner, read, failed_at>>

Next ==
  \E r \in Registrants :
    \/ start_init(r) \/ acquire(r) \/ fail(r) \/ load_count(r) \/ init_done(r)
    \/ start_exit(r) \/ oops(r) \/ release(r) \/ exit_done(r)

Spec == Init /\ [][Next]_vars

-----------------------------------------------------------------------------
(* Properties.                                                             *)

Wanted(r) == {InitOf[DriverOf[r]].init[i] : i \in DOMAIN InitOf[DriverOf[r]].init}
               \cap Resources

\* What is held is what the init function asks for; class pointers are never NULL
\* once class_create was called.
TypeOK ==
  /\ DriverOf \in Teams
  /\ st \in [Registrants -> {"out", "init", "counting", "undo", "live", "exit", "oops"}]
  /\ \A r \in Registrants : held[r] \subseteq Wanted(r)
  /\ class_ptr \in [Drivers -> Registrants \cup {None, "err"}]
  /\ class_owner \in [ClassNames -> Registrants \cup {None}]
  /\ minor_count \in [BusDrivers -> Int]
  /\ read \in [Registrants -> [Reads -> Int]]

(***************************************************************************)
(* What can stay: etx_driver_init of the poll example, when                *)
(* sysfs_create_file fails, destroys neither its device nor its cdev; and  *)
(* a probe loses its class when another device's probe, in between, has    *)
(* replaced the pointer to it by an error code.                            *)
(***************************************************************************)
LeftBehind(r) ==
  (IF DriverOf[r] = "poll" /\ failed_at[r] = "file" THEN {"cdev", "device"} ELSE {})
  \cup (IF \E q \in Registrants \ {r} : DriverOf[q] = DriverOf[r] THEN {"class"} ELSE {})

(***************************************************************************)
(* A module that is not loaded, or a device that is not bound, because a   *)
(* call of its init or probe function failed or because it was removed,    *)
(* holds nothing but what LeftBehind names.                                *)
(***************************************************************************)
NothingElseLeftBehind ==
  \A r \in Registrants : st[r] = "out" => held[r] \subseteq LeftBehind(r)

(***************************************************************************)
(* A device node exists only within a registered class, and a cdev only    *)
(* under a reserved number, also halfway through init and exit.  (The      *)
(* error path of the poll example after sysfs_create_file has failed, see  *)
(* LeftBehind, is the exception.)                                          *)
(***************************************************************************)
Nested ==
  \A r \in Registrants :
    DriverOf[r] # "poll" \/ failed_at[r] # "file" =>
      /\ "device" \in held[r] => "class" \in held[r] /\ class_owner[Name(r)] = r
      /\ "cdev" \in held[r] => "region" \in held[r]

(***************************************************************************)
(* A module of 17 or 18 dereferences a missing object only when its init   *)
(* went on without a class or a directory.  The remove functions always    *)
(* do, because no probe function sets the driver data they read, and so    *)
(* does the probe function of the ds1302, which therefore never binds a    *)
(* device.                                                                 *)
(***************************************************************************)
OopsOnlyKnown ==
  \A r \in Registrants :
    /\ st[r] = "oops" =>
         \/ DriverOf[r] \in BusDrivers /\ held[r] = Wanted(r)
         \/ DriverOf[r] = "ds1302" /\ held[r] = {"mem", "map"}
         \/ DriverOf[r] \in {"poll", "ioctl"} /\ {"class", "kobj"} \cap (Wanted(r) \ held[r]) # {}
    /\ DriverOf[r] = "ds1302" => st[r] \notin {"live", "exit"}

(***************************************************************************)
(* An init or probe function that reports success holds everything it      *)
(* asked for, if it tests class_create with IS_ERR; the other two, which   *)
(* compare with NULL, may lack a class and a device, and then lack both or *)
(* the device.                                                             *)
(***************************************************************************)
CompleteIfChecked ==
  \A r \in Registrants : st[r] = "live" =>
    /\ Wanted(r) \ held[r] \subseteq {"class", "device"}
    /\ "class" \in Wanted(r) \ held[r] => "device" \notin held[r]
    /\ DriverOf[r] \in {"psd", "i2c_gen", "w25q32"} => held[r] = Wanted(r)

\* The devices that d has bound.
Bound(d) == {r \in Registrants : DriverOf[r] = d /\ st[r] \in {"live", "exit", "oops"}}

(***************************************************************************)
(* The unlocked device counter of 15 and of the W25Q32 driver does not go  *)
(* wrong: it is read for the device number, read again for the name of the *)
(* node and incremented in two steps while other devices are probed, yet   *)
(* it counts the bound devices, and a node carries the number of its       *)
(* device.  The reason is that a driver never binds two devices: the class *)
(* of the first, which its remove never gives back, is in the way of every *)
(* other probe.                                                            *)
(***************************************************************************)
CountsTheOneDevice ==
  /\ \A d \in BusDrivers : minor_count[d] = Cardinality(Bound(d)) /\ minor_count[d] <= 1
  /\ \A r \in Registrants :
       DriverOf[r] \in BusDrivers /\ "device" \in held[r] =>
         read[r]["device"] = read[r]["region"]
=============================================================================
