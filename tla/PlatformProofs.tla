----------------------------- MODULE PlatformProofs -----------------------------
(***************************************************************************)
(* Proofs about Platform.  The inductive invariant adds to the four        *)
(* invariants what a driver knows in the middle of its walk: a device that *)
(* it has visited, does not hold any more and that is live is bound to it, *)
(* also if the device has left the bus and come back since; and a device   *)
(* that is being deleted while such a walk has it is known to be raced.    *)
(***************************************************************************)
EXTENDS Platform, TLAPS

\* What ServedAsIntended claims of live drivers, for one that is still attaching.
WalkInv ==
  /\ \A d \in Drivers : visited[d] # {} => drv[d] = "attaching"
  /\ \A d \in Drivers : held[d] # None => drv[d] \in {"attaching", "detaching"}
  /\ \A d \in Drivers, v \in Devices :
       /\ <<d, v>> \in Intended /\ drv[d] = "attaching" /\ dvc[v] = "live"
       /\ v \in visited[d] /\ held[d] # v
       => bound[v] = d
  /\ \A d \in Drivers, v \in Devices :
       drv[d] = "attaching" /\ held[d] = v /\ dvc[v] = "deleting" => v \in raced

\* The inductive invariant.
PlatformInv == TypeOK /\ ProbesFindData /\ NoneDangling /\ ServedAsIntended /\ WalkInv

\* What the proofs need to know of the names.
LEMMA Names == None \notin Devices /\ "freed" \notin Devices \cup {None} /\ "dt" \in Devices
BY DEF None, Devices

-----------------------------------------------------------------------------
(* Matching and probing.                                                   *)

\* The tables match exactly the pairs the modules were written for.
LEMMA MatchIntended ==
  ASSUME NEW d \in Drivers, NEW v \in Devices
  PROVE  platform_match(d, v) <=> <<d, v>> \in Intended
BY DEF platform_match, of_match_table, id_table, NameMatches, Intended, Drivers, Devices

(***************************************************************************)
(* A match and probe of v by d never crashes; afterwards v is bound to d   *)
(* if it was free and d is meant for it, and otherwise as before.          *)
(***************************************************************************)
LEMMA ProbeEffect ==
  ASSUME TypeOK, NEW d \in Drivers, NEW v \in Devices, probe(d, v)
  PROVE  /\ fault' = fault
         /\ bound' = IF bound[v] = None /\ <<d, v>> \in Intended
                     THEN [bound EXCEPT ![v] = d] ELSE bound
         /\ id_entry' \in [Devices -> Drivers \cup {None}]
<1>1. platform_match(d, v) <=> <<d, v>> \in Intended
  BY MatchIntended
<1>2. ASSUME platform_match(d, v)
      PROVE  ~(ReadsPlatdata(d, v) /\ v \notin platform_data)
  BY <1>2 DEF platform_match, of_match_table, id_table, NameMatches, ReadsPlatdata,
     platform_data, Drivers, Devices
<1>3. ASSUME platform_match(d, v)
      PROVE  ~EntryMissing(d, v, IF v \in id_table(d) THEN d ELSE id_entry[v])
  BY <1>3 DEF platform_match, of_match_table, id_table, NameMatches, EntryMissing, Drivers,
     Devices
<1>4. id_entry' \in [Devices -> Drivers \cup {None}]
  BY DEF probe, TypeOK
<1>5. CASE bound[v] = None /\ platform_match(d, v)
  BY <1>1, <1>2, <1>3, <1>4, <1>5 DEF probe
<1>6. CASE ~(bound[v] = None /\ platform_match(d, v))
  BY <1>1, <1>4, <1>6 DEF probe
<1>7. QED
  BY <1>5, <1>6

(***************************************************************************)
(* The drivers and the devices are bound in pairs for which a driver is    *)
(* registered, and the bus knows one driver: the driver of any device is   *)
(* any registered driver.                                                  *)
(***************************************************************************)
LEMMA OneDriver ==
  ASSUME TypeOK, NoneDangling, NEW d \in Drivers, NEW v \in Devices,
         Registered(d), bound[v] # None
  PROVE  bound[v] = d
BY DEF TypeOK, NoneDangling
-----------------------------------------------------------------------------
(* The induction.                                                          *)

\* The modules start with nothing loaded.
LEMMA InitInv == Init => PlatformInv
BY DEF Init, PlatformInv, TypeOK, ProbesFindData, NoneDangling, ServedAsIntended, WalkInv,
   Registered, OnBus, Intended, Drivers, Devices, None

\* The actions of a driver module that only change its own walk.
LEMMA WalkSteps ==
  ASSUME PlatformInv, NEW d \in Drivers,
         \/ driver_init(d) \/ driver_attach_next(d) \/ driver_attach_done(d)
         \/ driver_exit(d) \/ driver_detach_next(d) \/ driver_detach_done(d)
  PROVE  PlatformInv'
<1>1. CASE driver_init(d)
  <2>1. TypeOK'
    BY <1>1 DEF PlatformInv, TypeOK, Registered, driver_init, NameTaken
  <2>2. ProbesFindData'
    BY <1>1 DEF PlatformInv, ProbesFindData, driver_init, NameTaken
  <2>3. NoneDangling'
    BY <1>1 DEF PlatformInv, TypeOK, NoneDangling, Registered, OnBus, driver_init, NameTaken
  <2>4. ServedAsIntended'
    BY <1>1 DEF PlatformInv, TypeOK, NoneDangling, ServedAsIntended, WalkInv, Registered,
       OnBus, driver_init, NameTaken
  <2>5. WalkInv'
    BY <1>1, Names DEF PlatformInv, TypeOK, NoneDangling, ServedAsIntended, WalkInv, Registered,
       OnBus, driver_init, NameTaken
  <2>6. QED
    BY <2>1, <2>2, <2>3, <2>4, <2>5 DEF PlatformInv
<1>2. CASE driver_attach_next(d)
  <2>1. TypeOK'
    BY <1>2 DEF PlatformInv, TypeOK, Registered, OnBus, driver_attach_next
  <2>2. ProbesFindData'
    BY <1>2 DEF PlatformInv, ProbesFindData, driver_attach_next
  <2>3. NoneDangling'
    BY <1>2 DEF PlatformInv, TypeOK, NoneDangling, Registered, OnBus, driver_attach_next
  <2>4. ServedAsIntended'
    BY <1>2, Names DEF PlatformInv, TypeOK, NoneDangling, ServedAsIntended, WalkInv,
       Registered, OnBus, driver_attach_next
  <2>5. WalkInv'
    BY <1>2, Names DEF PlatformInv, TypeOK, NoneDangling, ServedAsIntended, WalkInv,
       Registered, OnBus, driver_attach_next
  <2>6. QED
    BY <2>1, <2>2, <2>3, <2>4, <2>5 DEF PlatformInv
<1>3. CASE driver_attach_done(d)
  <2>1. TypeOK'
    BY <1>3 DEF PlatformInv, TypeOK, Registered, driver_attach_done
  <2>2. ProbesFindData'
    BY <1>3 DEF PlatformInv, ProbesFindData, driver_attach_done
  <2>3. NoneDangling'
    BY <1>3 DEF PlatformInv, TypeOK, NoneDangling, Registered, OnBus, driver_attach_done
  <2>4. ServedAsIntended'
    BY <1>3, Names DEF PlatformInv, TypeOK, NoneDangling, ServedAsIntended, WalkInv,
       Registered, OnBus, driver_attach_done
  <2>5. WalkInv'
    BY <1>3, Names DEF PlatformInv, TypeOK, NoneDangling, ServedAsIntended, WalkInv,
       Registered, OnBus, driver_attach_done
  <2>6. QED
    BY <2>1, <2>2, <2>3, <2>4, <2>5 DEF PlatformInv
<1>4. CASE driver_exit(d)
  BY <1>4 DEF PlatformInv, TypeOK, ProbesFindData, NoneDangling, ServedAsIntended, WalkInv,
     Registered, OnBus, driver_exit
<1>5. CASE driver_detach_next(d)
  BY <1>5 DEF PlatformInv, TypeOK, ProbesFindData, NoneDangling, ServedAsIntended, WalkInv,
     Registered, OnBus, driver_detach_next
<1>6. CASE driver_detach_done(d)
  BY <1>6 DEF PlatformInv, TypeOK, ProbesFindData, NoneDangling, ServedAsIntended, WalkInv,
     Registered, OnBus, driver_detach_done
<1>7. QED
  BY <1>1, <1>2, <1>3, <1>4, <1>5, <1>6

\* The walk of d ends with one device.
LEMMA AttachStep ==
  ASSUME PlatformInv, NEW d \in Drivers, driver_attach(d)
  PROVE  PlatformInv'
<1> USE DEF PlatformInv, TypeOK, ProbesFindData, NoneDangling, ServedAsIntended, WalkInv,
        Registered, OnBus
<1>1. CASE device_is_registered(held[d])
  <2>1. probe(d, held[d])
    BY <1>1 DEF driver_attach
  <2>2. held[d] \in Devices
    BY DEF driver_attach
  <2>3. /\ fault' = fault
        /\ bound' = IF bound[held[d]] = None /\ <<d, held[d]>> \in Intended
                    THEN [bound EXCEPT ![held[d]] = d] ELSE bound
        /\ id_entry' \in [Devices -> Drivers \cup {None}]
    BY <2>1, <2>2, ProbeEffect
  <2>4. bound[held[d]] # None => bound[held[d]] = d
    BY <2>2, OneDriver DEF driver_attach
  <2>5. held[d] \in OnBus \/ (held[d] \in raced /\ dvc[held[d]] = "deleting")
    BY <1>1, <2>2 DEF driver_attach, device_is_registered
  <2>6. TypeOK' /\ ProbesFindData'
    BY <2>2, <2>3 DEF driver_attach
  <2>7. NoneDangling'
    BY <2>2, <2>3, <2>5 DEF driver_attach
  <2>8. ServedAsIntended'
    BY <2>2, <2>3, <2>4 DEF driver_attach
  <2>9. WalkInv'
    BY <2>2, <2>3, <2>4, Names DEF driver_attach
  <2>10. QED
    BY <2>6, <2>7, <2>8, <2>9
<1>2. CASE ~device_is_registered(held[d])
  BY <1>2, Names DEF driver_attach, device_is_registered
<1>3. QED
  BY <1>1, <1>2

\* The driver d lets go of a device.
LEMMA DetachStep ==
  ASSUME PlatformInv, NEW d \in Drivers, driver_detach(d)
  PROVE  PlatformInv'
BY DEF PlatformInv, TypeOK, ProbesFindData, NoneDangling, ServedAsIntended, WalkInv,
   Registered, OnBus, driver_detach

\* A device that has just been added finds the registered driver, if there is one.
LEMMA AddStep ==
  ASSUME PlatformInv, NEW v \in Devices, device_attach(v)
  PROVE  PlatformInv'
<1>1. ASSUME NEW d \in Drivers, drv[d] \in {"attaching", "live"}, probe(d, v)
      PROVE  PlatformInv'
  <2>1. /\ fault' = fault
        /\ bound' = IF bound[v] = None /\ <<d, v>> \in Intended
                    THEN [bound EXCEPT ![v] = d] ELSE bound
        /\ id_entry' \in [Devices -> Drivers \cup {None}]
    BY <1>1, ProbeEffect DEF PlatformInv
  <2>2. bound[v] # None => bound[v] = d
    BY <1>1, OneDriver DEF PlatformInv, Registered
  <2>3. QED
    <3>1. TypeOK'
      BY <1>1, <2>1, <2>2, Names DEF PlatformInv, TypeOK, Registered, device_attach
    <3>2. ProbesFindData'
      BY <1>1, <2>1, <2>2 DEF PlatformInv, ProbesFindData, device_attach
    <3>3. NoneDangling'
      BY <1>1, <2>1, <2>2 DEF PlatformInv, TypeOK, NoneDangling, Registered, OnBus,
         device_attach
    <3>4. ServedAsIntended'
      BY <1>1, <2>1, <2>2 DEF PlatformInv, TypeOK, NoneDangling, ServedAsIntended, WalkInv,
         Registered, OnBus, device_attach
    <3>5. WalkInv'
      BY <1>1, <2>1, <2>2 DEF PlatformInv, TypeOK, NoneDangling, ServedAsIntended, WalkInv,
         Registered, OnBus, device_attach
    <3>6. QED
      BY <3>1, <3>2, <3>3, <3>4, <3>5 DEF PlatformInv
<1>2. ASSUME \A d \in Drivers : drv[d] \notin {"attaching", "live"},
             UNCHANGED <<bound, id_entry, fault>>
      PROVE  PlatformInv'
  BY <1>2, Names DEF PlatformInv, TypeOK, ProbesFindData, NoneDangling, ServedAsIntended,
     WalkInv,
     Registered, OnBus, device_attach
<1>3. QED
  BY <1>1, <1>2 DEF device_attach

\* The other actions of a device module.
LEMMA DeviceSteps ==
  ASSUME PlatformInv, NEW v \in Devices,
         device_init(v) \/ device_exit(v) \/ device_deleted(v) \/ device_freed(v)
  PROVE  PlatformInv'
<1>1. CASE device_init(v)
  <2>1. TypeOK'
    BY <1>1, Names DEF PlatformInv, TypeOK, Registered, device_init
  <2>2. ProbesFindData'
    BY <1>1 DEF PlatformInv, ProbesFindData, device_init
  <2>3. NoneDangling'
    BY <1>1 DEF PlatformInv, TypeOK, NoneDangling, Registered, OnBus, device_init
  <2>4. ServedAsIntended'
    BY <1>1 DEF PlatformInv, TypeOK, NoneDangling, ServedAsIntended, WalkInv, Registered,
       OnBus, device_init
  <2>5. WalkInv'
    BY <1>1 DEF PlatformInv, TypeOK, NoneDangling, ServedAsIntended, WalkInv, Registered,
       OnBus, device_init
  <2>6. QED
    BY <2>1, <2>2, <2>3, <2>4, <2>5 DEF PlatformInv
<1>2. CASE device_exit(v)
  <2>1. TypeOK'
    BY <1>2, Names DEF PlatformInv, TypeOK, Registered, device_exit
  <2>2. ProbesFindData'
    BY <1>2 DEF PlatformInv, ProbesFindData, device_exit
  <2>3. NoneDangling'
    BY <1>2 DEF PlatformInv, TypeOK, NoneDangling, Registered, OnBus, device_exit
  <2>4. ServedAsIntended'
    BY <1>2 DEF PlatformInv, TypeOK, NoneDangling, ServedAsIntended, WalkInv, Registered,
       OnBus, device_exit
  <2>5. WalkInv'
    BY <1>2 DEF PlatformInv, TypeOK, NoneDangling, ServedAsIntended, WalkInv, Registered,
       OnBus, device_exit
  <2>6. QED
    BY <2>1, <2>2, <2>3, <2>4, <2>5 DEF PlatformInv
<1>3. CASE device_freed(v)
  <2>1. TypeOK' /\ ProbesFindData'
    BY <1>3, Names DEF PlatformInv, TypeOK, ProbesFindData, Registered, device_freed
  <2>2. NoneDangling'
    BY <1>3 DEF PlatformInv, TypeOK, NoneDangling, Registered, OnBus, device_freed
  <2>3. ServedAsIntended'
    BY <1>3 DEF PlatformInv, TypeOK, ServedAsIntended, device_freed
  <2>4. WalkInv'
    BY <1>3, Names DEF PlatformInv, TypeOK, WalkInv, device_freed
  <2>5. QED
    BY <2>1, <2>2, <2>3, <2>4 DEF PlatformInv
<1>4. CASE device_deleted(v)
  <2>1. TypeOK' /\ ProbesFindData'
    BY <1>4, Names DEF PlatformInv, TypeOK, ProbesFindData, Registered, device_deleted
  <2>2. NoneDangling'
    BY <1>4 DEF PlatformInv, TypeOK, NoneDangling, Registered, OnBus, device_deleted
  <2>3. ServedAsIntended'
    BY <1>4 DEF PlatformInv, TypeOK, ServedAsIntended, device_deleted
  <2>4. WalkInv'
    BY <1>4 DEF PlatformInv, TypeOK, WalkInv, device_deleted
  <2>5. QED
    BY <2>1, <2>2, <2>3, <2>4 DEF PlatformInv
<1>5. QED
  BY <1>1, <1>2, <1>3, <1>4

\* Every step preserves the inductive invariant.
LEMMA NextInv == PlatformInv /\ [Next]_vars => PlatformInv'
<1> SUFFICES ASSUME PlatformInv, [Next]_vars PROVE PlatformInv'
  OBVIOUS
<1>1. ASSUME NEW d \in Drivers, late_release(d) \/ detach_freed(d)
      PROVE  PlatformInv'
  BY <1>1 DEF late_release, detach_freed, PlatformInv, TypeOK, ProbesFindData, NoneDangling,
     ServedAsIntended, WalkInv, Registered, OnBus
<1>2. CASE UNCHANGED vars
  BY <1>2 DEF vars, PlatformInv, TypeOK, ProbesFindData, NoneDangling,
     ServedAsIntended, WalkInv, Registered, OnBus
<1>3. QED
  BY <1>1, <1>2, WalkSteps, AttachStep, DetachStep, AddStep, DeviceSteps DEF Next

\* The inductive invariant holds throughout.
THEOREM InvariantHolds == Spec => []PlatformInv
BY InitInv, NextInv, PTL DEF Spec

-----------------------------------------------------------------------------
\* The types are as declared, and the bus knows one driver at a time.
THEOREM PlatformTypes == Spec => []TypeOK
<1>1. PlatformInv => TypeOK
  BY DEF PlatformInv
<1>2. QED
  BY <1>1, InvariantHolds, PTL

\* No probe function meets missing platform data or a missing id_entry.
THEOREM ProbesCorrect == Spec => []ProbesFindData
<1>1. PlatformInv => ProbesFindData
  BY DEF PlatformInv
<1>2. QED
  BY <1>1, InvariantHolds, PTL

\* No binding outlives its driver, and only one that a driver_attach makes while the
\* device is being deleted outlives the device.
THEOREM BindingsCorrect == Spec => []NoneDangling
<1>1. PlatformInv => NoneDangling
  BY DEF PlatformInv
<1>2. QED
  BY <1>1, InvariantHolds, PTL

\* A driver and its device that are both there are bound to each other.
THEOREM ServiceCorrect == Spec => []ServedAsIntended
<1>1. PlatformInv => ServedAsIntended
  BY DEF PlatformInv
<1>2. QED
  BY <1>1, InvariantHolds, PTL
=============================================================================
