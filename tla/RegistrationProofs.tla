--------------------------- MODULE RegistrationProofs ---------------------------
(***************************************************************************)
(* Theorems about Registration, for any number of modules and devices and  *)
(* every team in which a module is loaded at most once.                    *)
(*                                                                         *)
(* None of the properties is inductive: they speak of what is held, and a  *)
(* step depends on which call comes next.  The invariant says for each     *)
(* driver what is held before each call (PsdAt, PollAt...), and how the    *)
(* classes, the one thing the drivers share, hang together (ClassAt).     *)
(***************************************************************************)
EXTENDS Registration, FiniteSetTheorems, TLAPS

\* A module is loaded once; a bus driver may have many devices.
ModulesOnce ==
  \A F \in Teams : \A q, r \in Registrants :
    F[q] = F[r] /\ F[q] \in {"psd", "poll", "ioctl"} => q = r

Types ==
  /\ DriverOf \in Teams
  /\ st \in [Registrants -> {"out", "init", "counting", "undo", "live", "exit", "oops"}]
  /\ todo = [r \in Registrants |-> todo[r]]
  /\ held \in [Registrants -> SUBSET Resources]
  /\ class_ptr \in [Drivers -> Registrants \cup {None, "err"}]
  /\ class_owner \in [ClassNames -> Registrants \cup {None}]
  /\ minor_count \in [BusDrivers -> Int]
  /\ read \in [Registrants -> [Reads -> Int]]
  /\ failed_at = [r \in Registrants |-> failed_at[r]]

Twin(r) == \E q \in Registrants \ {r} : DriverOf[q] = DriverOf[r]

-----------------------------------------------------------------------------
(* What each driver holds before each call.                                *)

At(r, s, l) == st[r] = s /\ todo[r] = l

\* 17 and 18 go on without a class; then they have no device and an error
\* pointer.
Etx(r, more) ==
  /\ {"region", "cdev"} \subseteq held[r] /\ held[r] \subseteq {"region", "cdev"} \cup more
  /\ "device" \in held[r] => "class" \in held[r]
  /\ "class" \notin held[r] => Ptr(r) = "err"

EtxWhole(r) ==
  /\ Etx(r, {"class", "device", "kobj", "file"})
  /\ {"kobj", "file"} \subseteq held[r]

\* A device of a bus driver holds S, and perhaps a class that an earlier probe
\* has lost.
Rest(r, S) ==
  /\ S \subseteq held[r] /\ held[r] \subseteq S \cup {"class"}
  /\ "class" \in held[r] => Twin(r)

\* Psd_driver_init and psd_driver_exit (11).
PsdAt(r) ==
  \/ st[r] = "out" /\ held[r] = {}
  \/ At(r, "init", <<"region", "class", "cdev", "device">>) /\ held[r] = {}
  \/ At(r, "init", <<"class", "cdev", "device">>) /\ held[r] = {"region"}
  \/ At(r, "init", <<"cdev", "device">>) /\ held[r] = {"region", "class"}
  \/ At(r, "init", <<"device">>) /\ held[r] = {"region", "class", "cdev"}
  \/ At(r, "init", << >>) /\ held[r] = {"region", "class", "cdev", "device"}
  \/ st[r] = "live" /\ held[r] = {"region", "class", "cdev", "device"}
  \/ At(r, "undo", <<"cdev", "class", "region">>) /\ held[r] = {"region", "class", "cdev"}
  \/ At(r, "undo", <<"class", "region">>) /\ held[r] = {"region", "class"}
  \/ At(r, "undo", <<"region">>) /\ held[r] = {"region"}
  \/ At(r, "undo", << >>) /\ held[r] = {}
  \/ At(r, "exit", <<"device", "class", "cdev", "region">>)
       /\ held[r] = {"region", "class", "cdev", "device"}
  \/ At(r, "exit", <<"class", "cdev", "region">>) /\ held[r] = {"region", "class", "cdev"}
  \/ At(r, "exit", <<"cdev", "region">>) /\ held[r] = {"region", "cdev"}
  \/ At(r, "exit", <<"region">>) /\ held[r] = {"region"}
  \/ At(r, "exit", << >>) /\ held[r] = {}

\* Etx_driver_init and etx_driver_exit of 17.
PollAt(r) ==
  \/ st[r] = "out" /\ held[r] = {}
  \/ st[r] = "out" /\ held[r] \subseteq {"cdev", "device"} /\ failed_at[r] = "file"
  \/ At(r, "init", <<"region", "cdev", "class", "device", "kobj", "file">>) /\ held[r] = {}
  \/ At(r, "init", <<"cdev", "class", "device", "kobj", "file">>) /\ held[r] = {"region"}
  \/ At(r, "init", <<"class", "device", "kobj", "file">>) /\ held[r] = {"region", "cdev"}
  \/ At(r, "init", <<"device", "kobj", "file">>) /\ Etx(r, {"class"})
  \/ At(r, "init", <<"kobj", "file">>) /\ Etx(r, {"class", "device"})
  \/ At(r, "init", <<"file">>) /\ Etx(r, {"class", "device", "kobj"})
  \/ At(r, "init", << >>) /\ EtxWhole(r)
  \/ st[r] = "live" /\ EtxWhole(r)
  \/ At(r, "undo", <<"kobj", "class", "region">>) /\ Etx(r, {"class", "device", "kobj"})
       /\ failed_at[r] = "file"
  \/ At(r, "undo", <<"class", "region">>) /\ Etx(r, {"class", "device"})
       /\ failed_at[r] = "file"
  \/ At(r, "undo", <<"region">>) /\ held[r] \subseteq {"region", "cdev", "device"}
       /\ failed_at[r] = "file"
  \/ At(r, "undo", <<"region">>) /\ held[r] = {"region"}
  \/ At(r, "undo", << >>) /\ held[r] \subseteq {"cdev", "device"} /\ failed_at[r] = "file"
  \/ At(r, "undo", << >>) /\ held[r] = {}
  \/ At(r, "exit", <<"kobj", "device", "class", "cdev", "region">>) /\ EtxWhole(r)
  \/ At(r, "exit", <<"device", "class", "cdev", "region">>) /\ Etx(r, {"class", "device"})
  \/ At(r, "exit", <<"class", "cdev", "region">>) /\ held[r] = {"region", "cdev", "class"}
  \/ At(r, "exit", <<"cdev", "region">>) /\ held[r] = {"region", "cdev"}
  \/ At(r, "exit", <<"region">>) /\ held[r] = {"region"}
  \/ At(r, "exit", << >>) /\ held[r] = {}
  \/ st[r] = "oops" /\ Etx(r, {"class", "device"})

\* Etx_driver_init and etx_driver_exit of 18.
IoctlAt(r) ==
  \/ st[r] = "out" /\ held[r] = {}
  \/ At(r, "init", <<"region", "cdev", "class", "device">>) /\ held[r] = {}
  \/ At(r, "init", <<"cdev", "class", "device">>) /\ held[r] = {"region"}
  \/ At(r, "init", <<"class", "device">>) /\ held[r] = {"region", "cdev"}
  \/ At(r, "init", <<"device">>) /\ Etx(r, {"class"})
  \/ At(r, "init", << >>) /\ Etx(r, {"class", "device"})
  \/ st[r] = "live" /\ Etx(r, {"class", "device"})
  \/ At(r, "undo", <<"region">>) /\ held[r] = {"region"}
  \/ At(r, "undo", << >>) /\ held[r] = {}
  \/ At(r, "exit", <<"device", "class", "cdev", "region">>) /\ Etx(r, {"class", "device"})
  \/ At(r, "exit", <<"class", "cdev", "region">>) /\ held[r] = {"region", "cdev", "class"}
  \/ At(r, "exit", <<"cdev", "region">>) /\ held[r] = {"region", "cdev"}
  \/ At(r, "exit", <<"region">>) /\ held[r] = {"region"}
  \/ At(r, "exit", << >>) /\ held[r] = {}
  \/ st[r] = "oops" /\ held[r] = {"region", "cdev"}

\* The probe and remove functions of 15.
I2cAt(r) ==
  \/ st[r] = "out" /\ Rest(r, {})
  \/ At(r, "init", <<"check", "mem", "region", "class", "cdev", "device">>) /\ Rest(r, {})
  \/ At(r, "init", <<"mem", "region", "class", "cdev", "device">>) /\ Rest(r, {})
  \/ At(r, "init", <<"region", "class", "cdev", "device">>) /\ Rest(r, {"mem"})
  \/ At(r, "init", <<"class", "cdev", "device">>) /\ Rest(r, {"mem", "region"})
  \/ At(r, "init", <<"cdev", "device">>) /\ held[r] = {"mem", "region", "class"}
  \/ At(r, "init", <<"device">>) /\ held[r] = {"mem", "region", "class", "cdev"}
  \/ At(r, "init", << >>) /\ held[r] = {"mem", "region", "class", "cdev", "device"}
  \/ st[r] \in {"counting", "live"} /\ held[r] = {"mem", "region", "class", "cdev", "device"}
  \/ At(r, "undo", <<"cdev", "class", "region", "mem">>)
       /\ held[r] = {"mem", "region", "class", "cdev"}
  \/ At(r, "undo", <<"class", "region", "mem">>) /\ held[r] = {"mem", "region", "class"}
  \/ At(r, "undo", <<"region", "mem">>) /\ Rest(r, {"mem", "region"})
  \/ At(r, "undo", <<"mem">>) /\ Rest(r, {"mem"})
  \/ At(r, "undo", << >>) /\ Rest(r, {})
  \/ At(r, "exit", <<"drvdata", "device", "class", "cdev", "region">>)
       /\ held[r] = {"mem", "region", "class", "cdev", "device"}
  \/ st[r] = "oops" /\ held[r] = {"mem", "region", "class", "cdev", "device"}

\* The probe and remove functions of the W25Q32 driver.
W25At(r) ==
  \/ st[r] = "out" /\ Rest(r, {})
  \/ At(r, "init", <<"mem", "setup", "region", "class", "cdev", "device">>) /\ Rest(r, {})
  \/ At(r, "init", <<"setup", "region", "class", "cdev", "device">>) /\ Rest(r, {"mem"})
  \/ At(r, "init", <<"region", "class", "cdev", "device">>) /\ Rest(r, {"mem"})
  \/ At(r, "init", <<"class", "cdev", "device">>) /\ Rest(r, {"mem", "region"})
  \/ At(r, "init", <<"cdev", "device">>) /\ held[r] = {"mem", "region", "class"}
  \/ At(r, "init", <<"device">>) /\ held[r] = {"mem", "region", "class", "cdev"}
  \/ At(r, "init", << >>) /\ held[r] = {"mem", "region", "class", "cdev", "device"}
  \/ st[r] \in {"counting", "live"} /\ held[r] = {"mem", "region", "class", "cdev", "device"}
  \/ At(r, "undo", <<"cdev", "class", "region", "mem">>)
       /\ held[r] = {"mem", "region", "class", "cdev"}
  \/ At(r, "undo", <<"class", "region", "mem">>) /\ held[r] = {"mem", "region", "class"}
  \/ At(r, "undo", <<"region", "mem">>) /\ Rest(r, {"mem", "region"})
  \/ At(r, "undo", <<"mem">>) /\ Rest(r, {"mem"})
  \/ At(r, "undo", << >>) /\ Rest(r, {})
  \/ At(r, "exit", <<"drvdata", "device", "class", "cdev", "region">>)
       /\ held[r] = {"mem", "region", "class", "cdev", "device"}
  \/ st[r] = "oops" /\ held[r] = {"mem", "region", "class", "cdev", "device"}

\* The probe function of the DS1302 driver.
ClockAt(r) ==
  \/ st[r] = "out" /\ held[r] = {}
  \/ At(r, "init", <<"mem", "setup", "map", "regmap_read", "set_time", "rtc">>)
       /\ held[r] = {}
  \/ At(r, "init", <<"setup", "map", "regmap_read", "set_time", "rtc">>)
       /\ held[r] = {"mem"}
  \/ At(r, "init", <<"map", "regmap_read", "set_time", "rtc">>) /\ held[r] = {"mem"}
  \/ At(r, "init", <<"regmap_read", "set_time", "rtc">>) /\ held[r] = {"mem", "map"}
  \/ At(r, "init", <<"set_time", "rtc">>) /\ held[r] = {"mem", "map"}
  \/ At(r, "undo", <<"mem">>) /\ held[r] = {"mem"}
  \/ At(r, "undo", << >>) /\ held[r] \subseteq {"mem", "map"}
  \/ st[r] = "oops" /\ held[r] = {"mem", "map"}

LocalInv(r) ==
  /\ DriverOf[r] = "psd" => PsdAt(r)
  /\ DriverOf[r] = "poll" => PollAt(r)
  /\ DriverOf[r] = "ioctl" => IoctlAt(r)
  /\ DriverOf[r] = "i2c_gen" => I2cAt(r)
  /\ DriverOf[r] = "w25q32" => W25At(r)
  /\ DriverOf[r] = "ds1302" => ClockAt(r)

\* Who holds a class has registered its name, and the driver's pointer points to
\* it unless another device's probe has overwritten it.
ClassAt(r) ==
  /\ "class" \in held[r] => /\ class_owner[Name(r)] = r
                            /\ Ptr(r) = r \/ (Ptr(r) = "err" /\ Twin(r))
  /\ DriverOf[r] \in {"psd", "poll", "ioctl"} => ~Twin(r)
  /\ r # "err"

\* The inductive invariant.
RegInv ==
  /\ Types
  /\ \A r \in Registrants : LocalInv(r)
  /\ \A r \in Registrants : ClassAt(r)

-----------------------------------------------------------------------------
(* What a step of r does to r itself.                                      *)

Starts(r, init) ==
  /\ st[r] = "out"
  /\ st'[r] = "init" /\ todo'[r] = init /\ held'[r] = held[r] \cap {"class"}

Acquires(r) ==
  LET step == Head(todo[r]) IN
  /\ st[r] = "init" /\ todo[r] # << >> /\ ~InitFaults(r, step)
  /\ step = "device" => Ptr(r) # "err"
  /\ step = "class" => class_owner[Name(r)] = None
  /\ st'[r] = "init" /\ todo'[r] = Tail(todo[r])
  /\ step \in Resources => held'[r] = held[r] \cup {step}
  /\ step \notin Resources => held'[r] = held[r]
  /\ step # "class" => Ptr(r)' = Ptr(r)

Fails(r, drv) ==
  LET step == Head(todo[r]) IN
  /\ st[r] = "init" /\ todo[r] # << >> /\ ~InitFaults(r, step)
  /\ held'[r] = held[r]
  /\ \/ /\ step \in drv.noticed /\ st'[r] = "undo" /\ todo'[r] = drv.undo[step]
        /\ failed_at'[r] = step
     \/ step \notin drv.noticed /\ st'[r] = "init" /\ todo'[r] = Tail(todo[r])
  /\ Ptr(r)' = IF step = "class" THEN "err" ELSE Ptr(r)

Enters(r) ==
  /\ held'[r] = held[r] /\ Ptr(r)' = Ptr(r)
  /\ \/ /\ st[r] = "init" /\ todo[r] = << >>
        /\ DriverOf[r] \in BusDrivers => st'[r] = "counting"
        /\ DriverOf[r] \notin BusDrivers => st'[r] = "live"
     \/ st[r] = "counting" /\ st'[r] = "live"

Leaves(r, exit) ==
  /\ st[r] = "live" /\ Ptr(r)' = Ptr(r)
  /\ st'[r] = "exit" /\ todo'[r] = exit /\ held'[r] = held[r]

Oopses(r) ==
  /\ todo[r] # << >> /\ st'[r] = "oops" /\ held'[r] = held[r] /\ Ptr(r)' = Ptr(r)
  /\ \/ st[r] = "init" /\ InitFaults(r, Head(todo[r]))
     \/ st[r] \in {"undo", "exit"} /\ Faults(r, Head(todo[r]))

Releases(r) ==
  LET step == Head(todo[r]) IN
  /\ st[r] \in {"undo", "exit"} /\ todo[r] # << >> /\ ~Faults(r, step)
  /\ st'[r] = st[r] /\ todo'[r] = Tail(todo[r]) /\ Ptr(r)' = Ptr(r)
  /\ failed_at'[r] = failed_at[r]
  /\ step = "kobj" => held'[r] = held[r] \ {"kobj", "file"}
  /\ step = "class" => held'[r] = IF Ptr(r) = r THEN held[r] \ {"class"} ELSE held[r]
  /\ step \notin {"kobj", "class"} => held'[r] = held[r] \ {step}

Ends(r) ==
  /\ st[r] \in {"undo", "exit"} /\ todo[r] = << >>
  /\ st'[r] = "out" /\ held'[r] = held[r] \ {"mem", "map"} /\ failed_at'[r] = failed_at[r]

LocalStep(r) ==
  /\ Twin(r)' = Twin(r)
  /\ \/ Starts(r, InitOf[DriverOf[r]].init) \/ Acquires(r) \/ Fails(r, InitOf[DriverOf[r]])
     \/ Enters(r) \/ Leaves(r, ExitOf[DriverOf[r]]) \/ Oopses(r) \/ Releases(r) \/ Ends(r)

StepOf(r) ==
  \/ start_init(r) \/ acquire(r) \/ fail(r) \/ load_count(r) \/ init_done(r)
  \/ start_exit(r) \/ oops(r) \/ release(r) \/ exit_done(r)

(***************************************************************************)
(* The drivers of a team are drivers.                                      *)
(***************************************************************************)
LEMMA DriverType == ASSUME Types PROVE DriverOf \in [Registrants -> Drivers]
BY RegAssumption DEF Types

(***************************************************************************)
(* A step of r has one of the effects above on r.                          *)
(***************************************************************************)
LEMMA StepLocal ==
  ASSUME Types, NEW r \in Registrants, StepOf(r)
  PROVE  LocalStep(r)
<1> DEFINE Effect ==
      \/ Starts(r, InitOf[DriverOf[r]].init) \/ Acquires(r) \/ Fails(r, InitOf[DriverOf[r]])
      \/ Enters(r) \/ Leaves(r, ExitOf[DriverOf[r]]) \/ Oopses(r) \/ Releases(r) \/ Ends(r)
<1> USE DriverType DEF Types
<1>0. DriverOf' = DriverOf
  BY DEF StepOf, start_init, acquire, fail, load_count, init_done, start_exit, oops, release, exit_done
<1> SUFFICES Effect
  BY <1>0 DEF LocalStep, Twin
<1>1. CASE start_init(r)
  BY <1>1 DEF start_init, Starts
<1>2. CASE acquire(r)
  <2>1. \A x : x \in Resources => held[r] \cup ({x} \cap Resources) = held[r] \cup {x}
    OBVIOUS
  <2>2. \A x : x \notin Resources => held[r] \cup ({x} \cap Resources) = held[r]
    OBVIOUS
  <2>3. held'[r] = held[r] \cup ({Head(todo[r])} \cap Resources)
    BY <1>2 DEF acquire
  <2> QED
    BY <1>0, <1>2, <2>1, <2>2, <2>3 DEF acquire, Acquires, Ptr
<1>3. CASE fail(r)
  BY <1>0, <1>3 DEF fail, Fails, Ptr
<1>4. CASE init_done(r)
  BY <1>0, <1>4 DEF init_done, Enters, Ptr
<1>9. CASE load_count(r)
  BY <1>0, <1>9 DEF load_count, Enters, Ptr
<1>5. CASE start_exit(r)
  BY <1>0, <1>5 DEF start_exit, Leaves, Ptr
<1>6. CASE oops(r)
  BY <1>0, <1>6 DEF oops, Oopses, Ptr
<1>7. CASE release(r)
  <2>1. LET step == Head(todo[r]) IN
        /\ step = "kobj" => held'[r] = held[r] \ {"kobj", "file"}
        /\ step = "class" => held'[r] = IF Ptr(r) = r THEN held[r] \ {"class"} ELSE held[r]
        /\ step \notin {"kobj", "class"} => held'[r] = held[r] \ {step}
    BY <1>7 DEF release
  <2>2. Ptr(r)' = Ptr(r)
    BY <1>0, <1>7 DEF release, Ptr
  <2> QED
    BY <1>7, <2>1, <2>2 DEF release, Releases
<1>8. CASE exit_done(r)
  BY <1>8 DEF exit_done, Ends
<1> QED
  BY <1>1, <1>2, <1>3, <1>4, <1>5, <1>6, <1>7, <1>8, <1>9 DEF StepOf

-----------------------------------------------------------------------------
(* Each driver stays among the places of its list.                         *)

(***************************************************************************)
(* Psd_driver_init and psd_driver_exit (11).                               *)
(***************************************************************************)
LEMMA PsdStep ==
  ASSUME NEW r \in Registrants, DriverOf[r] = "psd", PsdAt(r), LocalStep(r), ClassAt(r)
  PROVE  PsdAt(r)'
<1>1. InitOf[DriverOf[r]] = psd_init /\ ExitOf[DriverOf[r]] = psd_exit
  BY DEF InitOf, ExitOf
<1>2. CASE Starts(r, psd_init.init)
  BY <1>2 DEF PsdAt, At, Starts, psd_init
<1>3. CASE Acquires(r)
  <2>1. CASE At(r, "init", <<"region", "class", "cdev", "device">>)
    BY <1>3, <2>1 DEF PsdAt, At, Acquires, Resources, InitFaults
  <2>2. CASE At(r, "init", <<"class", "cdev", "device">>)
    BY <1>3, <2>2 DEF PsdAt, At, Acquires, Resources, InitFaults
  <2>3. CASE At(r, "init", <<"cdev", "device">>)
    BY <1>3, <2>3 DEF PsdAt, At, Acquires, Resources, InitFaults
  <2>4. CASE At(r, "init", <<"device">>)
    BY <1>3, <2>4 DEF PsdAt, At, Acquires, Resources, InitFaults
  <2> QED
    BY <1>3, <2>1, <2>2, <2>3, <2>4 DEF PsdAt, At, Acquires
<1>4. CASE Fails(r, psd_init)
  <2>1. CASE At(r, "init", <<"region", "class", "cdev", "device">>)
    BY <1>4, <2>1 DEF PsdAt, At, Fails, psd_init, InitFaults
  <2>2. CASE At(r, "init", <<"class", "cdev", "device">>)
    BY <1>4, <2>2 DEF PsdAt, At, Fails, psd_init, InitFaults
  <2>3. CASE At(r, "init", <<"cdev", "device">>)
    BY <1>4, <2>3 DEF PsdAt, At, Fails, psd_init, InitFaults
  <2>4. CASE At(r, "init", <<"device">>)
    BY <1>4, <2>4 DEF PsdAt, At, Fails, psd_init, InitFaults
  <2> QED
    BY <1>4, <2>1, <2>2, <2>3, <2>4 DEF PsdAt, At, Fails
<1>5. CASE Enters(r)
  <2>1. DriverOf[r] \notin BusDrivers
    BY DEF BusDrivers
  <2>2. CASE st[r] = "init"
    <3>1. /\ todo[r] = << >> /\ st'[r] = "live"
          /\ held'[r] = held[r] /\ Ptr(r)' = Ptr(r)
      BY <1>5, <2>1, <2>2 DEF Enters
    <3> QED
      BY <2>2, <3>1 DEF PsdAt, At
  <2>3. CASE st[r] = "counting"
    BY <1>5, <2>3 DEF PsdAt, At, Enters
  <2> QED
    BY <1>5, <2>2, <2>3 DEF Enters
<1>6. CASE Leaves(r, psd_exit)
  BY <1>6 DEF PsdAt, At, Leaves, psd_exit
<1>7. CASE Oopses(r)
  <2>1. CASE At(r, "init", <<"region", "class", "cdev", "device">>)
    BY <1>7, <2>1 DEF PsdAt, At, Oopses, InitFaults, Faults, ClassAt
  <2>2. CASE At(r, "init", <<"class", "cdev", "device">>)
    BY <1>7, <2>2 DEF PsdAt, At, Oopses, InitFaults, Faults, ClassAt
  <2>3. CASE At(r, "init", <<"cdev", "device">>)
    BY <1>7, <2>3 DEF PsdAt, At, Oopses, InitFaults, Faults, ClassAt
  <2>4. CASE At(r, "init", <<"device">>)
    BY <1>7, <2>4 DEF PsdAt, At, Oopses, InitFaults, Faults, ClassAt
  <2>5. CASE At(r, "undo", <<"cdev", "class", "region">>)
    BY <1>7, <2>5 DEF PsdAt, At, Oopses, InitFaults, Faults, ClassAt
  <2>6. CASE At(r, "undo", <<"class", "region">>)
    BY <1>7, <2>6 DEF PsdAt, At, Oopses, InitFaults, Faults, ClassAt
  <2>7. CASE At(r, "undo", <<"region">>)
    BY <1>7, <2>7 DEF PsdAt, At, Oopses, InitFaults, Faults, ClassAt
  <2>8. CASE At(r, "exit", <<"device", "class", "cdev", "region">>)
    BY <1>7, <2>8 DEF PsdAt, At, Oopses, InitFaults, Faults, ClassAt
  <2>9. CASE At(r, "exit", <<"class", "cdev", "region">>)
    BY <1>7, <2>9 DEF PsdAt, At, Oopses, InitFaults, Faults, ClassAt
  <2>10. CASE At(r, "exit", <<"cdev", "region">>)
    BY <1>7, <2>10 DEF PsdAt, At, Oopses, InitFaults, Faults, ClassAt
  <2>11. CASE At(r, "exit", <<"region">>)
    BY <1>7, <2>11 DEF PsdAt, At, Oopses, InitFaults, Faults, ClassAt
  <2> QED
    BY <1>7, <2>1, <2>2, <2>3, <2>4, <2>5, <2>6, <2>7, <2>8, <2>9, <2>10, <2>11
    DEF PsdAt, At, Oopses
<1>8. CASE Releases(r)
  <2>1. CASE At(r, "undo", <<"cdev", "class", "region">>)
    BY <1>8, <2>1 DEF PsdAt, At, Releases, Faults, ClassAt
  <2>2. CASE At(r, "undo", <<"class", "region">>)
    BY <1>8, <2>2 DEF PsdAt, At, Releases, Faults, ClassAt
  <2>3. CASE At(r, "undo", <<"region">>)
    BY <1>8, <2>3 DEF PsdAt, At, Releases, Faults, ClassAt
  <2>4. CASE At(r, "exit", <<"device", "class", "cdev", "region">>)
    BY <1>8, <2>4 DEF PsdAt, At, Releases, Faults, ClassAt
  <2>5. CASE At(r, "exit", <<"class", "cdev", "region">>)
    BY <1>8, <2>5 DEF PsdAt, At, Releases, Faults, ClassAt
  <2>6. CASE At(r, "exit", <<"cdev", "region">>)
    BY <1>8, <2>6 DEF PsdAt, At, Releases, Faults, ClassAt
  <2>7. CASE At(r, "exit", <<"region">>)
    BY <1>8, <2>7 DEF PsdAt, At, Releases, Faults, ClassAt
  <2> QED
    BY <1>8, <2>1, <2>2, <2>3, <2>4, <2>5, <2>6, <2>7 DEF PsdAt, At, Releases
<1>9. CASE Ends(r)
  BY <1>9 DEF PsdAt, At, Ends
<1> QED
  BY <1>1, <1>2, <1>3, <1>4, <1>5, <1>6, <1>7, <1>8, <1>9 DEF LocalStep

(***************************************************************************)
(* Etx_driver_init and etx_driver_exit of 17.                              *)
(***************************************************************************)
LEMMA PollStep ==
  ASSUME NEW r \in Registrants, DriverOf[r] = "poll", PollAt(r), LocalStep(r), ClassAt(r)
  PROVE  PollAt(r)'
<1>1. InitOf[DriverOf[r]] = poll_init /\ ExitOf[DriverOf[r]] = poll_exit
  BY DEF InitOf, ExitOf
<1>2. CASE Starts(r, poll_init.init)
  BY <1>2 DEF PollAt, At, Etx, EtxWhole, Starts, poll_init
<1>3. CASE Acquires(r)
  <2>1. CASE At(r, "init", <<"region", "cdev", "class", "device", "kobj", "file">>)
    BY <1>3, <2>1 DEF PollAt, At, Etx, EtxWhole, Acquires, Resources, InitFaults
  <2>2. CASE At(r, "init", <<"cdev", "class", "device", "kobj", "file">>)
    BY <1>3, <2>2 DEF PollAt, At, Etx, EtxWhole, Acquires, Resources, InitFaults
  <2>3. CASE At(r, "init", <<"class", "device", "kobj", "file">>)
    BY <1>3, <2>3 DEF PollAt, At, Etx, EtxWhole, Acquires, Resources, InitFaults
  <2>4. CASE At(r, "init", <<"device", "kobj", "file">>)
    BY <1>3, <2>4 DEF PollAt, At, Etx, EtxWhole, Acquires, Resources, InitFaults
  <2>5. CASE At(r, "init", <<"kobj", "file">>)
    BY <1>3, <2>5 DEF PollAt, At, Etx, EtxWhole, Acquires, Resources, InitFaults
  <2>6. CASE At(r, "init", <<"file">>)
    BY <1>3, <2>6 DEF PollAt, At, Etx, EtxWhole, Acquires, Resources, InitFaults
  <2> QED
    BY <1>3, <2>1, <2>2, <2>3, <2>4, <2>5, <2>6 DEF PollAt, At, Acquires
<1>4. CASE Fails(r, poll_init)
  <2>1. CASE At(r, "init", <<"region", "cdev", "class", "device", "kobj", "file">>)
    BY <1>4, <2>1 DEF PollAt, At, Etx, EtxWhole, Fails, poll_init, InitFaults
  <2>2. CASE At(r, "init", <<"cdev", "class", "device", "kobj", "file">>)
    BY <1>4, <2>2 DEF PollAt, At, Etx, EtxWhole, Fails, poll_init, InitFaults
  <2>3. CASE At(r, "init", <<"class", "device", "kobj", "file">>)
    BY <1>4, <2>3 DEF PollAt, At, Etx, EtxWhole, Fails, poll_init, InitFaults
  <2>4. CASE At(r, "init", <<"device", "kobj", "file">>)
    BY <1>4, <2>4 DEF PollAt, At, Etx, EtxWhole, Fails, poll_init, InitFaults
  <2>5. CASE At(r, "init", <<"kobj", "file">>)
    BY <1>4, <2>5 DEF PollAt, At, Etx, EtxWhole, Fails, poll_init, InitFaults
  <2>6. CASE At(r, "init", <<"file">>)
    BY <1>4, <2>6 DEF PollAt, At, Etx, EtxWhole, Fails, poll_init, InitFaults
  <2> QED
    BY <1>4, <2>1, <2>2, <2>3, <2>4, <2>5, <2>6 DEF PollAt, At, Fails
<1>5. CASE Enters(r)
  <2>1. DriverOf[r] \notin BusDrivers
    BY DEF BusDrivers
  <2>2. CASE st[r] = "init"
    <3>1. /\ todo[r] = << >> /\ st'[r] = "live"
          /\ held'[r] = held[r] /\ Ptr(r)' = Ptr(r)
      BY <1>5, <2>1, <2>2 DEF Enters
    <3> QED
      BY <2>2, <3>1 DEF PollAt, At, Etx, EtxWhole
  <2>3. CASE st[r] = "counting"
    BY <1>5, <2>3 DEF PollAt, At, Etx, EtxWhole, Enters
  <2> QED
    BY <1>5, <2>2, <2>3 DEF Enters
<1>6. CASE Leaves(r, poll_exit)
  BY <1>6 DEF PollAt, At, Etx, EtxWhole, Leaves, poll_exit
<1>7. CASE Oopses(r)
  <2>1. CASE At(r, "init", <<"region", "cdev", "class", "device", "kobj", "file">>)
    BY <1>7, <2>1 DEF PollAt, At, Etx, EtxWhole, Oopses, InitFaults, Faults, ClassAt
  <2>2. CASE At(r, "init", <<"cdev", "class", "device", "kobj", "file">>)
    BY <1>7, <2>2 DEF PollAt, At, Etx, EtxWhole, Oopses, InitFaults, Faults, ClassAt
  <2>3. CASE At(r, "init", <<"class", "device", "kobj", "file">>)
    BY <1>7, <2>3 DEF PollAt, At, Etx, EtxWhole, Oopses, InitFaults, Faults, ClassAt
  <2>4. CASE At(r, "init", <<"device", "kobj", "file">>)
    BY <1>7, <2>4 DEF PollAt, At, Etx, EtxWhole, Oopses, InitFaults, Faults, ClassAt
  <2>5. CASE At(r, "init", <<"kobj", "file">>)
    BY <1>7, <2>5 DEF PollAt, At, Etx, EtxWhole, Oopses, InitFaults, Faults, ClassAt
  <2>6. CASE At(r, "init", <<"file">>)
    BY <1>7, <2>6 DEF PollAt, At, Etx, EtxWhole, Oopses, InitFaults, Faults, ClassAt
  <2>7. CASE At(r, "undo", <<"kobj", "class", "region">>)
    BY <1>7, <2>7 DEF PollAt, At, Etx, EtxWhole, Oopses, InitFaults, Faults, ClassAt
  <2>8. CASE At(r, "undo", <<"class", "region">>)
    BY <1>7, <2>8 DEF PollAt, At, Etx, EtxWhole, Oopses, InitFaults, Faults, ClassAt
  <2>9. CASE At(r, "undo", <<"region">>)
    BY <1>7, <2>9 DEF PollAt, At, Etx, EtxWhole, Oopses, InitFaults, Faults, ClassAt
  <2>10. CASE At(r, "exit", <<"kobj", "device", "class", "cdev", "region">>)
    BY <1>7, <2>10 DEF PollAt, At, Etx, EtxWhole, Oopses, InitFaults, Faults, ClassAt
  <2>11. CASE At(r, "exit", <<"device", "class", "cdev", "region">>)
    BY <1>7, <2>11 DEF PollAt, At, Etx, EtxWhole, Oopses, InitFaults, Faults, ClassAt
  <2>12. CASE At(r, "exit", <<"class", "cdev", "region">>)
    BY <1>7, <2>12 DEF PollAt, At, Etx, EtxWhole, Oopses, InitFaults, Faults, ClassAt
  <2>13. CASE At(r, "exit", <<"cdev", "region">>)
    BY <1>7, <2>13 DEF PollAt, At, Etx, EtxWhole, Oopses, InitFaults, Faults, ClassAt
  <2>14. CASE At(r, "exit", <<"region">>)
    BY <1>7, <2>14 DEF PollAt, At, Etx, EtxWhole, Oopses, InitFaults, Faults, ClassAt
  <2> QED
    BY <1>7, <2>1, <2>2, <2>3, <2>4, <2>5, <2>6, <2>7, <2>8, <2>9, <2>10, <2>11, <2>12, <2>13, <2>14
    DEF PollAt, At, Oopses
<1>8. CASE Releases(r)
  <2>1. CASE At(r, "undo", <<"kobj", "class", "region">>)
    BY <1>8, <2>1 DEF PollAt, At, Etx, EtxWhole, Releases, Faults, ClassAt
  <2>2. CASE At(r, "undo", <<"class", "region">>)
    BY <1>8, <2>2 DEF PollAt, At, Etx, EtxWhole, Releases, Faults, ClassAt
  <2>3. CASE At(r, "undo", <<"region">>)
    BY <1>8, <2>3 DEF PollAt, At, Etx, EtxWhole, Releases, Faults, ClassAt
  <2>4. CASE At(r, "exit", <<"kobj", "device", "class", "cdev", "region">>)
    BY <1>8, <2>4 DEF PollAt, At, Etx, EtxWhole, Releases, Faults, ClassAt
  <2>5. CASE At(r, "exit", <<"device", "class", "cdev", "region">>)
    BY <1>8, <2>5 DEF PollAt, At, Etx, EtxWhole, Releases, Faults, ClassAt
  <2>6. CASE At(r, "exit", <<"class", "cdev", "region">>)
    BY <1>8, <2>6 DEF PollAt, At, Etx, EtxWhole, Releases, Faults, ClassAt
  <2>7. CASE At(r, "exit", <<"cdev", "region">>)
    BY <1>8, <2>7 DEF PollAt, At, Etx, EtxWhole, Releases, Faults, ClassAt
  <2>8. CASE At(r, "exit", <<"region">>)
    BY <1>8, <2>8 DEF PollAt, At, Etx, EtxWhole, Releases, Faults, ClassAt
  <2> QED
    BY <1>8, <2>1, <2>2, <2>3, <2>4, <2>5, <2>6, <2>7, <2>8 DEF PollAt, At, Releases
<1>9. CASE Ends(r)
  BY <1>9 DEF PollAt, At, Etx, EtxWhole, Ends
<1> QED
  BY <1>1, <1>2, <1>3, <1>4, <1>5, <1>6, <1>7, <1>8, <1>9 DEF LocalStep

(***************************************************************************)
(* Etx_driver_init and etx_driver_exit of 18.                              *)
(***************************************************************************)
LEMMA IoctlStep ==
  ASSUME NEW r \in Registrants, DriverOf[r] = "ioctl", IoctlAt(r), LocalStep(r), ClassAt(r)
  PROVE  IoctlAt(r)'
<1>1. InitOf[DriverOf[r]] = ioctl_init /\ ExitOf[DriverOf[r]] = ioctl_exit
  BY DEF InitOf, ExitOf
<1>2. CASE Starts(r, ioctl_init.init)
  BY <1>2 DEF IoctlAt, At, Etx, Starts, ioctl_init
<1>3. CASE Acquires(r)
  <2>1. CASE At(r, "init", <<"region", "cdev", "class", "device">>)
    BY <1>3, <2>1 DEF IoctlAt, At, Etx, Acquires, Resources, InitFaults
  <2>2. CASE At(r, "init", <<"cdev", "class", "device">>)
    BY <1>3, <2>2 DEF IoctlAt, At, Etx, Acquires, Resources, InitFaults
  <2>3. CASE At(r, "init", <<"class", "device">>)
    BY <1>3, <2>3 DEF IoctlAt, At, Etx, Acquires, Resources, InitFaults
  <2>4. CASE At(r, "init", <<"device">>)
    BY <1>3, <2>4 DEF IoctlAt, At, Etx, Acquires, Resources, InitFaults
  <2> QED
    BY <1>3, <2>1, <2>2, <2>3, <2>4 DEF IoctlAt, At, Acquires
<1>4. CASE Fails(r, ioctl_init)
  <2>1. CASE At(r, "init", <<"region", "cdev", "class", "device">>)
    BY <1>4, <2>1 DEF IoctlAt, At, Etx, Fails, ioctl_init, InitFaults
  <2>2. CASE At(r, "init", <<"cdev", "class", "device">>)
    BY <1>4, <2>2 DEF IoctlAt, At, Etx, Fails, ioctl_init, InitFaults
  <2>3. CASE At(r, "init", <<"class", "device">>)
    BY <1>4, <2>3 DEF IoctlAt, At, Etx, Fails, ioctl_init, InitFaults
  <2>4. CASE At(r, "init", <<"device">>)
    BY <1>4, <2>4 DEF IoctlAt, At, Etx, Fails, ioctl_init, InitFaults
  <2> QED
    BY <1>4, <2>1, <2>2, <2>3, <2>4 DEF IoctlAt, At, Fails
<1>5. CASE Enters(r)
  <2>1. DriverOf[r] \notin BusDrivers
    BY DEF BusDrivers
  <2>2. CASE st[r] = "init"
    <3>1. /\ todo[r] = << >> /\ st'[r] = "live"
          /\ held'[r] = held[r] /\ Ptr(r)' = Ptr(r)
      BY <1>5, <2>1, <2>2 DEF Enters
    <3> QED
      BY <2>2, <3>1 DEF IoctlAt, At, Etx
  <2>3. CASE st[r] = "counting"
    BY <1>5, <2>3 DEF IoctlAt, At, Etx, Enters
  <2> QED
    BY <1>5, <2>2, <2>3 DEF Enters
<1>6. CASE Leaves(r, ioctl_exit)
  BY <1>6 DEF IoctlAt, At, Etx, Leaves, ioctl_exit
<1>7. CASE Oopses(r)
  <2>1. CASE At(r, "init", <<"region", "cdev", "class", "device">>)
    BY <1>7, <2>1 DEF IoctlAt, At, Etx, Oopses, InitFaults, Faults, ClassAt
  <2>2. CASE At(r, "init", <<"cdev", "class", "device">>)
    BY <1>7, <2>2 DEF IoctlAt, At, Etx, Oopses, InitFaults, Faults, ClassAt
  <2>3. CASE At(r, "init", <<"class", "device">>)
    BY <1>7, <2>3 DEF IoctlAt, At, Etx, Oopses, InitFaults, Faults, ClassAt
  <2>4. CASE At(r, "init", <<"device">>)
    BY <1>7, <2>4 DEF IoctlAt, At, Etx, Oopses, InitFaults, Faults, ClassAt
  <2>5. CASE At(r, "undo", <<"region">>)
    BY <1>7, <2>5 DEF IoctlAt, At, Etx, Oopses, InitFaults, Faults, ClassAt
  <2>6. CASE At(r, "exit", <<"device", "class", "cdev", "region">>)
    BY <1>7, <2>6 DEF IoctlAt, At, Etx, Oopses, InitFaults, Faults, ClassAt
  <2>7. CASE At(r, "exit", <<"class", "cdev", "region">>)
    BY <1>7, <2>7 DEF IoctlAt, At, Etx, Oopses, InitFaults, Faults, ClassAt
  <2>8. CASE At(r, "exit", <<"cdev", "region">>)
    BY <1>7, <2>8 DEF IoctlAt, At, Etx, Oopses, InitFaults, Faults, ClassAt
  <2>9. CASE At(r, "exit", <<"region">>)
    BY <1>7, <2>9 DEF IoctlAt, At, Etx, Oopses, InitFaults, Faults, ClassAt
  <2> QED
    BY <1>7, <2>1, <2>2, <2>3, <2>4, <2>5, <2>6, <2>7, <2>8, <2>9 DEF IoctlAt, At, Oopses
<1>8. CASE Releases(r)
  <2>1. CASE At(r, "undo", <<"region">>)
    BY <1>8, <2>1 DEF IoctlAt, At, Etx, Releases, Faults, ClassAt
  <2>2. CASE At(r, "exit", <<"device", "class", "cdev", "region">>)
    BY <1>8, <2>2 DEF IoctlAt, At, Etx, Releases, Faults, ClassAt
  <2>3. CASE At(r, "exit", <<"class", "cdev", "region">>)
    BY <1>8, <2>3 DEF IoctlAt, At, Etx, Releases, Faults, ClassAt
  <2>4. CASE At(r, "exit", <<"cdev", "region">>)
    BY <1>8, <2>4 DEF IoctlAt, At, Etx, Releases, Faults, ClassAt
  <2>5. CASE At(r, "exit", <<"region">>)
    BY <1>8, <2>5 DEF IoctlAt, At, Etx, Releases, Faults, ClassAt
  <2> QED
    BY <1>8, <2>1, <2>2, <2>3, <2>4, <2>5 DEF IoctlAt, At, Releases
<1>9. CASE Ends(r)
  BY <1>9 DEF IoctlAt, At, Etx, Ends
<1> QED
  BY <1>1, <1>2, <1>3, <1>4, <1>5, <1>6, <1>7, <1>8, <1>9 DEF LocalStep

(***************************************************************************)
(* The probe and remove functions of 15.                                   *)
(***************************************************************************)
LEMMA I2cStep ==
  ASSUME NEW r \in Registrants, DriverOf[r] = "i2c_gen", I2cAt(r), LocalStep(r), ClassAt(r)
  PROVE  I2cAt(r)'
<1>1. InitOf[DriverOf[r]] = i2c_gen_probe /\ ExitOf[DriverOf[r]] = i2c_gen_remove
  BY DEF InitOf, ExitOf
<1>2. Twin(r)' = Twin(r)
  BY DEF LocalStep
<1>3. CASE Starts(r, i2c_gen_probe.init)
  BY <1>3, <1>2 DEF I2cAt, At, Rest, Starts, i2c_gen_probe
<1>4. CASE Acquires(r)
  <2>1. CASE At(r, "init", <<"check", "mem", "region", "class", "cdev", "device">>)
    BY <1>4, <2>1, <1>2 DEF I2cAt, At, Rest, Acquires, Resources, InitFaults
  <2>2. CASE At(r, "init", <<"mem", "region", "class", "cdev", "device">>)
    BY <1>4, <2>2, <1>2 DEF I2cAt, At, Rest, Acquires, Resources, InitFaults
  <2>3. CASE At(r, "init", <<"region", "class", "cdev", "device">>)
    BY <1>4, <2>3, <1>2 DEF I2cAt, At, Rest, Acquires, Resources, InitFaults
  <2>4. CASE At(r, "init", <<"class", "cdev", "device">>)
    BY <1>4, <2>4, <1>2 DEF I2cAt, At, Rest, Acquires, Resources, InitFaults
  <2>5. CASE At(r, "init", <<"cdev", "device">>)
    BY <1>4, <2>5, <1>2 DEF I2cAt, At, Rest, Acquires, Resources, InitFaults
  <2>6. CASE At(r, "init", <<"device">>)
    BY <1>4, <2>6, <1>2 DEF I2cAt, At, Rest, Acquires, Resources, InitFaults
  <2> QED
    BY <1>4, <2>1, <2>2, <2>3, <2>4, <2>5, <2>6 DEF I2cAt, At, Acquires
<1>5. CASE Fails(r, i2c_gen_probe)
  <2>1. CASE At(r, "init", <<"check", "mem", "region", "class", "cdev", "device">>)
    BY <1>5, <2>1, <1>2 DEF I2cAt, At, Rest, Fails, i2c_gen_probe, InitFaults
  <2>2. CASE At(r, "init", <<"mem", "region", "class", "cdev", "device">>)
    BY <1>5, <2>2, <1>2 DEF I2cAt, At, Rest, Fails, i2c_gen_probe, InitFaults
  <2>3. CASE At(r, "init", <<"region", "class", "cdev", "device">>)
    BY <1>5, <2>3, <1>2 DEF I2cAt, At, Rest, Fails, i2c_gen_probe, InitFaults
  <2>4. CASE At(r, "init", <<"class", "cdev", "device">>)
    BY <1>5, <2>4, <1>2 DEF I2cAt, At, Rest, Fails, i2c_gen_probe, InitFaults
  <2>5. CASE At(r, "init", <<"cdev", "device">>)
    BY <1>5, <2>5, <1>2 DEF I2cAt, At, Rest, Fails, i2c_gen_probe, InitFaults
  <2>6. CASE At(r, "init", <<"device">>)
    BY <1>5, <2>6, <1>2 DEF I2cAt, At, Rest, Fails, i2c_gen_probe, InitFaults
  <2> QED
    BY <1>5, <2>1, <2>2, <2>3, <2>4, <2>5, <2>6 DEF I2cAt, At, Fails
<1>6. CASE Enters(r)
  <2>1. DriverOf[r] \in BusDrivers
    BY DEF BusDrivers
  <2>2. CASE st[r] = "init"
    <3>1. /\ todo[r] = << >> /\ st'[r] = "counting"
          /\ held'[r] = held[r] /\ Ptr(r)' = Ptr(r)
      BY <1>6, <2>1, <2>2 DEF Enters
    <3> QED
      BY <2>2, <3>1 DEF I2cAt, At, Rest
  <2>3. CASE st[r] = "counting"
    BY <1>6, <2>3 DEF I2cAt, At, Rest, Enters
  <2> QED
    BY <1>6, <2>2, <2>3 DEF Enters
<1>7. CASE Leaves(r, i2c_gen_remove)
  BY <1>7 DEF I2cAt, At, Rest, Leaves, i2c_gen_remove
<1>8. CASE Oopses(r)
  <2>1. CASE At(r, "init", <<"check", "mem", "region", "class", "cdev", "device">>)
    BY <1>8, <2>1 DEF I2cAt, At, Rest, Oopses, InitFaults, Faults, ClassAt
  <2>2. CASE At(r, "init", <<"mem", "region", "class", "cdev", "device">>)
    BY <1>8, <2>2 DEF I2cAt, At, Rest, Oopses, InitFaults, Faults, ClassAt
  <2>3. CASE At(r, "init", <<"region", "class", "cdev", "device">>)
    BY <1>8, <2>3 DEF I2cAt, At, Rest, Oopses, InitFaults, Faults, ClassAt
  <2>4. CASE At(r, "init", <<"class", "cdev", "device">>)
    BY <1>8, <2>4 DEF I2cAt, At, Rest, Oopses, InitFaults, Faults, ClassAt
  <2>5. CASE At(r, "init", <<"cdev", "device">>)
    BY <1>8, <2>5 DEF I2cAt, At, Rest, Oopses, InitFaults, Faults, ClassAt
  <2>6. CASE At(r, "init", <<"device">>)
    BY <1>8, <2>6 DEF I2cAt, At, Rest, Oopses, InitFaults, Faults, ClassAt
  <2>7. CASE At(r, "undo", <<"cdev", "class", "region", "mem">>)
    BY <1>8, <2>7 DEF I2cAt, At, Rest, Oopses, InitFaults, Faults, ClassAt
  <2>8. CASE At(r, "undo", <<"class", "region", "mem">>)
    BY <1>8, <2>8 DEF I2cAt, At, Rest, Oopses, InitFaults, Faults, ClassAt
  <2>9. CASE At(r, "undo", <<"region", "mem">>)
    BY <1>8, <2>9 DEF I2cAt, At, Rest, Oopses, InitFaults, Faults, ClassAt
  <2>10. CASE At(r, "undo", <<"mem">>)
    BY <1>8, <2>10 DEF I2cAt, At, Rest, Oopses, InitFaults, Faults, ClassAt
  <2>11. CASE At(r, "exit", <<"drvdata", "device", "class", "cdev", "region">>)
    BY <1>8, <2>11 DEF I2cAt, At, Rest, Oopses, InitFaults, Faults, ClassAt
  <2> QED
    BY <1>8, <2>1, <2>2, <2>3, <2>4, <2>5, <2>6, <2>7, <2>8, <2>9, <2>10, <2>11
    DEF I2cAt, At, Oopses
<1>9. CASE Releases(r)
  <2>1. CASE At(r, "undo", <<"cdev", "class", "region", "mem">>)
    BY <1>9, <2>1, <1>2 DEF I2cAt, At, Rest, Releases, Faults, ClassAt
  <2>2. CASE At(r, "undo", <<"class", "region", "mem">>)
    BY <1>9, <2>2, <1>2 DEF I2cAt, At, Rest, Releases, Faults, ClassAt
  <2>3. CASE At(r, "undo", <<"region", "mem">>)
    BY <1>9, <2>3, <1>2 DEF I2cAt, At, Rest, Releases, Faults, ClassAt
  <2>4. CASE At(r, "undo", <<"mem">>)
    BY <1>9, <2>4, <1>2 DEF I2cAt, At, Rest, Releases, Faults, ClassAt
  <2>5. CASE At(r, "exit", <<"drvdata", "device", "class", "cdev", "region">>)
    BY <1>9, <2>5, <1>2 DEF I2cAt, At, Rest, Releases, Faults, ClassAt
  <2> QED
    BY <1>9, <2>1, <2>2, <2>3, <2>4, <2>5 DEF I2cAt, At, Releases
<1>10. CASE Ends(r)
  BY <1>10, <1>2 DEF I2cAt, At, Rest, Ends
<1> QED
  BY <1>1, <1>3, <1>4, <1>5, <1>6, <1>7, <1>8, <1>9, <1>10 DEF LocalStep

(***************************************************************************)
(* The probe and remove functions of the W25Q32 driver.                    *)
(***************************************************************************)
LEMMA W25Step ==
  ASSUME NEW r \in Registrants, DriverOf[r] = "w25q32", W25At(r), LocalStep(r), ClassAt(r)
  PROVE  W25At(r)'
<1>1. InitOf[DriverOf[r]] = w25q32_probe /\ ExitOf[DriverOf[r]] = w25q32_remove
  BY DEF InitOf, ExitOf
<1>2. Twin(r)' = Twin(r)
  BY DEF LocalStep
<1>3. CASE Starts(r, w25q32_probe.init)
  BY <1>3, <1>2 DEF W25At, At, Rest, Starts, w25q32_probe
<1>4. CASE Acquires(r)
  <2>1. CASE At(r, "init", <<"mem", "setup", "region", "class", "cdev", "device">>)
    BY <1>4, <2>1, <1>2 DEF W25At, At, Rest, Acquires, Resources, InitFaults
  <2>2. CASE At(r, "init", <<"setup", "region", "class", "cdev", "device">>)
    BY <1>4, <2>2, <1>2 DEF W25At, At, Rest, Acquires, Resources, InitFaults
  <2>3. CASE At(r, "init", <<"region", "class", "cdev", "device">>)
    BY <1>4, <2>3, <1>2 DEF W25At, At, Rest, Acquires, Resources, InitFaults
  <2>4. CASE At(r, "init", <<"class", "cdev", "device">>)
    BY <1>4, <2>4, <1>2 DEF W25At, At, Rest, Acquires, Resources, InitFaults
  <2>5. CASE At(r, "init", <<"cdev", "device">>)
    BY <1>4, <2>5, <1>2 DEF W25At, At, Rest, Acquires, Resources, InitFaults
  <2>6. CASE At(r, "init", <<"device">>)
    BY <1>4, <2>6, <1>2 DEF W25At, At, Rest, Acquires, Resources, InitFaults
  <2> QED
    BY <1>4, <2>1, <2>2, <2>3, <2>4, <2>5, <2>6 DEF W25At, At, Acquires
<1>5. CASE Fails(r, w25q32_probe)
  <2>1. CASE At(r, "init", <<"mem", "setup", "region", "class", "cdev", "device">>)
    BY <1>5, <2>1, <1>2 DEF W25At, At, Rest, Fails, w25q32_probe, InitFaults
  <2>2. CASE At(r, "init", <<"setup", "region", "class", "cdev", "device">>)
    BY <1>5, <2>2, <1>2 DEF W25At, At, Rest, Fails, w25q32_probe, InitFaults
  <2>3. CASE At(r, "init", <<"region", "class", "cdev", "device">>)
    BY <1>5, <2>3, <1>2 DEF W25At, At, Rest, Fails, w25q32_probe, InitFaults
  <2>4. CASE At(r, "init", <<"class", "cdev", "device">>)
    BY <1>5, <2>4, <1>2 DEF W25At, At, Rest, Fails, w25q32_probe, InitFaults
  <2>5. CASE At(r, "init", <<"cdev", "device">>)
    BY <1>5, <2>5, <1>2 DEF W25At, At, Rest, Fails, w25q32_probe, InitFaults
  <2>6. CASE At(r, "init", <<"device">>)
    BY <1>5, <2>6, <1>2 DEF W25At, At, Rest, Fails, w25q32_probe, InitFaults
  <2> QED
    BY <1>5, <2>1, <2>2, <2>3, <2>4, <2>5, <2>6 DEF W25At, At, Fails
<1>6. CASE Enters(r)
  <2>1. DriverOf[r] \in BusDrivers
    BY DEF BusDrivers
  <2>2. CASE st[r] = "init"
    <3>1. /\ todo[r] = << >> /\ st'[r] = "counting"
          /\ held'[r] = held[r] /\ Ptr(r)' = Ptr(r)
      BY <1>6, <2>1, <2>2 DEF Enters
    <3> QED
      BY <2>2, <3>1 DEF W25At, At, Rest
  <2>3. CASE st[r] = "counting"
    BY <1>6, <2>3 DEF W25At, At, Rest, Enters
  <2> QED
    BY <1>6, <2>2, <2>3 DEF Enters
<1>7. CASE Leaves(r, w25q32_remove)
  BY <1>7 DEF W25At, At, Rest, Leaves, w25q32_remove
<1>8. CASE Oopses(r)
  <2>1. CASE At(r, "init", <<"mem", "setup", "region", "class", "cdev", "device">>)
    BY <1>8, <2>1 DEF W25At, At, Rest, Oopses, InitFaults, Faults, ClassAt
  <2>2. CASE At(r, "init", <<"setup", "region", "class", "cdev", "device">>)
    BY <1>8, <2>2 DEF W25At, At, Rest, Oopses, InitFaults, Faults, ClassAt
  <2>3. CASE At(r, "init", <<"region", "class", "cdev", "device">>)
    BY <1>8, <2>3 DEF W25At, At, Rest, Oopses, InitFaults, Faults, ClassAt
  <2>4. CASE At(r, "init", <<"class", "cdev", "device">>)
    BY <1>8, <2>4 DEF W25At, At, Rest, Oopses, InitFaults, Faults, ClassAt
  <2>5. CASE At(r, "init", <<"cdev", "device">>)
    BY <1>8, <2>5 DEF W25At, At, Rest, Oopses, InitFaults, Faults, ClassAt
  <2>6. CASE At(r, "init", <<"device">>)
    BY <1>8, <2>6 DEF W25At, At, Rest, Oopses, InitFaults, Faults, ClassAt
  <2>7. CASE At(r, "undo", <<"cdev", "class", "region", "mem">>)
    BY <1>8, <2>7 DEF W25At, At, Rest, Oopses, InitFaults, Faults, ClassAt
  <2>8. CASE At(r, "undo", <<"class", "region", "mem">>)
    BY <1>8, <2>8 DEF W25At, At, Rest, Oopses, InitFaults, Faults, ClassAt
  <2>9. CASE At(r, "undo", <<"region", "mem">>)
    BY <1>8, <2>9 DEF W25At, At, Rest, Oopses, InitFaults, Faults, ClassAt
  <2>10. CASE At(r, "undo", <<"mem">>)
    BY <1>8, <2>10 DEF W25At, At, Rest, Oopses, InitFaults, Faults, ClassAt
  <2>11. CASE At(r, "exit", <<"drvdata", "device", "class", "cdev", "region">>)
    BY <1>8, <2>11 DEF W25At, At, Rest, Oopses, InitFaults, Faults, ClassAt
  <2> QED
    BY <1>8, <2>1, <2>2, <2>3, <2>4, <2>5, <2>6, <2>7, <2>8, <2>9, <2>10, <2>11
    DEF W25At, At, Oopses
<1>9. CASE Releases(r)
  <2>1. CASE At(r, "undo", <<"cdev", "class", "region", "mem">>)
    BY <1>9, <2>1, <1>2 DEF W25At, At, Rest, Releases, Faults, ClassAt
  <2>2. CASE At(r, "undo", <<"class", "region", "mem">>)
    BY <1>9, <2>2, <1>2 DEF W25At, At, Rest, Releases, Faults, ClassAt
  <2>3. CASE At(r, "undo", <<"region", "mem">>)
    BY <1>9, <2>3, <1>2 DEF W25At, At, Rest, Releases, Faults, ClassAt
  <2>4. CASE At(r, "undo", <<"mem">>)
    BY <1>9, <2>4, <1>2 DEF W25At, At, Rest, Releases, Faults, ClassAt
  <2>5. CASE At(r, "exit", <<"drvdata", "device", "class", "cdev", "region">>)
    BY <1>9, <2>5, <1>2 DEF W25At, At, Rest, Releases, Faults, ClassAt
  <2> QED
    BY <1>9, <2>1, <2>2, <2>3, <2>4, <2>5 DEF W25At, At, Releases
<1>10. CASE Ends(r)
  BY <1>10, <1>2 DEF W25At, At, Rest, Ends
<1> QED
  BY <1>1, <1>3, <1>4, <1>5, <1>6, <1>7, <1>8, <1>9, <1>10 DEF LocalStep

(***************************************************************************)
(* The probe function of the DS1302 driver.                                *)
(***************************************************************************)
LEMMA ClockStep ==
  ASSUME NEW r \in Registrants, DriverOf[r] = "ds1302", ClockAt(r), LocalStep(r), ClassAt(r)
  PROVE  ClockAt(r)'
<1>1. InitOf[DriverOf[r]] = ds1302_probe /\ ExitOf[DriverOf[r]] = ds1302_remove
  BY DEF InitOf, ExitOf
<1>2. CASE Starts(r, ds1302_probe.init)
  BY <1>2 DEF ClockAt, At, Starts, ds1302_probe
<1>3. CASE Acquires(r)
  <2>1. CASE At(r, "init", <<"mem", "setup", "map", "regmap_read", "set_time", "rtc">>)
    BY <1>3, <2>1 DEF ClockAt, At, Acquires, Resources, InitFaults
  <2>2. CASE At(r, "init", <<"setup", "map", "regmap_read", "set_time", "rtc">>)
    BY <1>3, <2>2 DEF ClockAt, At, Acquires, Resources, InitFaults
  <2>3. CASE At(r, "init", <<"map", "regmap_read", "set_time", "rtc">>)
    BY <1>3, <2>3 DEF ClockAt, At, Acquires, Resources, InitFaults
  <2>4. CASE At(r, "init", <<"regmap_read", "set_time", "rtc">>)
    BY <1>3, <2>4 DEF ClockAt, At, Acquires, Resources, InitFaults
  <2>5. CASE At(r, "init", <<"set_time", "rtc">>)
    BY <1>3, <2>5 DEF ClockAt, At, Acquires, Resources, InitFaults
  <2> QED
    BY <1>3, <2>1, <2>2, <2>3, <2>4, <2>5 DEF ClockAt, At, Acquires
<1>4. CASE Fails(r, ds1302_probe)
  <2>1. CASE At(r, "init", <<"mem", "setup", "map", "regmap_read", "set_time", "rtc">>)
    BY <1>4, <2>1 DEF ClockAt, At, Fails, ds1302_probe, InitFaults
  <2>2. CASE At(r, "init", <<"setup", "map", "regmap_read", "set_time", "rtc">>)
    BY <1>4, <2>2 DEF ClockAt, At, Fails, ds1302_probe, InitFaults
  <2>3. CASE At(r, "init", <<"map", "regmap_read", "set_time", "rtc">>)
    BY <1>4, <2>3 DEF ClockAt, At, Fails, ds1302_probe, InitFaults
  <2>4. CASE At(r, "init", <<"regmap_read", "set_time", "rtc">>)
    BY <1>4, <2>4 DEF ClockAt, At, Fails, ds1302_probe, InitFaults
  <2>5. CASE At(r, "init", <<"set_time", "rtc">>)
    BY <1>4, <2>5 DEF ClockAt, At, Fails, ds1302_probe, InitFaults
  <2> QED
    BY <1>4, <2>1, <2>2, <2>3, <2>4, <2>5 DEF ClockAt, At, Fails
<1>5. CASE Enters(r)
  <2>1. DriverOf[r] \notin BusDrivers
    BY DEF BusDrivers
  <2>2. CASE st[r] = "init"
    <3>1. /\ todo[r] = << >> /\ st'[r] = "live"
          /\ held'[r] = held[r] /\ Ptr(r)' = Ptr(r)
      BY <1>5, <2>1, <2>2 DEF Enters
    <3> QED
      BY <2>2, <3>1 DEF ClockAt, At
  <2>3. CASE st[r] = "counting"
    BY <1>5, <2>3 DEF ClockAt, At, Enters
  <2> QED
    BY <1>5, <2>2, <2>3 DEF Enters
<1>6. CASE Leaves(r, ds1302_remove)
  BY <1>6 DEF ClockAt, At, Leaves, ds1302_remove
<1>7. CASE Oopses(r)
  <2>1. CASE At(r, "init", <<"mem", "setup", "map", "regmap_read", "set_time", "rtc">>)
    BY <1>7, <2>1 DEF ClockAt, At, Oopses, InitFaults, Faults, ClassAt
  <2>2. CASE At(r, "init", <<"setup", "map", "regmap_read", "set_time", "rtc">>)
    BY <1>7, <2>2 DEF ClockAt, At, Oopses, InitFaults, Faults, ClassAt
  <2>3. CASE At(r, "init", <<"map", "regmap_read", "set_time", "rtc">>)
    BY <1>7, <2>3 DEF ClockAt, At, Oopses, InitFaults, Faults, ClassAt
  <2>4. CASE At(r, "init", <<"regmap_read", "set_time", "rtc">>)
    BY <1>7, <2>4 DEF ClockAt, At, Oopses, InitFaults, Faults, ClassAt
  <2>5. CASE At(r, "init", <<"set_time", "rtc">>)
    BY <1>7, <2>5 DEF ClockAt, At, Oopses, InitFaults, Faults, ClassAt
  <2>6. CASE At(r, "undo", <<"mem">>)
    BY <1>7, <2>6 DEF ClockAt, At, Oopses, InitFaults, Faults, ClassAt
  <2> QED
    BY <1>7, <2>1, <2>2, <2>3, <2>4, <2>5, <2>6 DEF ClockAt, At, Oopses
<1>8. CASE Releases(r)
  <2>1. CASE At(r, "undo", <<"mem">>)
    BY <1>8, <2>1 DEF ClockAt, At, Releases, Faults, ClassAt
  <2> QED
    BY <1>8, <2>1 DEF ClockAt, At, Releases
<1>9. CASE Ends(r)
  BY <1>9 DEF ClockAt, At, Ends
<1> QED
  BY <1>1, <1>2, <1>3, <1>4, <1>5, <1>6, <1>7, <1>8, <1>9 DEF LocalStep

-----------------------------------------------------------------------------
(* The classes.                                                            *)

(***************************************************************************)
(* What is known when class_create or class_destroy is the next call: only *)
(* a device whose class was lost before has one already, and only 17 and   *)
(* 18 may have none, with an error pointer.                                *)
(***************************************************************************)
LEMMA NextIsClass ==
  ASSUME NEW r \in Registrants, DriverOf[r] \in Drivers, LocalInv(r),
         st[r] \in {"init", "undo", "exit"}, todo[r] # << >>, Head(todo[r]) = "class"
  PROVE  /\ DriverOf[r] # "ds1302"
         /\ st[r] = "init" => ("class" \in held[r] => Twin(r))
         /\ st[r] # "init" => ("class" \in held[r] \/ Ptr(r) = "err")
<1> USE DEF At, LocalInv
<1>1. CASE DriverOf[r] = "psd"
  BY <1>1 DEF PsdAt
<1>2. CASE DriverOf[r] = "poll"
  BY <1>2 DEF PollAt, Etx, EtxWhole
<1>3. CASE DriverOf[r] = "ioctl"
  BY <1>3 DEF IoctlAt, Etx
<1>4. CASE DriverOf[r] = "i2c_gen"
  BY <1>4 DEF I2cAt, Rest
<1>5. CASE DriverOf[r] = "w25q32"
  BY <1>5 DEF W25At, Rest
<1>6. CASE DriverOf[r] = "ds1302"
  BY <1>6 DEF ClockAt
<1> QED
  BY <1>1, <1>2, <1>3, <1>4, <1>5, <1>6 DEF Drivers

(***************************************************************************)
(* The name of a driver that has a class is a class name.                  *)
(***************************************************************************)
LEMMA NameType ==
  ASSUME NEW d \in Drivers, d # "ds1302"
  PROVE  ClassName[d] \in ClassNames
BY DEF ClassName, ClassNames, Drivers

(***************************************************************************)
(* A step of r leaves the other registrants alone, but for the class       *)
(* pointer of r's driver and the owner of its class name.                  *)
(***************************************************************************)
LEMMA StepFrame ==
  ASSUME Types, NEW r \in Registrants, StepOf(r)
  PROVE  /\ DriverOf' = DriverOf
         /\ \A q \in Registrants \ {r} :
              /\ st'[q] = st[q] /\ todo'[q] = todo[q] /\ held'[q] = held[q]
              /\ failed_at'[q] = failed_at[q] /\ read'[q] = read[q]
         /\ \A d \in Drivers : d # DriverOf[r] => class_ptr'[d] = class_ptr[d]
         /\ \A n \in ClassNames : n # Name(r) => class_owner'[n] = class_owner[n]
<1> USE DriverType DEF Types
<1>1. CASE start_init(r) \/ start_exit(r) \/ oops(r) \/ exit_done(r)
  BY <1>1 DEF start_init, start_exit, oops, exit_done, Unread
<1>5. CASE load_count(r) \/ init_done(r)
  BY <1>5 DEF load_count, init_done
<1>2. CASE acquire(r)
  BY <1>2 DEF acquire
<1>3. CASE fail(r)
  BY <1>3 DEF fail
<1>4. CASE release(r)
  BY <1>4 DEF release
<1> QED
  BY <1>1, <1>2, <1>3, <1>4, <1>5 DEF StepOf

(***************************************************************************)
(* Every step keeps the types.                                             *)
(***************************************************************************)
LEMMA TypesStep ==
  ASSUME Types, NEW r \in Registrants, StepOf(r)
  PROVE  Types'
<1> USE DriverType DEF Types
<1>1. CASE start_exit(r) \/ oops(r)
  BY <1>1 DEF start_exit, oops
<1>8. CASE exit_done(r)
  <2>1. /\ held' \in [Registrants -> SUBSET Resources]
        /\ minor_count' \in [BusDrivers -> Int]
    BY <1>8 DEF exit_done
  <2> QED
    BY <1>8, <2>1 DEF exit_done
<1>6. CASE start_init(r)
  <2>1. read' \in [Registrants -> [Reads -> Int]]
    BY <1>6 DEF start_init, Unread
  <2>2. failed_at' = [q \in Registrants |-> failed_at'[q]]
    BY <1>6 DEF start_init
  <2> QED
    BY <1>6, <2>1, <2>2 DEF start_init
<1>5. CASE load_count(r)
  <2>1. Counter(r) \in Int
    BY <1>5 DEF load_count, Counter
  <2>2. read' \in [Registrants -> [Reads -> Int]]
    BY <1>5, <2>1 DEF load_count, Reads
  <2> QED
    BY <1>5, <2>2 DEF load_count
<1>7. CASE init_done(r)
  <2>1. read[r]["count"] \in Int
    BY DEF Reads
  <2>2. minor_count' \in [BusDrivers -> Int]
    BY <1>7, <2>1 DEF init_done
  <2> QED
    BY <1>7, <2>2 DEF init_done
<1>2. CASE acquire(r)
  <2>1. held' \in [Registrants -> SUBSET Resources]
    BY <1>2 DEF acquire
  <2>2. read' \in [Registrants -> [Reads -> Int]]
    BY <1>2 DEF acquire, Reads, Counter
  <2>3. /\ class_ptr' \in [Drivers -> Registrants \cup {None, "err"}]
        /\ class_owner' \in [ClassNames -> Registrants \cup {None}]
        /\ todo' = [q \in Registrants |-> todo'[q]]
    BY <1>2 DEF acquire
  <2> QED
    BY <1>2, <2>1, <2>2, <2>3 DEF acquire
<1>3. CASE fail(r)
  BY <1>3 DEF fail
<1>4. CASE release(r)
  <2>1. held' \in [Registrants -> SUBSET Resources]
    BY <1>4 DEF release
  <2> QED
    BY <1>4, <2>1 DEF release
<1> QED
  BY <1>1, <1>2, <1>3, <1>4, <1>5, <1>6, <1>7, <1>8 DEF StepOf

(***************************************************************************)
(* Whoever holds a class still owns its name after any step of r.          *)
(***************************************************************************)
LEMMA ClassStep ==
  ASSUME RegInv, NEW r \in Registrants, StepOf(r), NEW q \in Registrants
  PROVE  ClassAt(q)'
<1>1. Types /\ ClassAt(q) /\ ClassAt(r) /\ LocalInv(r) /\ DriverOf \in [Registrants -> Drivers]
  BY DriverType DEF RegInv
<1>2. /\ DriverOf' = DriverOf
      /\ q # r => held'[q] = held[q]
      /\ DriverOf[q] # DriverOf[r] => Ptr(q)' = Ptr(q)
      /\ Twin(q)' = Twin(q) /\ Name(q)' = Name(q) /\ Ptr(q)' = class_ptr'[DriverOf[q]]
  BY <1>1, StepFrame DEF Ptr, Name, Twin
<1>3. DriverOf[q] = DriverOf[r] /\ q # r => Twin(q) /\ Twin(r)
  BY DEF Twin
<1>4. SUFFICES ASSUME "class" \in held'[q]
               PROVE  /\ class_owner'[Name(q)] = q
                      /\ Ptr(q)' = q \/ (Ptr(q)' = "err" /\ Twin(q))
  BY <1>1, <1>2 DEF ClassAt
<1> DEFINE step == Head(todo[r])
<1>5. CASE acquire(r) /\ step = "class"
  <2>1. DriverOf[r] # "ds1302" /\ Name(r) \in ClassNames
    BY <1>1, <1>5, NextIsClass, NameType DEF acquire, Name
  <2>2. /\ class_owner[Name(r)] = None
        /\ class_owner' = [class_owner EXCEPT ![Name(r)] = r]
        /\ class_ptr' = [class_ptr EXCEPT ![DriverOf[r]] = r]
    BY <1>5 DEF acquire
  <2>3. CASE q = r
    BY <1>1, <1>2, <2>1, <2>2, <2>3 DEF Types
  <2>4. CASE q # r
    <3>1. class_owner[Name(q)] = q /\ q # None
      BY <1>1, <1>2, <1>4, <2>4, RegAssumption DEF ClassAt
    <3>2. Name(q) # Name(r)
      BY <2>2, <3>1
    <3>3. DriverOf[q] # DriverOf[r]
      BY <3>2 DEF Name
    <3>4. class_owner'[Name(q)] = class_owner[Name(q)]
      BY <1>1, <2>2, <3>2 DEF Types
    <3> QED
      BY <1>1, <1>2, <1>4, <2>4, <3>1, <3>3, <3>4 DEF ClassAt
  <2> QED
    BY <2>3, <2>4
<1>6. CASE fail(r) /\ step = "class"
  <2>1. /\ class_owner' = class_owner /\ held' = held
        /\ class_ptr' = [class_ptr EXCEPT ![DriverOf[r]] = "err"]
    BY <1>6 DEF fail
  <2>2. class_owner'[Name(q)] = q
    BY <1>1, <1>4, <2>1 DEF ClassAt
  <2>3. CASE DriverOf[q] = DriverOf[r]
    <3>1. Twin(q)
      <4>1. CASE q = r
        BY <1>1, <1>4, <1>6, <2>1, <4>1, NextIsClass DEF fail
      <4> QED
        BY <1>3, <2>3, <4>1
    <3>2. Ptr(q)' = "err"
      BY <1>1, <1>2, <2>1, <2>3 DEF Types
    <3> QED
      BY <2>2, <3>1, <3>2
  <2>4. CASE DriverOf[q] # DriverOf[r]
    BY <1>1, <1>2, <1>4, <2>1, <2>2, <2>4 DEF ClassAt
  <2> QED
    BY <2>3, <2>4
<1>7. CASE release(r) /\ step = "class"
  <2>1. class_ptr' = class_ptr
    BY <1>7 DEF release
  <2>2. "class" \in held[r] \/ Ptr(r) = "err"
    BY <1>1, <1>7, NextIsClass DEF release
  <2>3. CASE Ptr(r) \in Registrants
    <3>1. /\ "class" \in held[r] /\ Ptr(r) = r /\ class_owner[Name(r)] = r
      BY <1>1, <2>2, <2>3, RegAssumption DEF ClassAt
    <3>2. held'[r] = held[r] \ {"class"}
      BY <1>1, <1>7, <3>1 DEF release, Types
    <3>3. q # r
      BY <1>4, <3>2
    <3>4. class_owner[Name(q)] = q /\ Name(q) # Name(r)
      BY <1>1, <1>2, <1>4, <3>1, <3>3 DEF ClassAt
    <3>5. class_owner' = [class_owner EXCEPT ![Name(r)] = None]
      BY <1>7, <2>3 DEF release
    <3>6. class_owner'[Name(q)] = q
      BY <1>1, <3>4, <3>5 DEF Types
    <3> QED
      BY <1>1, <1>2, <1>4, <2>1, <3>3, <3>6 DEF ClassAt, Ptr
  <2>4. CASE Ptr(r) \notin Registrants
    <3>1. class_owner' = class_owner
      BY <1>7, <2>4 DEF release
    <3>2. "class" \in held[q]
      BY <1>1, <1>2, <1>4, <1>7, <2>4 DEF release, Types
    <3> QED
      BY <1>1, <1>2, <2>1, <3>1, <3>2 DEF ClassAt, Ptr
  <2> QED
    BY <2>3, <2>4
<1>8. CASE /\ ~(acquire(r) /\ step = "class") /\ ~(fail(r) /\ step = "class")
           /\ ~(release(r) /\ step = "class")
  <2>1. class_owner' = class_owner /\ class_ptr' = class_ptr
    BY <1>8 DEF StepOf, start_init, acquire, fail, load_count, init_done, start_exit, oops, release, exit_done
  <2>2. "class" \in held[q]
    <3>1. CASE acquire(r) \/ release(r)
      <4>1. q = r => held'[r] \subseteq held[r] \cup {step}
        BY <1>1, <1>8, <3>1 DEF acquire, release, Types
      <4> QED
        BY <1>2, <1>4, <1>8, <3>1, <4>1
    <3>2. CASE ~(acquire(r) \/ release(r))
      BY <1>1, <1>2, <1>4, <3>2
         DEF StepOf, start_init, fail, load_count, init_done, start_exit, oops, exit_done, Types
    <3> QED
      BY <3>1, <3>2
  <2> QED
    BY <1>1, <1>2, <2>1, <2>2 DEF ClassAt, Ptr
<1> QED
  BY <1>5, <1>6, <1>7, <1>8

(***************************************************************************)
(* Every registrant stays among the places of its driver.                  *)
(***************************************************************************)
LEMMA LocalInvStep ==
  ASSUME RegInv, NEW r \in Registrants, StepOf(r), NEW q \in Registrants
  PROVE  LocalInv(q)'
<1>1. Types /\ ClassAt(q) /\ LocalInv(q) /\ DriverOf \in [Registrants -> Drivers]
  BY DriverType DEF RegInv
<1>2. DriverOf' = DriverOf /\ Twin(q)' = Twin(q)
  BY <1>1, StepFrame DEF Twin
<1>3. CASE q = r
  <2>1. LocalStep(q)
    BY <1>1, <1>3, StepLocal
  <2>2. /\ DriverOf[q] = "psd" => PsdAt(q)'
        /\ DriverOf[q] = "poll" => PollAt(q)'
        /\ DriverOf[q] = "ioctl" => IoctlAt(q)'
    BY <1>1, <2>1, PsdStep, PollStep, IoctlStep DEF LocalInv
  <2>3. /\ DriverOf[q] = "i2c_gen" => I2cAt(q)'
        /\ DriverOf[q] = "w25q32" => W25At(q)'
        /\ DriverOf[q] = "ds1302" => ClockAt(q)'
    BY <1>1, <2>1, I2cStep, W25Step, ClockStep DEF LocalInv
  <2> QED
    BY <1>2, <2>2, <2>3 DEF LocalInv
<1>4. CASE q # r
  <2>1. /\ st'[q] = st[q] /\ todo'[q] = todo[q] /\ held'[q] = held[q]
        /\ failed_at'[q] = failed_at[q]
    BY <1>1, <1>4, StepFrame
  <2>2. DriverOf[q] \in {"psd", "poll", "ioctl"} => Ptr(q)' = Ptr(q)
    <3>1. DriverOf[q] \in {"psd", "poll", "ioctl"} => DriverOf[q] # DriverOf[r]
      BY <1>1, <1>4 DEF ClassAt, Twin
    <3> QED
      BY <1>1, <1>2, <3>1, StepFrame DEF Ptr
  <2>3. DriverOf[q] = "psd" => PsdAt(q)'
    BY <1>1, <2>1 DEF LocalInv, PsdAt, At
  <2>4. DriverOf[q] = "poll" => PollAt(q)'
    BY <1>1, <2>1, <2>2 DEF LocalInv, PollAt, At, Etx, EtxWhole
  <2>5. DriverOf[q] = "ioctl" => IoctlAt(q)'
    BY <1>1, <2>1, <2>2 DEF LocalInv, IoctlAt, At, Etx
  <2>6. DriverOf[q] = "i2c_gen" => I2cAt(q)'
    BY <1>1, <1>2, <2>1 DEF LocalInv, I2cAt, At, Rest
  <2>7. DriverOf[q] = "w25q32" => W25At(q)'
    BY <1>1, <1>2, <2>1 DEF LocalInv, W25At, At, Rest
  <2>8. DriverOf[q] = "ds1302" => ClockAt(q)'
    BY <1>1, <2>1 DEF LocalInv, ClockAt, At
  <2> QED
    BY <1>2, <2>3, <2>4, <2>5, <2>6, <2>7, <2>8 DEF LocalInv
<1> QED
  BY <1>3, <1>4

(***************************************************************************)
(* Every step keeps the invariant.                                         *)
(***************************************************************************)
LEMMA NextReg == RegInv /\ [Next]_vars => RegInv'
<1> SUFFICES ASSUME RegInv, [Next]_vars
             PROVE  RegInv'
  OBVIOUS
<1>1. ASSUME NEW r \in Registrants, StepOf(r)
      PROVE  RegInv'
  BY <1>1, TypesStep, LocalInvStep, ClassStep DEF RegInv
<1>2. CASE UNCHANGED vars
  <2>1. Types'
    BY <1>2 DEF vars, RegInv, Types
  <2>2. ASSUME NEW r \in Registrants
        PROVE  LocalInv(r)' /\ ClassAt(r)'
    <3>1. ClassAt(r)' <=> ClassAt(r)
      BY <1>2 DEF vars, ClassAt, Twin, Ptr, Name
    <3>2. /\ PsdAt(r)' <=> PsdAt(r)
          /\ ClockAt(r)' <=> ClockAt(r)
      BY <1>2 DEF vars, PsdAt, ClockAt, At
    <3>3. PollAt(r)' <=> PollAt(r)
      BY <1>2 DEF vars, PollAt, At, Etx, EtxWhole, Ptr
    <3>4. IoctlAt(r)' <=> IoctlAt(r)
      BY <1>2 DEF vars, IoctlAt, At, Etx, Ptr
    <3>5. I2cAt(r)' <=> I2cAt(r)
      BY <1>2 DEF vars, I2cAt, At, Rest, Twin
    <3>6. W25At(r)' <=> W25At(r)
      BY <1>2 DEF vars, W25At, At, Rest, Twin
    <3> QED
      BY <1>2, <3>1, <3>2, <3>3, <3>4, <3>5, <3>6 DEF vars, RegInv, LocalInv
  <2> QED
    BY <2>1, <2>2 DEF RegInv
<1> QED
  BY <1>1, <1>2 DEF Next, StepOf

(***************************************************************************)
(* With every module loaded at most once, each registrant holds before     *)
(* each call what its driver's list says.                                  *)
(***************************************************************************)
THEOREM RegInvariance == ASSUME ModulesOnce PROVE Spec => []RegInv
<1>1. Init => RegInv
  <2> SUFFICES ASSUME Init
               PROVE  RegInv
    OBVIOUS
  <2>1. Types
    <3>1. read \in [Registrants -> [Reads -> Int]]
      BY DEF Init, Unread
    <3>2. failed_at = [r \in Registrants |-> failed_at[r]] /\ todo = [r \in Registrants |-> todo[r]]
      BY DEF Init
    <3> QED
      BY <3>1, <3>2 DEF Init, Types
  <2>2. ASSUME NEW r \in Registrants
        PROVE  LocalInv(r) /\ ClassAt(r)
    <3>1. DriverOf[r] \in {"psd", "poll", "ioctl"} => ~Twin(r)
      BY DEF ModulesOnce, Twin, Init
    <3>2. st[r] = "out" /\ held[r] = {}
      BY DEF Init
    <3> QED
      BY <3>1, <3>2, RegAssumption DEF LocalInv, ClassAt, PsdAt, PollAt, IoctlAt, I2cAt, W25At,
         ClockAt, Rest
  <2> QED
    BY <2>1, <2>2 DEF RegInv
<1> QED
  BY <1>1, NextReg, PTL DEF Spec

-----------------------------------------------------------------------------
(* What follows.                                                           *)

(***************************************************************************)
(* The resources each driver asks for.                                     *)
(***************************************************************************)
LEMMA WantedIs ==
  ASSUME NEW r \in Registrants
  PROVE  /\ DriverOf[r] \in {"psd", "ioctl"} =>
              Wanted(r) = {"region", "class", "cdev", "device"}
         /\ DriverOf[r] = "poll" =>
              Wanted(r) = {"region", "cdev", "class", "device", "kobj", "file"}
         /\ DriverOf[r] \in BusDrivers =>
              Wanted(r) = {"mem", "region", "class", "cdev", "device"}
         /\ DriverOf[r] = "ds1302" => Wanted(r) = {"mem", "map", "rtc"}
<1> DEFINE init == InitOf[DriverOf[r]].init
<1>1. Wanted(r) = {init[i] : i \in DOMAIN init} \cap Resources
  BY DEF Wanted
<1>2. CASE DriverOf[r] = "psd"
  <2>1. init = <<"region", "class", "cdev", "device">> /\ DOMAIN init = 1 .. 4
    BY <1>2 DEF InitOf, psd_init
  <2> QED
    BY <1>1, <1>2, <2>1 DEF Resources, BusDrivers
<1>3. CASE DriverOf[r] = "ioctl"
  <2>1. init = <<"region", "cdev", "class", "device">> /\ DOMAIN init = 1 .. 4
    BY <1>3 DEF InitOf, ioctl_init
  <2> QED
    BY <1>1, <1>3, <2>1 DEF Resources, BusDrivers
<1>4. CASE DriverOf[r] = "poll"
  <2>1. init = <<"region", "cdev", "class", "device", "kobj", "file">> /\ DOMAIN init = 1 .. 6
    BY <1>4 DEF InitOf, poll_init
  <2> QED
    BY <1>1, <1>4, <2>1 DEF Resources, BusDrivers
<1>5. CASE DriverOf[r] = "i2c_gen"
  <2>1. init = <<"check", "mem", "region", "class", "cdev", "device">> /\ DOMAIN init = 1 .. 6
    BY <1>5 DEF InitOf, i2c_gen_probe
  <2> QED
    BY <1>1, <1>5, <2>1 DEF Resources, BusDrivers
<1>6. CASE DriverOf[r] = "w25q32"
  <2>1. init = <<"mem", "setup", "region", "class", "cdev", "device">> /\ DOMAIN init = 1 .. 6
    BY <1>6 DEF InitOf, w25q32_probe
  <2> QED
    BY <1>1, <1>6, <2>1 DEF Resources, BusDrivers
<1>7. CASE DriverOf[r] = "ds1302"
  <2>1. init = <<"mem", "setup", "map", "regmap_read", "set_time", "rtc">> /\ DOMAIN init = 1 .. 6
    BY <1>7 DEF InitOf, ds1302_probe
  <2> QED
    BY <1>1, <1>7, <2>1 DEF Resources, BusDrivers
<1> QED
  BY <1>2, <1>3, <1>4, <1>5, <1>6, <1>7 DEF BusDrivers

(***************************************************************************)
(* What the lists say of r, driver by driver.                              *)
(***************************************************************************)
Holds(r) ==
  /\ held[r] \subseteq Wanted(r)
  /\ st[r] = "out" => held[r] \subseteq LeftBehind(r)
  /\ DriverOf[r] # "poll" \/ failed_at[r] # "file" =>
       /\ "device" \in held[r] => "class" \in held[r]
       /\ "cdev" \in held[r] => "region" \in held[r]
  /\ st[r] = "oops" =>
       \/ DriverOf[r] \in BusDrivers /\ held[r] = Wanted(r)
       \/ DriverOf[r] = "ds1302" /\ held[r] = {"mem", "map"}
       \/ DriverOf[r] \in {"poll", "ioctl"} /\ {"class", "kobj"} \cap (Wanted(r) \ held[r]) # {}
  /\ DriverOf[r] = "ds1302" => st[r] \notin {"live", "exit"}
  /\ st[r] = "live" =>
       /\ Wanted(r) \ held[r] \subseteq {"class", "device"}
       /\ "class" \in Wanted(r) \ held[r] => "device" \notin held[r]
       /\ DriverOf[r] \in {"psd", "i2c_gen", "w25q32"} => held[r] = Wanted(r)

(***************************************************************************)
(* The invariant implies it for every registrant.                          *)
(***************************************************************************)
LEMMA RegHolds ==
  ASSUME RegInv, NEW r \in Registrants
  PROVE  Holds(r)
<1>1. DriverOf[r] \in Drivers /\ LocalInv(r)
  BY DriverType DEF RegInv
<1> USE DEF LocalInv, At, LeftBehind, BusDrivers
<1>2. CASE DriverOf[r] = "psd"
  <2>1. PsdAt(r) /\ Wanted(r) = {"region", "class", "cdev", "device"}
    BY <1>1, <1>2, WantedIs
  <2> QED
    BY <1>2, <2>1 DEF Holds, PsdAt
<1>3. CASE DriverOf[r] = "poll"
  <2>1. PollAt(r) /\ Wanted(r) = {"region", "cdev", "class", "device", "kobj", "file"}
    BY <1>1, <1>3, WantedIs
  <2>2. /\ held[r] \subseteq Wanted(r)
        /\ st[r] = "out" => held[r] \subseteq LeftBehind(r)
    BY <1>3, <2>1 DEF PollAt, Etx, EtxWhole
  <2>3. failed_at[r] # "file" =>
          /\ "device" \in held[r] => "class" \in held[r]
          /\ "cdev" \in held[r] => "region" \in held[r]
    BY <2>1 DEF PollAt, Etx, EtxWhole
  <2>4. st[r] = "oops" => "kobj" \notin held[r]
    BY <2>1 DEF PollAt, Etx
  <2>5. st[r] = "live" =>
          /\ Wanted(r) \ held[r] \subseteq {"class", "device"}
          /\ "class" \in Wanted(r) \ held[r] => "device" \notin held[r]
    BY <2>1 DEF PollAt, Etx, EtxWhole
  <2> QED
    BY <1>3, <2>1, <2>2, <2>3, <2>4, <2>5 DEF Holds
<1>4. CASE DriverOf[r] = "ioctl"
  <2>1. IoctlAt(r) /\ Wanted(r) = {"region", "class", "cdev", "device"}
    BY <1>1, <1>4, WantedIs
  <2> QED
    BY <1>4, <2>1 DEF Holds, IoctlAt, Etx
<1>5. CASE DriverOf[r] = "i2c_gen"
  <2>1. I2cAt(r) /\ Wanted(r) = {"mem", "region", "class", "cdev", "device"}
    BY <1>1, <1>5, WantedIs
  <2> QED
    BY <1>5, <2>1 DEF Holds, I2cAt, Rest, Twin
<1>6. CASE DriverOf[r] = "w25q32"
  <2>1. W25At(r) /\ Wanted(r) = {"mem", "region", "class", "cdev", "device"}
    BY <1>1, <1>6, WantedIs
  <2> QED
    BY <1>6, <2>1 DEF Holds, W25At, Rest, Twin
<1>7. CASE DriverOf[r] = "ds1302"
  <2>1. ClockAt(r) /\ Wanted(r) = {"mem", "map", "rtc"}
    BY <1>1, <1>7, WantedIs
  <2> QED
    BY <1>7, <2>1 DEF Holds, ClockAt
<1> QED
  BY <1>1, <1>2, <1>3, <1>4, <1>5, <1>6, <1>7 DEF Drivers

(***************************************************************************)
(* Type correctness: nothing is held that the init function does not ask   *)
(* for, and no class pointer is ever NULL after a failed class_create.     *)
(***************************************************************************)
THEOREM TypesCorrect == ASSUME ModulesOnce PROVE Spec => []TypeOK
<1>1. RegInv => TypeOK
  BY RegHolds DEF RegInv, Types, TypeOK, Holds
<1> QED
  BY <1>1, RegInvariance, PTL

(***************************************************************************)
(* A module that is not loaded and a device that is not bound hold nothing *)
(* but what LeftBehind names, whichever calls failed.                      *)
(***************************************************************************)
THEOREM LeftBehindCorrect == ASSUME ModulesOnce PROVE Spec => []NothingElseLeftBehind
<1>1. RegInv => NothingElseLeftBehind
  BY RegHolds DEF NothingElseLeftBehind, Holds
<1> QED
  BY <1>1, RegInvariance, PTL

(***************************************************************************)
(* A device node exists only within a registered class and a cdev only     *)
(* under a reserved number, also halfway through init, undo and exit.      *)
(***************************************************************************)
THEOREM NestedCorrect == ASSUME ModulesOnce PROVE Spec => []Nested
<1>1. RegInv => Nested
  BY RegHolds DEF RegInv, Nested, Holds, ClassAt
<1> QED
  BY <1>1, RegInvariance, PTL

(***************************************************************************)
(* The only oopses are those of the remove functions of 15 and of the      *)
(* W25Q32 driver, of the probe function of the DS1302 driver, and of 17    *)
(* and 18 when their init went on without a class or a directory.          *)
(***************************************************************************)
THEOREM OopsCorrect == ASSUME ModulesOnce PROVE Spec => []OopsOnlyKnown
<1>1. RegInv => OopsOnlyKnown
  BY RegHolds DEF OopsOnlyKnown, Holds
<1> QED
  BY <1>1, RegInvariance, PTL

(***************************************************************************)
(* An init or probe function that tests class_create with IS_ERR reports   *)
(* success only with everything it asked for; the others lack at most a    *)
(* class and a device.                                                     *)
(***************************************************************************)
THEOREM CompleteCorrect == ASSUME ModulesOnce PROVE Spec => []CompleteIfChecked
<1>1. RegInv => CompleteIfChecked
  BY RegHolds DEF CompleteIfChecked, Holds
<1> QED
  BY <1>1, RegInvariance, PTL

-----------------------------------------------------------------------------
(* The device counters.                                                    *)

\* What a probe has read: a device number no greater than the counter, and zeros
\* once it has the class, which only one device has.
ReadAt(r) ==
  /\ "region" \in held[r] => read[r]["region"] \in 0 .. Counter(r)
  /\ "device" \in held[r] => read[r]["region"] = 0 /\ read[r]["device"] = 0
  /\ st[r] = "counting" => read[r]["count"] = 0

CountInv ==
  /\ \A d \in BusDrivers : minor_count[d] \in {0, 1} /\ (minor_count[d] = 1 <=> Bound(d) # {})
  /\ \A r \in Registrants : DriverOf[r] \in BusDrivers => ReadAt(r)

(***************************************************************************)
(* Where a device of a bus driver has its class, what it holds there, and  *)
(* that its probe does not oops and its remove, which does, never ends.    *)
(***************************************************************************)
LEMMA BusAt ==
  ASSUME RegInv, NEW r \in Registrants, DriverOf[r] \in BusDrivers
  PROVE  /\ st[r] \in {"counting", "live", "exit", "oops"} => {"class", "device"} \subseteq held[r]
         /\ st[r] = "init" /\ todo[r] = << >> => {"class", "device"} \subseteq held[r]
         /\ st[r] = "init" /\ todo[r] # << >> => "device" \notin held[r]
         /\ st[r] = "init" /\ todo[r] # << >> /\ Head(todo[r]) = "device" =>
              {"class", "region"} \subseteq held[r]
         /\ oops(r) => st[r] = "exit"
         /\ ~(st[r] = "exit" /\ todo[r] = << >>)
<1>1. I2cAt(r) \/ W25At(r)
  BY DEF RegInv, LocalInv, BusDrivers
<1>2. CASE I2cAt(r)
  <2>1. st[r] = "init" /\ todo[r] # << >> => ~InitFaults(r, Head(todo[r]))
    BY <1>2 DEF I2cAt, At, InitFaults
  <2>2. st[r] = "undo" /\ todo[r] # << >> => ~Faults(r, Head(todo[r]))
    BY <1>2 DEF I2cAt, At, Faults
  <2>3. st[r] \in {"counting", "live", "exit", "oops"} => {"class", "device"} \subseteq held[r]
    BY <1>2 DEF I2cAt, At
  <2>5. ASSUME todo[r] = << >>, st[r] = "exit" \/ st[r] = "init"
        PROVE  st[r] = "init" /\ {"class", "device"} \subseteq held[r]
    BY <1>2, <2>5 DEF I2cAt, At
  <2>4. /\ st[r] = "init" /\ todo[r] # << >> => "device" \notin held[r]
        /\ st[r] = "init" /\ todo[r] # << >> /\ Head(todo[r]) = "device" =>
              {"class", "region"} \subseteq held[r]
    BY <1>2 DEF I2cAt, At, Rest
  <2> QED
    BY <2>1, <2>2, <2>3, <2>4, <2>5 DEF oops
<1>3. CASE W25At(r)
  <2>1. st[r] = "init" /\ todo[r] # << >> => ~InitFaults(r, Head(todo[r]))
    BY <1>3 DEF W25At, At, InitFaults
  <2>2. st[r] = "undo" /\ todo[r] # << >> => ~Faults(r, Head(todo[r]))
    BY <1>3 DEF W25At, At, Faults
  <2>3. st[r] \in {"counting", "live", "exit", "oops"} => {"class", "device"} \subseteq held[r]
    BY <1>3 DEF W25At, At
  <2>5. ASSUME todo[r] = << >>, st[r] = "exit" \/ st[r] = "init"
        PROVE  st[r] = "init" /\ {"class", "device"} \subseteq held[r]
    BY <1>3, <2>5 DEF W25At, At
  <2>4. /\ st[r] = "init" /\ todo[r] # << >> => "device" \notin held[r]
        /\ st[r] = "init" /\ todo[r] # << >> /\ Head(todo[r]) = "device" =>
              {"class", "region"} \subseteq held[r]
    BY <1>3 DEF W25At, At, Rest
  <2> QED
    BY <2>1, <2>2, <2>3, <2>4, <2>5 DEF oops
<1> QED
  BY <1>1, <1>2, <1>3

(***************************************************************************)
(* While a probe has the class, no device of its driver is bound but       *)
(* itself.                                                                 *)
(***************************************************************************)
LEMMA ClassExcludes ==
  ASSUME RegInv, NEW r \in Registrants, DriverOf[r] \in BusDrivers, "class" \in held[r]
  PROVE  Bound(DriverOf[r]) \subseteq {r}
<1> SUFFICES ASSUME NEW q \in Registrants, DriverOf[q] = DriverOf[r],
                    st[q] \in {"live", "exit", "oops"}
             PROVE  q = r
  BY DEF Bound
<1>1. "class" \in held[q]
  BY BusAt
<1>2. class_owner[Name(q)] = q /\ class_owner[Name(r)] = r
  BY <1>1 DEF RegInv, ClassAt
<1> QED
  BY <1>2 DEF Name

(***************************************************************************)
(* Storing the counter: r becomes the one bound device of its driver.      *)
(***************************************************************************)
LEMMA CountStore ==
  ASSUME RegInv, CountInv, NEW r \in Registrants, st[r] = "counting", init_done(r),
         DriverOf[r] \in BusDrivers
  PROVE  CountInv'
<1> DEFINE d == DriverOf[r]
<1>1. Types /\ ReadAt(r) /\ "class" \in held[r]
  BY BusAt DEF RegInv, CountInv
<1>2. Bound(d) = {} /\ minor_count[d] = 0
  <2>1. r \notin Bound(d)
    BY DEF Bound
  <2>2. Bound(d) \subseteq {r}
    BY <1>1, ClassExcludes
  <2>3. Bound(d) = {}
    BY <2>1, <2>2
  <2> QED
    BY <2>3 DEF CountInv
<1>3. /\ DriverOf' = DriverOf /\ held' = held /\ read' = read
      /\ st' = [st EXCEPT ![r] = "live"]
      /\ minor_count' = [minor_count EXCEPT ![d] = read[r]["count"] + 1]
  BY DEF init_done
<1>4. minor_count' = [minor_count EXCEPT ![d] = 1]
  <2>1. read[r]["count"] = 0
    BY <1>1 DEF ReadAt
  <2> QED
    BY <1>3, <2>1
<1>5. ASSUME NEW e \in BusDrivers
      PROVE  minor_count'[e] \in {0, 1} /\ (minor_count'[e] = 1 <=> Bound(e)' # {})
  <2>1. CASE e = d
    <3>1. minor_count'[e] = 1
      BY <1>1, <1>4, <2>1 DEF Types
    <3>2. r \in Bound(e)'
      BY <1>1, <1>3, <2>1 DEF Types, Bound
    <3> QED
      BY <3>1, <3>2
  <2>2. CASE e # d
    <3>1. minor_count'[e] = minor_count[e]
      BY <1>1, <1>4, <2>2 DEF Types
    <3>2. Bound(e)' = Bound(e)
      BY <1>1, <1>3, <2>2 DEF Types, Bound
    <3> QED
      BY <1>5, <3>1, <3>2 DEF CountInv
  <2> QED
    BY <2>1, <2>2
<1>6. ASSUME NEW q \in Registrants, DriverOf[q] \in BusDrivers
      PROVE  ReadAt(q)'
  <2>1. ReadAt(q) /\ held'[q] = held[q] /\ read'[q] = read[q]
    BY <1>3, <1>6 DEF CountInv
  <2>2. st'[q] = "counting" => st[q] = "counting"
    BY <1>1, <1>3 DEF Types
  <2>3. /\ Counter(q)' = IF DriverOf[q] = d THEN 1 ELSE Counter(q)
        /\ Counter(q) \in {0, 1} /\ (DriverOf[q] = d => Counter(q) = 0)
    BY <1>1, <1>2, <1>3, <1>4, <1>6 DEF Types, Counter, CountInv
  <2> QED
    BY <2>1, <2>2, <2>3 DEF ReadAt
<1> QED
  BY <1>3, <1>5, <1>6 DEF CountInv

(***************************************************************************)
(* Every other step leaves the counters and the bound devices alone, and   *)
(* what it reads is right.                                                 *)
(***************************************************************************)
LEMMA CountStep ==
  ASSUME RegInv, CountInv, NEW r \in Registrants, StepOf(r),
         ~(st[r] = "counting" /\ init_done(r))
  PROVE  CountInv'
<1>1. Types /\ DriverOf' = DriverOf
  BY StepFrame DEF RegInv
<1>2. DriverOf[r] \in BusDrivers =>
        (oops(r) => st[r] = "exit") /\ ~(st[r] = "exit" /\ todo[r] = << >>)
  BY BusAt
<1>3. minor_count' = minor_count
  BY <1>2 DEF StepOf, start_init, acquire, fail, load_count, init_done, start_exit, oops,
              release, exit_done
<1>4. ASSUME NEW d \in BusDrivers
      PROVE  Bound(d)' = Bound(d)
  <2>1. \A q \in Registrants \ {r} : st'[q] = st[q]
    BY <1>1, StepFrame
  <2>2. DriverOf[r] = d => (r \in Bound(d)' <=> r \in Bound(d))
    <3>1. CASE start_init(r) \/ acquire(r) \/ fail(r) \/ load_count(r) \/ start_exit(r)
      BY <1>1, <3>1 DEF start_init, acquire, fail, load_count, start_exit, Bound, Types
    <3>2. CASE oops(r)
      BY <1>1, <1>2, <1>4, <3>2 DEF oops, Bound, Types
    <3>3. CASE release(r) \/ exit_done(r)
      BY <1>1, <1>2, <1>4, <3>3 DEF release, exit_done, Bound, Types
    <3>4. CASE init_done(r)
      BY <1>4, <3>4 DEF init_done
    <3> QED
      BY <3>1, <3>2, <3>3, <3>4 DEF StepOf
  <2> QED
    BY <1>1, <2>1, <2>2 DEF Bound
<1>5. ASSUME NEW q \in Registrants, DriverOf[q] \in BusDrivers
      PROVE  ReadAt(q)'
  <2>1. ReadAt(q) /\ Counter(q)' = Counter(q) /\ Counter(q) \in {0, 1}
    BY <1>1, <1>3, <1>5 DEF CountInv, Counter
  <2>2. CASE q # r
    BY <1>1, <2>1, <2>2, StepFrame DEF ReadAt
  <2>3. CASE q = r
    <3> DEFINE step == Head(todo[r])
    <3>0. r \notin Bound(DriverOf[r]) /\ "class" \in held[r] => Counter(r) = 0
      <4>1. r \notin Bound(DriverOf[r]) /\ "class" \in held[r] => Bound(DriverOf[r]) = {}
        BY <1>5, <2>3, ClassExcludes
      <4> QED
        BY <1>5, <2>3, <4>1 DEF CountInv, Counter
    <3>1. CASE start_init(r)
      BY <1>1, <2>3, <3>1 DEF start_init, ReadAt, Types
    <3>2. CASE acquire(r)
      <4>1. /\ st[r] = "init" /\ st'[r] = "init" /\ "device" \notin held[r]
            /\ held'[r] \subseteq held[r] \cup {step}
        BY <1>1, <1>5, <2>3, <3>2, BusAt DEF acquire, Types
      <4>2. CASE step \in {"region", "device"}
        <5>1. read'[r] = [read[r] EXCEPT ![step] = Counter(r)]
          BY <1>1, <1>5, <2>3, <3>2, <4>2 DEF acquire, Types
        <5>2. CASE step = "region"
          <6>1. "device" \notin held'[r] /\ read'[r]["region"] = Counter(r)
            BY <1>1, <4>1, <5>1, <5>2 DEF Types, Reads
          <6> QED
            BY <2>1, <2>3, <4>1, <6>1 DEF ReadAt
        <5>3. CASE step = "device"
          <6>1. {"class", "region"} \subseteq held[r]
            BY <1>5, <2>3, <3>2, <5>3, BusAt DEF acquire
          <6>2. Counter(r) = 0
            BY <3>0, <4>1, <6>1 DEF Bound
          <6>3. read'[r]["device"] = 0 /\ read'[r]["region"] = read[r]["region"]
            BY <1>1, <5>1, <5>3, <6>2 DEF Types, Reads
          <6>4. read[r]["region"] = 0
            BY <2>1, <2>3, <6>1, <6>2 DEF ReadAt
          <6> QED
            BY <2>1, <2>3, <4>1, <6>2, <6>3, <6>4 DEF ReadAt
        <5> QED
          BY <4>2, <5>2, <5>3
      <4>3. CASE step \notin {"region", "device"}
        <5>1. read' = read
          BY <3>2, <4>3 DEF acquire
        <5> QED
          BY <2>1, <2>3, <4>1, <4>3, <5>1 DEF ReadAt
      <4> QED
        BY <4>2, <4>3
    <3>3. CASE load_count(r)
      <4>1. Counter(r) = 0
        BY <1>5, <2>3, <3>0, <3>3, BusAt DEF load_count, Bound
      <4>2. /\ held' = held /\ read'[r]["count"] = 0
            /\ read'[r]["region"] = read[r]["region"] /\ read'[r]["device"] = read[r]["device"]
        BY <1>1, <3>3, <4>1 DEF load_count, Types, Reads
      <4> QED
        BY <2>1, <2>3, <4>2 DEF ReadAt
    <3>4. CASE fail(r) \/ init_done(r) \/ start_exit(r) \/ oops(r) \/ release(r) \/ exit_done(r)
      <4>1. read' = read /\ held'[r] \subseteq held[r] /\ st'[r] # "counting"
        <5>1. CASE fail(r) \/ init_done(r) \/ start_exit(r) \/ oops(r) \/ exit_done(r)
          BY <1>1, <5>1 DEF fail, init_done, start_exit, oops, exit_done, Types
        <5>2. CASE release(r)
          BY <1>1, <5>2 DEF release, Types
        <5> QED
          BY <3>4, <5>1, <5>2
      <4> QED
        BY <2>1, <2>3, <4>1 DEF ReadAt
    <3> QED
      BY <3>1, <3>2, <3>3, <3>4 DEF StepOf
  <2> QED
    BY <2>2, <2>3
<1> QED
  BY <1>1, <1>3, <1>4, <1>5 DEF CountInv

(***************************************************************************)
(* Whichever probes overlap and fail, at most one device of a bus driver   *)
(* is bound, minor_count says whether it is, and its node has the number   *)
(* of its device.                                                          *)
(***************************************************************************)
THEOREM CountsCorrect == ASSUME ModulesOnce PROVE Spec => []CountsTheOneDevice
<1>1. Init => CountInv
  BY DEF Init, CountInv, ReadAt, Bound
<1>2. RegInv /\ CountInv /\ [Next]_vars => CountInv'
  <2> SUFFICES ASSUME RegInv, CountInv, [Next]_vars
               PROVE  CountInv'
    OBVIOUS
  <2>1. CASE UNCHANGED vars
    BY <2>1 DEF vars, CountInv, ReadAt, Bound, Counter
  <2>2. ASSUME NEW r \in Registrants, StepOf(r)
        PROVE  CountInv'
    <3>1. st[r] = "counting" => DriverOf[r] \in BusDrivers
      BY DriverType DEF RegInv, LocalInv, PsdAt, PollAt, IoctlAt, ClockAt, At, BusDrivers, Drivers
    <3> QED
      BY <2>2, <3>1, CountStore, CountStep
  <2> QED
    BY <2>1, <2>2 DEF Next, StepOf
<1>3. RegInv /\ CountInv => CountsTheOneDevice
  <2> SUFFICES ASSUME RegInv, CountInv
               PROVE  CountsTheOneDevice
    OBVIOUS
  <2>1. ASSUME NEW d \in BusDrivers
        PROVE  minor_count[d] = Cardinality(Bound(d)) /\ minor_count[d] <= 1
    <3>1. CASE Bound(d) = {}
      BY <2>1, <3>1, FS_EmptySet DEF CountInv
    <3>2. CASE Bound(d) # {}
      <4>1. PICK r \in Bound(d) : TRUE
        BY <3>2
      <4>2. r \in Registrants /\ DriverOf[r] = d /\ "class" \in held[r]
        BY <2>1, <4>1, BusAt DEF Bound
      <4>3. Bound(d) = {r}
        BY <2>1, <4>1, <4>2, ClassExcludes
      <4> QED
        BY <2>1, <3>2, <4>3, FS_Singleton DEF CountInv
    <3> QED
      BY <3>1, <3>2
  <2>2. ASSUME NEW r \in Registrants, DriverOf[r] \in BusDrivers, "device" \in held[r]
        PROVE  read[r]["device"] = read[r]["region"]
    BY <2>2 DEF CountInv, ReadAt
  <2> QED
    BY <2>1, <2>2 DEF CountsTheOneDevice
<1> QED
  BY <1>1, <1>2, <1>3, RegInvariance, PTL DEF Spec
=============================================================================
