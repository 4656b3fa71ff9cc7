\* The three drivers and the three devices.  A fault ends the run of the system.
SPECIFICATION Spec
INVARIANTS
  TypeOK
  ProbesFindData
  NoneDangling
  ServedAsIntended
CHECK_DEADLOCK FALSE
