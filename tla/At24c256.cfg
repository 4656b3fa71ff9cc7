\* Two users, two bytes.
SPECIFICATION Spec
CONSTANTS
  Users = {u1, u2}
  Data = {0, 1}
  Pattern = 1
  PAGE_SIZE = 1
  PAGE_COUNT = 2
  TestAddr = 1
  None = None
SYMMETRY Symmetry
INVARIANTS
  TypeOK
  CallsHaveData
  AdvancesOncePerCall
  ProbePreservesMemory
CHECK_DEADLOCK FALSE
