\* Three character-device modules, or combinations of them with the bus drivers,
\* also with two devices of one driver.
SPECIFICATION Spec
CONSTANTS
  r1 = r1
  r2 = r2
  r3 = r3
  Registrants = {r1, r2, r3}
  Teams <- MCTeams
  None = None
INVARIANTS
  TypeOK
  NothingElseLeftBehind
  Nested
  OopsOnlyKnown
  CompleteIfChecked
  CountsTheOneDevice
