\* One user, two pages of two bytes.
SPECIFICATION Spec
CONSTANTS
  Users = {u1}
  Data = {0, 1}
  Pattern = 1
  PAGE_SIZE = 2
  PAGE_COUNT = 2
  TestAddr = 1
  None = None
INVARIANT WriteRollsOverInPage
CHECK_DEADLOCK FALSE
