\* Two threads on one file, pages of 2 bytes, a window of 2, a flash of 10.
SPECIFICATION FairSpec
CONSTANTS
  Threads = {"t1", "t2"}
  Files = {"f1"}
  Counts = {4}
  Offsets <- MCOffsets
  PAGE = 2
  WINDOW = 2
  TOTAL = 10
INVARIANTS
  TypeOK
  PiecesInBuffer
  PiecesInOrder
  AcceptedUnlessRaced
  LeakOnlyOnFault
  EndOnlyAfterSeek
PROPERTY SomeCallReturns
