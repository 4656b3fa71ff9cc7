\* Two threads, each with a file of its own; the mutex is fair.
SPECIFICATION FairSpec
CONSTANTS
  t1 = t1
  t2 = t2
  fa = fa
  fb = fb
  Threads = {t1, t2}
  Files = {fa, fb}
  FilesOf <- Private
  Bytes = {0, 1}
  Zero = 0
  DEV_MEM_SIZE = 2
  MaxCount = 2
  Offsets <- MCOffsets
  None = None
PROPERTIES
  ImplementsSeekableMemory
  ReturnsUnlessLeaked
