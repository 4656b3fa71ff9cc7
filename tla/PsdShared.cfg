\* Two threads, one file.
SPECIFICATION Spec
CONSTANTS
  t1 = t1
  t2 = t2
  fa = fa
  fb = fb
  Threads = {t1, t2}
  Files = {fa}
  FilesOf <- Shared
  Bytes = {0, 1}
  Zero = 0
  DEV_MEM_SIZE = 2
  MaxCount = 3
  Offsets <- MCOffsets
  None = None
SYMMETRY Symmetry
INVARIANTS
  TypeOK
  AccessInBounds
  CopiesAreIsolated
PROPERTIES
  LeakOnlyByEmptyWrite
  LostOnlyIfOvertaken
