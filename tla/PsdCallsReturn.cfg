\* The mutex that psd_write leaves locked.
SPECIFICATION FairSpec
CONSTANTS
  t1 = t1
  t2 = t2
  fa = fa
  fb = fb
  Threads = {t1, t2}
  Files = {fa}
  FilesOf <- Shared
  Bytes = {0}
  Zero = 0
  DEV_MEM_SIZE = 2
  MaxCount = 2
  Offsets = {0}
  None = None
PROPERTY CallsReturn
