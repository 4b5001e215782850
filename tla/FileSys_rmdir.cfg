SPECIFICATION FsSpec
CONSTANTS
  Proc = {p1}
  NINODES = 3
  NBLOCKS = 3
  NDIRECT = 1
  NINDIRECT = 1
  NOFILE = 1
  Calls <- DirCalls
  MaxCalls = 6
  Files <- NoFiles
  NULL = NULL
INVARIANT IlockFindsType
