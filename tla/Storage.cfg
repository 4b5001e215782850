SPECIFICATION StorageSpec
CONSTANTS
  FsProc = {f1, f2}
  NINODES = 4
  NBLOCKS = 4
  NDIRECT = 1
  NINDIRECT = 1
  NOFILE = 1
  Calls <- FileCalls
  MaxCalls = 4
  Files <- OneFile
  NULL = NULL
  Proc = {p1, p2}
  Block = {b1, b2, b3}
  v0 = v0
  Value = {v0, v1}
  MkfsImage <- MCImage
  LOGSIZE = 4
  MAXOPBLOCKS = 2
  NLOG = 4
  NotCached = NotCached
  Torn = Torn
  NoProc = NoProc
  MaxOps = 1
  MaxCrash = 2
SYMMETRY StorageSymmetry
CHECK_DEADLOCK FALSE
INVARIANTS
  RefsExact CopyFaithful BlocksExact TreeSound NoLockCycle
  CommittedOnReturn LogInv
PROPERTY AtomicSpec
