SPECIFICATION Spec
CONSTANTS
  Proc = {p0, p1, p2}
  InitProc = p0
  File = {f1}
  FD = {0}
  NVMA = 2
  MAXVA = 3
  TOP = 5
  FSIZE = 1
  BootSize = 1
  OpenModes = {TRUE, FALSE}
  MapLens = {1}
  Prots <- WriteOnly
  Ranges <- SmallRanges
  SbrkDeltas <- GrowShrink
  ExecSizes = {3}
  Caller = {p0, p1}
  Touched = {1, 3}
  NULL = NULL
INVARIANT NoMemoryCrash
CHECK_DEADLOCK FALSE
