SPECIFICATION Spec
CONSTANTS
  Proc = {p0, p1, p2}
  InitProc = p0
  File = {f1}
  FD = {0}
  NVMA = 2
  MAXVA = 3
  TOP = 5
  FSIZE = 2
  BootSize = 1
  OpenModes = {TRUE, FALSE}
  MapLens = {2}
  Prots <- WriteOnly
  Ranges <- SmallRanges
  SbrkDeltas = {}
  ExecSizes = {}
  Caller = {p0, p1}
  Touched = {1, 2}
  NULL = NULL
PROPERTY MunmapWritesBack
CHECK_DEADLOCK FALSE
