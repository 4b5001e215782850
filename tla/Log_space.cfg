SPECIFICATION Spec
CONSTANTS
  Proc = {p1, p2, p3}
  Block = {b1, b2, b3}
  v0 = v0
  Value = {v0}
  MkfsImage <- MCImage
  LOGSIZE = 3
  MAXOPBLOCKS = 1
  NLOG = 3
  NotCached = NotCached
  Torn = Torn
  NoProc = NoProc
  MaxOps = 1
  MaxCrash = 0
SYMMETRY Symmetry
CHECK_DEADLOCK FALSE
INVARIANT NeverTooBig
