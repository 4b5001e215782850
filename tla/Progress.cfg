SPECIFICATION ProgressSpec
CONSTANTS
  Proc = {init, s1, s2}
  InitProc = init
  CPU = {c1}
  KillTargets = {2}
  MaxPid = 3
  NULL = NULL
  LogProc = {p1, p2, p3}
  Watched = {p1}
  Block = {b1}
  v0 = v0
  LOGSIZE = 3
  MAXOPBLOCKS = 1
  NLOG = 3
  NotCached = NotCached
  Torn = Torn
  NoProc = NoProc
  MaxOps = 2
  MaxCrash = 0
 
PROPERTIES InitReaps KilledExits EveryCallBegins
CHECK_DEADLOCK FALSE
