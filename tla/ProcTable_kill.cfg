SPECIFICATION Spec
CONSTANTS
  Proc = {init, p1, p2}
  InitProc = init
  CPU = {c1, c2}
  KillTargets = {0}
  MaxPid = 3
  NULL = NULL
INVARIANT KillMarksProcesses
