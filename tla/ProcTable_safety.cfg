SPECIFICATION Spec
CONSTANTS
  Proc = {init, p1, p2, p3}
  InitProc = init
  CPU = {c1, c2}
  KillTargets = {2, 3}
  MaxPid = 4
  NULL = NULL
SYMMETRY Symmetry
INVARIANTS OneCpu FreedOffCpu NoLostChildWakeup ParentAlive
