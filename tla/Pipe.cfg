SPECIFICATION FairSpec
CONSTANTS
  Proc = {p1, p2}
  Byte = {x, y}
  PIPESIZE = 2
  WRAP = 4
  MaxCount = 2
  NULL = NULL
INVARIANTS NoUseAfterFree SleepersHaveReason
PROPERTIES FifoSpec HangUp
CHECK_DEADLOCK FALSE
