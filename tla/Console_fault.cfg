SPECIFICATION Spec
CONSTANTS
  CPUs = {c1, c2}
  Strings <- Lines
  ROWS = 2
  COLS = 2
  MAX_DEPTH = 3
  FaultPoints <- Anywhere
INVARIANT NoSelfDeadlock
CHECK_DEADLOCK FALSE
