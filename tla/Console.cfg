SPECIFICATION FairSpec
CONSTANTS
  CPUs = {c1, c2}
  Strings <- Lines
  ROWS = 2
  COLS = 2
  MAX_DEPTH = 3
  FaultPoints <- Outside
INVARIANTS TypeOK Unmixed NoSelfDeadlock HandlersMasked
PROPERTY LockFreed
CHECK_DEADLOCK FALSE
