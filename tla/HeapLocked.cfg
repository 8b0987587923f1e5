SPECIFICATION LockedSpec
CONSTANTS
  HEAP_SIZE = 200
  Requests <- Sizes
  CPUs = {c1, c2}
  None = None
SYMMETRY Perms
PROPERTY AtomicCalls
CHECK_DEADLOCK FALSE
