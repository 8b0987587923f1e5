SPECIFICATION Spec
CONSTANTS
  HEAP_SIZE = 250
  Requests <- Sizes
  CPUs = {c1, c2}
SYMMETRY Perms
INVARIANTS Tiling MagicExact Coalesced Recovered
PROPERTY Promise
CHECK_DEADLOCK FALSE
