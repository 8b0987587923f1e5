SPECIFICATION FairSpec
CONSTANTS
  CPUs = {bsp}
  BSP = bsp
  MAX_LOCK = 2
  MAX_THREADS64 = 3
  NUM_PRIORITIES64 = 2
  SLICE = 2
  MAX_WINDOW = 1
  MAX_IRQ = 2
INVARIANTS TypeOK NoSelfDeadlock NoStaleDispatch OwnAddressSpace
PROPERTIES TakesTurns EveryTopThreadRuns LockReleased
