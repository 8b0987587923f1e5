SPECIFICATION Spec
CONSTANTS
  CPUs = {bsp, ap1}
  BSP = bsp
  MAX_LOCK = 1
  MAX_THREADS64 = 2
  NUM_PRIORITIES64 = 1
  SLICE = 2
  MAX_WINDOW = 1
  MAX_IRQ = 1
INVARIANT NoStaleDispatch
