SPECIFICATION Spec
CONSTANTS
  CPUs = {bsp, ap1, ap2}
  BSP = bsp
  MAX_LOCK = 1
  MAX_THREADS64 = 2
  NUM_PRIORITIES64 = 1
  SLICE = 2
  MAX_WINDOW = 2
  MAX_IRQ = 1
SYMMETRY APs
INVARIANTS MutualExclusion CountersBalanced InterruptsOn
PROPERTY OneOwner
