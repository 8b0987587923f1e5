SPECIFICATION PagingFairSpec
CONSTANTS
  PAGE = 4
  LOW = 8
  MAPPED = 256
  MAX_REGIONS = 3
  POOL_FRAMES = 4
  Maps <- AllMaps
  ENTRIES = 8
  THREADS = 2
  MAX_AP_CPUS = 3
  LAPIC_DEFAULT = 992
  IOAPIC_DEFAULT = 960
  Firmwares <- AllTables
INVARIANTS UsableFrames NothingLost KernelVisible UserReach OneUse MappedBeforeUse
PROPERTIES SearchEnds OnlyBspAllocates
CHECK_DEADLOCK FALSE
