SPECIFICATION Ring3FairSpec
CONSTANTS
  Firmwares <- Machines
  MAX_AP_CPUS = 3
  MAX_TSS_CPUS = 4
  MAX_TRACKED_CPUS = 16
  LAPIC_DEFAULT = 1
  IOAPIC_DEFAULT = 2
INVARIANTS OwnStack CountExact Ring3Stack
PROPERTY BringUpEnds
CHECK_DEADLOCK FALSE
