SPECIFICATION Ring3Spec
CONSTANTS
  Firmwares <- Two
  MAX_AP_CPUS = 3
  MAX_TSS_CPUS = 4
  MAX_TRACKED_CPUS = 16
  LAPIC_DEFAULT = 1
  IOAPIC_DEFAULT = 2
INVARIANT ConfirmedAlive
CHECK_DEADLOCK FALSE
