SPECIFICATION FairSpec32
CONSTANTS
  MAX_THREADS = 5
  NUM_PRIORITIES = 3
INVARIANTS RunsCurrent
PROPERTIES TakesTurns TopThreadsRun
CHECK_DEADLOCK FALSE
