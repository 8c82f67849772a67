SPECIFICATION FairSpec
CONSTANTS
  AlertAfter = 2
  AlertQueueSize = 2
  FailureHook = TRUE
  RecoveredHook = TRUE
  MaxOutages = 3
  MaxFailures = 3
INVARIANTS
  TypeOK
  InOrder
PROPERTIES
  QueueDrains
