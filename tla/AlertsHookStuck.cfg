SPECIFICATION FairSpec
CONSTANTS
  AlertAfter = 2
  AlertQueueSize = 2
  FailureHook = TRUE
  RecoveredHook = TRUE
  MaxOutages = 1
  MaxFailures = 3
PROPERTIES
  HookTimeoutIsHard
