SPECIFICATION Spec
CONSTANTS
  RefreshInterval = 5
  MaxRegistrationAge = 0
  RefreshJitter = 0
  MinRefresh = 5
  MaxObserved = 1
  OneMinute = 1
  HealthInterval = 1
  UnhealthyThreshold = 1
  RecoveryCooldown = 2
  CooldownCap = 2
  BackoffMin = 1
  BackoffMax = 1
  MaxRegenAttempts = 2
  AlertAfter = 0
  PortForwarding = FALSE
  AdoptHealthy = TRUE
  Regions = {"amsterdam"}
  Faults = {}
  MinCall = 1
  MaxCall = 2
  MaxTime = 12
PROPERTIES
  NoStaleTimer
