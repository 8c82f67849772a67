SPECIFICATION AdoptionSpec
CONSTANTS
  RefreshInterval = 6
  MaxRegistrationAge = 0
  RefreshJitter = 0
  MinRefresh = 3
  MaxObserved = 2
  OneMinute = 1
  HealthInterval = 1
  UnhealthyThreshold = 2
  RecoveryCooldown = 1
  CooldownCap = 2
  BackoffMin = 1
  BackoffMax = 2
  MaxRegenAttempts = 2
  AlertAfter = 2
  PortForwarding = FALSE
  AdoptHealthy = TRUE
  Regions = {"amsterdam", "berlin"}
  Faults = {"generate", "crash"}
  MinCall = 0
  MaxCall = 0
  MaxTime = 8
PROPERTIES
  AdoptsItsRegion
