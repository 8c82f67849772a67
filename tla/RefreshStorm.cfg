SPECIFICATION Spec
CONSTANTS
  RefreshInterval = 4
  MaxRegistrationAge = 0
  RefreshJitter = 0
  MinRefresh = 3
  MaxObserved = 2
  OneMinute = 1
  HealthInterval = 1
  UnhealthyThreshold = 2
  RecoveryCooldown = 2
  CooldownCap = 2
  BackoffMin = 1
  BackoffMax = 2
  MaxRegenAttempts = 2
  AlertAfter = 2
  PortForwarding = TRUE
  AdoptHealthy = TRUE
  Regions = {"amsterdam"}
  Faults = {"restart"}
  MinCall = 0
  MaxCall = 0
  MaxTime = 10
PROPERTIES
  RegistrationsSpaced
