SPECIFICATION Spec
CONSTANTS
  RefreshInterval = 11
  MaxRegistrationAge = 0
  RefreshJitter = 3
  MinRefresh = 2
  MaxObserved = 1
  OneMinute = 1
  HealthInterval = 1
  UnhealthyThreshold = 1
  RecoveryCooldown = 2
  CooldownCap = 4
  BackoffMin = 1
  BackoffMax = 2
  MaxRegenAttempts = 2
  AlertAfter = 2
  PortForwarding = FALSE
  AdoptHealthy = FALSE
  Regions = {"amsterdam"}
  Faults = {"flap"}
  MinCall = 1
  MaxCall = 1
  MaxTime = 16
INVARIANTS
  DeadTunnelReplaced
  RefreshBeforeExpiry
PROPERTIES
  RegistrationsSpaced
