SPECIFICATION ProbeSpec
CONSTANTS
  RefreshInterval = 4
  MaxRegistrationAge = 0
  RefreshJitter = 0
  MinRefresh = 3
  MaxObserved = 1
  OneMinute = 1
  HealthInterval = 1
  UnhealthyThreshold = 2
  RecoveryCooldown = 1
  CooldownCap = 1
  BackoffMin = 2
  BackoffMax = 2
  MaxRegenAttempts = 1
  AlertAfter = 2
  PortForwarding = TRUE
  AdoptHealthy = FALSE
  Regions = {"amsterdam"}
  Faults = {"generate", "write", "restart", "answer", "pending", "crash"}
  MinCall = 0
  MaxCall = 0
  MaxTime = 10
  MaxStatusAge = 1
  MaxUnhealthy = 2
  ExpiryGrace = 4
INVARIANTS
  ProbeDetects
  ProbeQuiet
  IdleMeansApplied
PROPERTIES
  LossIsConservative
