SPECIFICATION Spec
CONSTANTS
  RefreshInterval = 5
  MaxRegistrationAge = 0
  RefreshJitter = 0
  MinRefresh = 5
  MaxObserved = 2
  OneMinute = 1
  HealthInterval = 1
  UnhealthyThreshold = 2
  RecoveryCooldown = 2
  CooldownCap = 2
  BackoffMin = 1
  BackoffMax = 1
  MaxRegenAttempts = 2
  AlertAfter = 2
  PortForwarding = TRUE
  AdoptHealthy = TRUE
  Regions = {"amsterdam"}
  Faults = {"generate", "leak", "write", "record", "pending", "restart", "answer", "status", "flap", "blind", "reload", "crash"}
  MinCall = 1
  MaxCall = 2
  MaxTime = 9
INVARIANTS
  TypeOK
  ConfigIsNewest
  MismatchIsBounded
PROPERTIES
  RegistrarSpec
  YoungRegistrationKept
