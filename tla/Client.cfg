SPECIFICATION FairSpec
CONSTANTS
  Names <- MCNames
  Configs <- MCConfigs
  Lists <- MCLists
  TTL = 4
  Skew = 1
  PIALife = 8
  MaxCall = 2
  Faults = {"list", "fetch", "limit", "addKey", "answer", "cache", "lose", "revoke", "relist", "crash"}
  MaxFaults = 3
INVARIANTS
  TypeOK
  TokenAliveAtUse
  PanicNeedsEmptyRegion
PROPERTIES
  FetchesSpaced
  RegistersAgain
