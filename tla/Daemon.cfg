SPECIFICATION FairSpec
CONSTANTS
  Ports = {1, 2}
  PortForwarding = TRUE
  RestartContainer = TRUE
  SharedGateway = TRUE
  Faults = {"api", "read", "config", "hook", "restart", "answer", "pending", "port", "remove", "flap", "reload", "crash"}
  MaxFaults = 5
  MaxRegs = 4
INVARIANTS
  TypeOK
  PendingIsRunning
  PortFileIsLease
PROPERTIES
  PendingServed
