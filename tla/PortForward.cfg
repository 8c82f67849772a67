SPECIFICATION FairSpec
CONSTANTS
  Ports = {1, 2}
  SharedGateway = TRUE
  Faults = {"api", "bind", "renew", "write", "flap", "restart"}
  MaxFaults = 3
  MaxRegs = 3
INVARIANTS
  TypeOK
  PublishedIsForwarded
PROPERTIES
  LeaseNotReacquired
  PortComesBack
