SPECIFICATION FairSpec
CONSTANTS
  Ports = {1, 2}
  PortForwarding = TRUE
  RestartContainer = TRUE
  SharedGateway = FALSE
  Faults = {"pending"}
  MaxFaults = 1
  MaxRegs = 2
PROPERTIES
  Rejoins
