SPECIFICATION MCSpec
CONSTANTS
  Inits <- MCInits
  Drivers <- MCDrivers
  num_outbound = 1
  num_connections = 2
  MaxFaults = 2
  ConnectionType = {"Inbound", "Outbound"}
  Capacity = 3
  MaxSends = 2
  MaxPings = 2
  MaxStalls = 1
  MaxChat = 3
INVARIANTS
  OnlyLateInitsHurt
  PongMeansProcessed
PROPERTIES
  EveryCallEnds
  SilenceHasAReason
  MethodsReturn
CHECK_DEADLOCK FALSE
