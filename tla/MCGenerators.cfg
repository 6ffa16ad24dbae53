SPECIFICATION MCSpec
CONSTANTS
  Operation <- GeneratedOperation
  num_nodes = 1
  num_connections = 2
  num_outbound = 1
  num_inbound = 1
  MaxInputs = 0
  MaxInstructions = 0
  MaxErrors = 1
  Second = {0, 1}
  Txos = {1}
  Headers = {5}
  OutputTypes = 
    { "PayToTaproot", "PayToWitnessScriptHash", "PayToScriptHash", "PayToAnchor",
      "PayToPubKey", "PayToPubKeyHash", "PayToWitnessPubKeyHash", "OpReturn" }
  MaxPicks = 1
  ChainLength = 2
  Requests <- EveryRequest
  MaxRequests = 2
  MaxFaults = 2
INVARIANTS
  GeneratedProgramsCompile
  ProgramIsWhole
  OwnOutputsSpentOnce
  RewritesAreValid
  SpendsResolve
  SentOncePerInstruction
  RecentBlockIsReal
  ConnectionsInPlace
CHECK_DEADLOCK FALSE
