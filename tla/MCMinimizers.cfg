SPECIFICATION MinimizersSpec
CONSTANTS
  Operation <- MCOperation
  SpliceWith <- MCSpliceWith
  num_nodes = 1
  num_connections = 1
  MaxInputs = 2
  MaxInstructions = 6
INVARIANTS
  NothingLeftUntried
  BlocksStayWhole
  SplicesIntact
PROPERTIES
  ImplementsMinimization
  MinimizationEnds
  NopsLeaveNoTrace
CHECK_DEADLOCK FALSE
