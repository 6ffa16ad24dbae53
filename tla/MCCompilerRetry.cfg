SPECIFICATION MCSpec
CONSTANTS
  Operation <- MCOperation
  num_nodes = 1
  num_connections = 2
  MaxInputs = 0
  MaxInstructions = 26
  MaxErrors = 2
  Second = {0, 1}
  Subjects = {"addresses"}
  MaxAppends <- FewAppends
INVARIANTS
  TracksCompiledInstructions
CHECK_DEADLOCK FALSE
