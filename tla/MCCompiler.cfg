SPECIFICATION MCSpec
CONSTANTS
  Operation <- MCOperation
  num_nodes = 1
  num_connections = 2
  MaxInputs = 0
  MaxInstructions = 26
  MaxErrors = 1
  Second = {0, 1}
  Subjects = {"addresses", "outputs", "blocks"}
  MaxAppends <- FewAppends
INVARIANTS
  Aligned
  SentExactlyOnce
  TakesRotate
  MetadataPointsRight
CHECK_DEADLOCK FALSE
