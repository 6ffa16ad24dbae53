SPECIFICATION Spec
CONSTANTS
  Operation <- MCOperation
  num_nodes = 1
  num_connections = 1
  MaxInputs = 2
  MaxInstructions = 5
INVARIANTS
  ScopeInv
  NeverPanics
  RoundTrip
PROPERTIES
  OutOfScopeForever
  ImplementsLexicalScoping
CHECK_DEADLOCK FALSE
