SPECIFICATION MCSpec
CONSTANTS
  Block <- MCBlock
  MaxHeight = 5
  MaxMoves = 2
  Confirmed <- MCConfirmed
  Mempool <- MCMempool
  MAX_INPUTS = 2
  MAX_OUTPUTS = 2
  MaxTotal = 3
  MaxConfirmations = 1
  HOSTNAME = "node2"
  Archival = "node1"
  TUNABLES = {"dbcache", "par"}
  known = {"prune", "fastprune", "txindex"}
  Values = {1, 550}
  Weights = {0, 50}
  MaxBoots = 4
INVARIANTS
  FindsForkHeight
  PoolAccounting
  RejectedIfCorrupted
  OnePersonality
PROPERTIES
  Terminates
CHECK_DEADLOCK FALSE
