SPECIFICATION MCSpec
CONSTANTS
  N = 3
  MinBlocks = 1
  RaceBuffer = 0
  MaxRounds = 6
  MaxFaults = 0
  CalmRounds = 5
  Pruners = {2,3}
  Lengths <- TwoPrunedAhead
  Faulty = {}
INVARIANTS
  ConvergesUnlessUndoPruned
CHECK_DEADLOCK FALSE
