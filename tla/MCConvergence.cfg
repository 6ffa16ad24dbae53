SPECIFICATION MCSpec
CONSTANTS
  N = 3
  MinBlocks = 1
  RaceBuffer = 0
  MaxRounds = 4
  MaxFaults = 1
  CalmRounds = 3
  Pruners = {3}
  Lengths <- OnePrunedAhead
  Faulty <- PrunedAndPeerAhead
INVARIANTS
  AgreementIsReal
  ExcusedAreStuck
  NoFalseAlarm
  ConvergesUnlessUndoPruned
CHECK_DEADLOCK FALSE
