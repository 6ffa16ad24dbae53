SPECIFICATION SupplySpec
CONSTANTS
  NumNodes = 2
  SUBSIDY_HALVING_INTERVAL = 2
  InitialSubsidy = 8
  MaxHalvings = 6
  CommonBlocks <- MCCommonBlocks
  MaxBlocks = 0
  MaxSends = 1
  MaxRestarts = 0
INVARIANT
  CoinsDoNotExceedSubsidy
CHECK_DEADLOCK FALSE
