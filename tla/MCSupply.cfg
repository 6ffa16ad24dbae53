SPECIFICATION SupplySpec
CONSTANTS
  NumNodes = 2
  SUBSIDY_HALVING_INTERVAL = 2
  InitialSubsidy = 8
  MaxHalvings = 6
  CommonBlocks <- MCCommonBlocks
  MaxBlocks = 2
  MaxSends = 1
  MaxRestarts = 1
INVARIANTS
  CoinsAddUp
  WalletWithinSubsidy
  SubsidiesAddUp
CHECK_DEADLOCK FALSE
