SPECIFICATION Spec
CONSTANTS
  Users = {1}
  ACC_PRECISION = 2
  U32_RANGE = 2
  Points = {0, 1}
  Rates = {0, 1}
  Fees = {0, 1, 2}
  LevelConfigs <- MCLevelsChanging
  RewardConfigs <- MCTiersChanging
  InitialWallets <- MCWallet
  InitialReward = 2
  StartTime = 1
  MaxTime = 3
INVARIANTS
  TypeOK
  PointsAgree
  
  NoLevelWithoutStake
PROPERTIES
  UnlockNeverEarlier
  EstimateIsHarvested
CHECK_DEADLOCK FALSE
