SPECIFICATION HistorySpec
CONSTANTS
  Users = {1, 2}
  ACC_PRECISION = 2
  U32_RANGE = 2
  Points = {1}
  Rates = {3}
  Fees = {1}
  LevelConfigs <- MCLevels
  RewardConfigs <- MCOneTier
  InitialWallets <- MCWallets
  InitialReward = 1
  StartTime = 1
  MaxTime = 3
INVARIANTS
  EmissionBound
  
  DebtCovered
PROPERTIES
  OwedUntouched
  EstimateNeverFalls
CHECK_DEADLOCK FALSE
