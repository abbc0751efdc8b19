SPECIFICATION Spec
CONSTANTS
  Borrowers = {u1, u2}
  Lenders = {u2, u3}
  SuperOwners = {owner}
  NoUser = nobody
  NFTs = {n1}
  Terms = {t1}
  Durations = {0}
  ExpireDurations = {1}
  ProfileLevels = {0}
  DEFULT_SUB_OFFER_COUNT = 2
  SUB_OFFER_COUNT_PER_LEVEL = 1
  StartTime = 5
  MaxTime = 7
  MaxSubOffers = 1
PROPERTIES
  LenderTakesOnlyUnpaidCollateral
