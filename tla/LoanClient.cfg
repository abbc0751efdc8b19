SPECIFICATION ClientSpec
CONSTANTS
  Borrowers = {u1}
  Lenders = {u2}
  SuperOwners = {u2}
  NoUser = nobody
  NFTs = {n1}
  Mints <- MCMints
  WSOL_MINT <- WSOL
  Terms <- MCTerms
  Durations = {0}
  ExpireDurations = {0}
  ProfileLevels = {0}
  DEFULT_SUB_OFFER_COUNT = 1
  SUB_OFFER_COUNT_PER_LEVEL = 1
  StartTime = 5
  MaxTime = 6
  MaxSubOffers = 1
  TreasuryWallets = {w1}
  Functions = {"createLoanSubOffer", "updateLoanSubOffer", "deleteLoanSubOffer", "acceptLoanOffer", "claimLoanCollateral", "claimExpiredCollateral"}
  Tries = {1}
PROPERTIES
  LentInCurrencyRead
