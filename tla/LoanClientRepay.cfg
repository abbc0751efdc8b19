SPECIFICATION PersistentSpec
CONSTANTS
  Borrowers = {u1}
  Lenders = {u2}
  SuperOwners = {u2}
  NoUser = nobody
  NFTs = {n1}
  Mints <- MCOnlySol
  WSOL_MINT <- WSOL
  Terms <- MCSolTerms
  Durations = {0}
  ExpireDurations = {0}
  ProfileLevels = {0}
  DEFULT_SUB_OFFER_COUNT = 1
  SUB_OFFER_COUNT_PER_LEVEL = 1
  StartTime = 5
  MaxTime = 5
  MaxSubOffers = 1
  TreasuryWallets = {w1, w2}
  Functions = {"createLoanSubOfferByStaking", "acceptLoanOffer", "repayLoan"}
  Tries = {1}
PROPERTIES
  RepaymentGetsThrough
