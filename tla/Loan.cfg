SPECIFICATION Spec
CONSTANTS
  Borrowers = {u1}
  Lenders = {u2, u3}
  SuperOwners = {owner, u3}
  NoUser = nobody
  NFTs = {n1}
  Terms = {t1, t2}
  Durations = {0, 1}
  ExpireDurations = {0, 1}
  ProfileLevels = {0, 1}
  DEFULT_SUB_OFFER_COUNT = 1
  SUB_OFFER_COUNT_PER_LEVEL = 1
  StartTime = 5
  MaxTime = 8
  MaxSubOffers = 2
INVARIANTS
  TypeOK
  OnLoanHasLender
PROPERTIES
  TermsFixedWhileOnLoan
  LoanClosesWithCollateral
  LendersWaitForDeadline
