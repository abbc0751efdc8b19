SPECIFICATION Spec
CONSTANTS
  SubOffers = {k1}
  Terms <- MCTerms
  Rates <- MCRates
  SecondsForYear = 3
  MaxU64 = 100
  InitialBalance = 40
  OutsideBalances = {0, 30, 60}
  MaxRepaid = 20
  MaxTime = 4
INVARIANTS
  TypeOK
  WaitingNeverCheaper
  ShareOfInterestIsLenders
PROPERTIES
  RepaidAsAgreed
