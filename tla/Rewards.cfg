SPECIFICATION Spec
CONSTANTS
  SubOffers = {k1}
  Instants <- MCInstants
  StartInstant <- MCStart
  SOL = sol
  USDC = usdc
  Mints <- MCMints
  OfferMint <- MCOfferMint
  OfferAmount <- MCOfferAmount
  DecimalsAmp <- MCDecimals
  Prices = {1, 3}
  Points <- MCPoints
  RewardRates = {1, 100}
  Percentages = {40}
  Resets = {0, 5, 24}
  Denominator = 100
  Amounts = {1}
  MaxFunded = 2
  MaxStray = 1
  SHARE_PRECISION = 1
  DIFF_SOL_USDC_DECIMALS = 1
  MaxU64 = 100000
INVARIANTS
  TypeOK
  VaultHoldsRemainder
  RepaymentBlockedOnlyByStrayOrRate
  RedemptionFollowsReset
