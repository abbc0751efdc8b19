SPECIFICATION FairSpec
CONSTANTS
  poolUsdc = poolUsdc
  poolWsol = poolWsol
  market1 = market1
  market2 = market2
  Pools <- MCPools
  Markets <- MCMarkets
  Programs = {serumV3, otherProgram}
  Wallets = {backend, other}
  PoolMarket <- MCPoolMarket
  PoolMint <- MCPoolMint
  MarketProgram <- MCMarketProgram
  Backend = backend
  SERUM_PROGRAM_ID_V3 = serumV3
  USDC = usdc
  WSOL = wsol
  UNLOC = unloc
  Amounts = {1, 2}
  MaxVault = 2
  MaxReserve = 3
INVARIANTS
  TypeOK
PROPERTIES
  SoldInConfiguredPool
  UsdcBoughtBack
  UnlocBurned
