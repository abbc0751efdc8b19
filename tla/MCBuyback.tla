----------------------------- MODULE MCBuyback -----------------------------
(* A small instance of Buyback: one pool for each source, whose markets    *)
(* belong to the program the job names, and another program that may be    *)
(* configured.                                                             *)
EXTENDS Buyback

CONSTANTS poolUsdc, poolWsol, market1, market2

MCPools == {poolUsdc, poolWsol}
MCMarkets == {market1, market2}
MCPoolMarket == [p \in Pools |-> IF p = poolUsdc THEN market1 ELSE market2]
MCPoolMint == [p \in Pools |-> IF p = poolUsdc THEN USDC ELSE WSOL]
MCMarketProgram == [k \in Markets |-> SERUM_PROGRAM_ID_V3]
=============================================================================
