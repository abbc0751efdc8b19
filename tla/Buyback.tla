------------------------------ MODULE Buyback ------------------------------
(***************************************************************************)
(* programs/unloc-burn and the backend job of client/src/buyback-burn that *)
(* drives it: fees collected in USDC and SOL are swapped for UNLOC in the  *)
(* configured Raydium pool, and the UNLOC collected is burnt.              *)
(*                                                                         *)
(* The job reads the configuration, derives the pool's accounts from the   *)
(* market and sends the swap; the configuration may change in between.     *)
(* Pools and markets are external: a pool refuses accounts that do not     *)
(* belong together, and what it pays is any amount, because buyback asks   *)
(* for a minimum of 0.                                                     *)
(***************************************************************************)
EXTENDS Integers

CONSTANTS
  Pools, Markets, Programs, Wallets,   \* accounts that may be configured
  PoolMarket, PoolMint,        \* each pool's market, and what it trades for UNLOC
  MarketProgram,               \* the Serum program each market belongs to
  Backend,                     \* the wallet the job signs with
  SERUM_PROGRAM_ID_V3,         \* the Serum program the job names
  USDC, WSOL, UNLOC,
  Amounts,                     \* of fees, of payments by a pool and of other trades
  MaxVault, MaxReserve         \* bounds on vaults and reserves

Sources == {USDC, WSOL}
Mints == Sources \cup {UNLOC}

ASSUME BuybackAssumption ==
  /\ PoolMarket \in [Pools -> Markets] /\ PoolMint \in [Pools -> Sources]
  /\ MarketProgram \in [Markets -> Programs]
  /\ Backend \in Wallets /\ SERUM_PROGRAM_ID_V3 \in Programs
  /\ USDC # WSOL /\ UNLOC \notin Sources
  /\ Amounts \subseteq Nat \ {0}
  /\ MaxVault \in Nat /\ MaxReserve \in Nat

VARIABLES
  global_state,                \* GlobalState of unloc-burn
  vault,                       \* usdc_vault, wsol_vault and unloc_vault
  pool,                        \* what each pool holds of the token it trades for UNLOC
  read                         \* what the job read and has not used: a set

vars == <<global_state, vault, pool, read>>

GlobalStateAccount ==
  [burner : Wallets, amm : Pools, serum_program : Programs, serum_market : Markets]
Configuration == [amm : Pools, serum_market : Markets]

TypeOK ==
  /\ global_state \in GlobalStateAccount
  /\ vault \in [Mints -> Nat]
  /\ pool \in [Pools -> Nat]
  /\ read \subseteq Configuration

(* create_global_state takes whatever accounts it is given.                *)
Init ==
  /\ global_state \in GlobalStateAccount
  /\ vault = [m \in Mints |-> 0]
  /\ pool = [p \in Pools |-> 0]
  /\ read = {}

-----------------------------------------------------------------------------
(* The program.                                                            *)

(* Faulty variant: has_one = amm is missing, so the caller names the pool. *)
BuybackAcceptedAnyPool(wallet, m, amm, program, market) ==
  /\ wallet = global_state.burner
  /\ program = global_state.serum_program
  /\ market = PoolMarket[amm] /\ program = MarketProgram[market]
  /\ m = PoolMint[amm]
  /\ vault[m] > 0

(* The constraints on the accounts, and what the pool asks of a swap: its  *)
(* own market of that market's program, its own token and something to     *)
(* sell.                                                                   *)
BuybackAccepted(wallet, m, amm, program, market) ==
  /\ wallet = global_state.burner
  /\ amm = global_state.amm
  /\ program = global_state.serum_program
  /\ market = global_state.serum_market
  /\ market = PoolMarket[amm] /\ program = MarketProgram[market]
  /\ m = PoolMint[amm]
  /\ vault[m] > 0

(* Model bound: what a pool pays.                                          *)
Payments == {out \in Amounts \cup {0} : vault[UNLOC] + out <= MaxVault}

(* Sells everything the vault holds for whatever it brings.                *)
Buyback(m, amm) ==
  /\ pool' = [pool EXCEPT ![amm] = pool[amm] + vault[m]]
  /\ \E out \in Payments :
       vault' = [vault EXCEPT ![m] = 0, ![UNLOC] = vault[UNLOC] + out]

(* Faulty variant: the accounts, all of one type in the code, are stored   *)
(* in the wrong order.                                                     *)
UpdateGlobalStateSwapped(burner, amm, program, market) ==
  /\ global_state' = [burner |-> burner, amm |-> market,
                      serum_program |-> program, serum_market |-> amm]
  /\ UNCHANGED <<vault, pool, read>>

UpdateGlobalState(burner, amm, program, market) ==
  /\ global_state' = [burner |-> burner, amm |-> amm,
                      serum_program |-> program, serum_market |-> market]
  /\ UNCHANGED <<vault, pool, read>>

-----------------------------------------------------------------------------
(* The job.                                                                *)

BuybackFetch ==
  /\ read = {}
  /\ read' = {[amm |-> global_state.amm, serum_market |-> global_state.serum_market]}
  /\ UNCHANGED <<global_state, vault, pool>>

(* Faulty variant: after a refused swap the job tries with what it read.   *)
BuybackSendAgain ==
  /\ \E c \in read :
       /\ BuybackAccepted(Backend, USDC, c.amm, SERUM_PROGRAM_ID_V3, c.serum_market)
       /\ Buyback(USDC, c.amm)
  /\ read' = {}
  /\ UNCHANGED global_state

(* The job always names the USDC vault and, by the default of its second   *)
(* argument, one Serum program, whichever is configured.  A swap that is   *)
(* refused is lost until the job runs again.                               *)
BuybackSend ==
  /\ \E c \in read :
       IF BuybackAccepted(Backend, USDC, c.amm, SERUM_PROGRAM_ID_V3, c.serum_market)
       THEN Buyback(USDC, c.amm) ELSE UNCHANGED <<vault, pool>>
  /\ read' = {}
  /\ UNCHANGED global_state

(* Faulty variant: one token is burnt at a time and the rest stays.        *)
BurnOne ==
  /\ global_state.burner = Backend
  /\ vault[UNLOC] > 1
  /\ vault' = [vault EXCEPT ![UNLOC] = vault[UNLOC] - 1]
  /\ UNCHANGED <<global_state, pool, read>>

Burn ==
  /\ global_state.burner = Backend
  /\ vault' = [vault EXCEPT ![UNLOC] = 0]
  /\ UNCHANGED <<global_state, pool, read>>

-----------------------------------------------------------------------------
(* The environment: fees, a burner that calls the program by itself, and   *)
(* other traders.                                                          *)

(* Model bound: what a pool holds, or is about to be sold.                 *)
WithinBounds(m, n) ==
  \A p \in Pools : PoolMint[p] = m => pool[p] + vault[m] + n <= MaxReserve

CollectFees(m, n) ==
  /\ vault[m] + n <= MaxVault /\ WithinBounds(m, n)          \* model bounds
  /\ vault' = [vault EXCEPT ![m] = vault[m] + n]
  /\ UNCHANGED <<global_state, pool, read>>

DirectBuyback(m) ==
  /\ BuybackAccepted(global_state.burner, m, global_state.amm,
                     global_state.serum_program, global_state.serum_market)
  /\ Buyback(m, global_state.amm)
  /\ UNCHANGED <<global_state, read>>

Trade(p, n) ==
  /\ \/ WithinBounds(PoolMint[p], n) /\ pool' = [pool EXCEPT ![p] = pool[p] + n]
     \/ n <= pool[p] /\ pool' = [pool EXCEPT ![p] = pool[p] - n]
  /\ UNCHANGED <<global_state, vault, read>>

Next ==
  \/ \E burner \in Wallets, amm \in Pools, program \in Programs, market \in Markets :
       UpdateGlobalState(burner, amm, program, market)
  \/ BuybackFetch \/ BuybackSend \/ Burn
  \/ \E m \in Mints, n \in Amounts : CollectFees(m, n)
  \/ \E m \in Sources : DirectBuyback(m)
  \/ \E p \in Pools, n \in Amounts : Trade(p, n)

Spec == Init /\ [][Next]_vars

(* "backend api will call this function regularly" (main.ts:129 and 147):  *)
(* the job comes to each of its steps again and again.                     *)
JobFairness == WF_vars(BuybackFetch) /\ WF_vars(BuybackSend) /\ WF_vars(Burn)

FairSpec == Spec /\ JobFairness

-----------------------------------------------------------------------------
(* Properties.                                                             *)

(* However the configuration changes between the job's read and its swap,  *)
(* fees are sold only in the pool that is configured when they are.        *)
SoldInConfiguredPool ==
  [][\A m \in Sources : vault'[m] < vault[m] =>
       /\ m = PoolMint[global_state.amm]
       /\ \A p \in Pools \ {global_state.amm} : pool'[p] = pool[p]]_vars

(* The job may sign, and pool, market and the program the job names belong *)
(* together.                                                               *)
JobMaySwap ==
  /\ global_state.burner = Backend
  /\ global_state.serum_program = SERUM_PROGRAM_ID_V3
  /\ MarketProgram[global_state.serum_market] = SERUM_PROGRAM_ID_V3
  /\ PoolMarket[global_state.amm] = global_state.serum_market

Settled == <>[][UNCHANGED global_state]_vars

(* Once a configuration the job can use is left alone, the USDC collected  *)
(* is sold, whatever swaps failed before on what the job had read.         *)
UsdcBoughtBack ==
  Settled /\ <>[](JobMaySwap /\ PoolMint[global_state.amm] = USDC)
    => []<>(vault[USDC] = 0)

(* UNLOC, collected or bought, is burnt as long as the job may burn.       *)
UnlocBurned == <>[](global_state.burner = Backend) => []<>(vault[UNLOC] = 0)

(* README.md:360: "Contract buybacks SOL/USDC tokens to UNLOC via Raydium  *)
(* & Serum regularly".  SOL collected is sold where the configured pool    *)
(* trades it and the job may swap there.                                   *)
WsolBoughtBack ==
  Settled /\ <>[](JobMaySwap /\ PoolMint[global_state.amm] = WSOL)
    => []<>(vault[WSOL] = 0)
=============================================================================
