--------------------------- MODULE BuybackProofs ---------------------------
(***************************************************************************)
(* The buyback program for any number of pools, markets, programs and      *)
(* wallets and any amounts: fees are sold only in the configured pool,     *)
(* and the job is served as long as the configuration is one it can use.   *)
(***************************************************************************)
EXTENDS Buyback, TLAPS

USE BuybackAssumption

(* What every step keeps of vaults and pools, and which pool a swap names. *)
BalancesTyped == vault \in [Mints -> Nat] /\ pool \in [Pools -> Nat]

VaultsKeep ==
  \A m \in Sources : vault'[m] < vault[m] =>
    /\ m = PoolMint[global_state.amm]
    /\ \A p \in Pools \ {global_state.amm} : pool'[p] = pool[p]

-----------------------------------------------------------------------------
(* One swap.                                                               *)

(* It empties the vault it sells, leaves the other source alone and        *)
(* touches one pool.                                                       *)
LEMMA BuybackStep ==
  ASSUME TypeOK, NEW m \in Sources, NEW amm \in Pools, Buyback(m, amm)
  PROVE  /\ BalancesTyped'
         /\ vault'[m] = 0
         /\ \A o \in Sources \ {m} : vault'[o] = vault[o]
         /\ \A p \in Pools \ {amm} : pool'[p] = pool[p]
<1>1. vault \in [Mints -> Nat] /\ pool \in [Pools -> Nat] BY DEF TypeOK
<1>2. m \in Mints /\ UNLOC \in Mints /\ m # UNLOC BY DEF Mints
<1>3. PICK out \in Payments :
        vault' = [vault EXCEPT ![m] = 0, ![UNLOC] = vault[UNLOC] + out]
  BY DEF Buyback
<1>4. out \in Nat /\ vault[UNLOC] \in Nat /\ vault[m] \in Nat
  BY <1>1, <1>2 DEF Payments
<1>5. vault[UNLOC] + out \in Nat BY <1>4
<1>6. vault' \in [Mints -> Nat] BY <1>1, <1>2, <1>3, <1>5
<1>7. vault'[m] = 0 BY <1>1, <1>2, <1>3
<1>8. pool' = [pool EXCEPT ![amm] = pool[amm] + vault[m]] BY DEF Buyback
<1>9. pool[amm] + vault[m] \in Nat BY <1>1, <1>4
<1>10. pool' \in [Pools -> Nat] BY <1>1, <1>8, <1>9
<1>11. ASSUME NEW o \in Sources \ {m} PROVE vault'[o] = vault[o]
  BY <1>1, <1>2, <1>3 DEF Mints
<1>12. ASSUME NEW p \in Pools \ {amm} PROVE pool'[p] = pool[p] BY <1>1, <1>8
<1> QED BY <1>6, <1>7, <1>10, <1>11, <1>12 DEF BalancesTyped

LEMMA AcceptedBuyback ==
  ASSUME TypeOK, NEW wallet, NEW m \in Sources, NEW amm, NEW program, NEW market,
         BuybackAccepted(wallet, m, amm, program, market), Buyback(m, amm)
  PROVE  BalancesTyped' /\ VaultsKeep
<1>1. amm = global_state.amm /\ m = PoolMint[amm] BY DEF BuybackAccepted
<1>2. amm \in Pools BY <1>1 DEF TypeOK, GlobalStateAccount
<1>3. /\ BalancesTyped'
      /\ \A o \in Sources \ {m} : vault'[o] = vault[o]
      /\ \A p \in Pools \ {amm} : pool'[p] = pool[p]
  BY <1>2, BuybackStep
<1>4. ASSUME NEW o \in Sources, vault'[o] < vault[o] PROVE o = m
  <2>1. vault[o] \in Nat BY DEF TypeOK, Mints
  <2> QED BY <1>3, <1>4, <2>1
<1>5. VaultsKeep BY <1>1, <1>3, <1>4 DEF VaultsKeep
<1> QED BY <1>3, <1>5

LEMMA VaultUnchanged ==
  ASSUME TypeOK, UNCHANGED <<vault, pool>>
  PROVE  BalancesTyped' /\ VaultsKeep
<1>1. \A m \in Sources : vault[m] \in Nat BY DEF TypeOK, Mints
<1> QED BY <1>1 DEF TypeOK, BalancesTyped, VaultsKeep

-----------------------------------------------------------------------------
(* Every step.                                                             *)

LEMMA StepKeeps ==
  ASSUME TypeOK, [Next]_vars
  PROVE  BalancesTyped' /\ VaultsKeep
<1>0. vault \in [Mints -> Nat] /\ pool \in [Pools -> Nat] BY DEF TypeOK
<1>1. ASSUME NEW b \in Wallets, NEW p \in Pools, NEW g \in Programs, NEW k \in Markets,
             UpdateGlobalState(b, p, g, k)
      PROVE BalancesTyped' /\ VaultsKeep
  BY <1>1, VaultUnchanged DEF UpdateGlobalState
<1>2. CASE BuybackFetch BY <1>2, VaultUnchanged DEF BuybackFetch
<1>3. CASE BuybackSend
  <2> DEFINE Accepted(c) ==
        BuybackAccepted(Backend, USDC, c.amm, SERUM_PROGRAM_ID_V3, c.serum_market)
  <2>1. PICK c \in read :
          IF Accepted(c) THEN Buyback(USDC, c.amm) ELSE UNCHANGED <<vault, pool>>
    BY <1>3 DEF BuybackSend
  <2>2. USDC \in Sources BY DEF Sources
  <2>3. CASE Accepted(c) BY <2>1, <2>2, <2>3, AcceptedBuyback
  <2>4. CASE ~Accepted(c) BY <2>1, <2>4, VaultUnchanged
  <2> QED BY <2>3, <2>4
<1>4. CASE Burn
  <2>1. vault' = [vault EXCEPT ![UNLOC] = 0] /\ pool' = pool BY <1>4 DEF Burn
  <2>2. BalancesTyped' BY <1>0, <2>1 DEF BalancesTyped
  <2>3. \A m \in Sources : vault'[m] = vault[m] /\ vault[m] \in Nat
    BY <1>0, <2>1 DEF Mints
  <2>4. VaultsKeep BY <2>3 DEF VaultsKeep
  <2> QED BY <2>2, <2>4
<1>5. ASSUME NEW m \in Mints, NEW n \in Amounts, CollectFees(m, n)
      PROVE BalancesTyped' /\ VaultsKeep
  <2>1. vault' = [vault EXCEPT ![m] = vault[m] + n] /\ pool' = pool
    BY <1>5 DEF CollectFees
  <2>2. vault[m] + n \in Nat /\ vault[m] + n >= vault[m] BY <1>0
  <2>3. vault' \in [Mints -> Nat] BY <1>0, <2>1, <2>2
  <2>4. \A o \in Sources : vault'[o] >= vault[o] /\ vault[o] \in Nat /\ vault'[o] \in Nat
    BY <1>0, <2>1, <2>2, <2>3 DEF Mints
  <2>5. VaultsKeep BY <2>4 DEF VaultsKeep
  <2> QED BY <1>0, <2>1, <2>3, <2>5 DEF BalancesTyped
<1>6. ASSUME NEW m \in Sources, DirectBuyback(m)
      PROVE BalancesTyped' /\ VaultsKeep
  BY <1>6, AcceptedBuyback DEF DirectBuyback
<1>7. ASSUME NEW p \in Pools, NEW n \in Amounts, Trade(p, n)
      PROVE BalancesTyped' /\ VaultsKeep
  <2>1. pool[p] \in Nat /\ n \in Nat BY <1>0
  <2>2. PICK a \in Nat : pool' = [pool EXCEPT ![p] = a]
    BY <1>7, <2>1 DEF Trade
  <2>3. vault' = vault BY <1>7 DEF Trade
  <2>4. BalancesTyped' BY <1>0, <2>2, <2>3 DEF BalancesTyped
  <2>5. \A m \in Sources : vault[m] \in Nat BY <1>0 DEF Mints
  <2>6. VaultsKeep BY <2>3, <2>5 DEF VaultsKeep
  <2> QED BY <2>4, <2>6
<1>8. CASE UNCHANGED vars BY <1>8, VaultUnchanged DEF vars
<1> QED BY <1>1, <1>2, <1>3, <1>4, <1>5, <1>6, <1>7, <1>8 DEF Next

LEMMA NextTyped == ASSUME TypeOK, [Next]_vars PROVE TypeOK'
<1>1. BalancesTyped' BY StepKeeps
<1>2. global_state' \in GlobalStateAccount /\ read' \subseteq Configuration
  <2> USE DEF TypeOK
  <2>1. ASSUME NEW b \in Wallets, NEW p \in Pools, NEW g \in Programs, NEW k \in Markets,
               UpdateGlobalState(b, p, g, k)
        PROVE global_state' \in GlobalStateAccount /\ read' \subseteq Configuration
    BY <2>1 DEF UpdateGlobalState, GlobalStateAccount
  <2>2. CASE BuybackFetch
    BY <2>2 DEF BuybackFetch, GlobalStateAccount, Configuration
  <2>3. CASE BuybackSend BY <2>3 DEF BuybackSend
  <2>4. CASE Burn BY <2>4 DEF Burn
  <2>5. ASSUME NEW m \in Mints, NEW n \in Amounts, CollectFees(m, n)
        PROVE global_state' = global_state /\ read' = read
    BY <2>5 DEF CollectFees
  <2>6. ASSUME NEW m \in Sources, DirectBuyback(m)
        PROVE global_state' = global_state /\ read' = read
    BY <2>6 DEF DirectBuyback
  <2>7. ASSUME NEW p \in Pools, NEW n \in Amounts, Trade(p, n)
        PROVE global_state' = global_state /\ read' = read
    BY <2>7 DEF Trade
  <2>8. CASE UNCHANGED vars BY <2>8 DEF vars
  <2> QED BY <2>1, <2>2, <2>3, <2>4, <2>5, <2>6, <2>7, <2>8 DEF Next
<1> QED BY <1>1, <1>2 DEF TypeOK, BalancesTyped

-----------------------------------------------------------------------------
(* The theorems.                                                           *)

(* Configuration, vaults and pools keep their types: only pools become     *)
(* the configured pool, only markets the market, and no balance goes       *)
(* below zero.                                                             *)
THEOREM TypeCorrect == Spec => []TypeOK
<1>1. Init => TypeOK BY DEF Init, TypeOK
<1>2. TypeOK /\ [Next]_vars => TypeOK' BY NextTyped
<1> QED BY <1>1, <1>2, PTL DEF Spec

(* Whatever configuration the job read and whatever it is now, USDC and    *)
(* SOL leave their vaults only through the pool that is configured.        *)
THEOREM SoldWhereConfigured == Spec => SoldInConfiguredPool
<1>1. TypeOK /\ [Next]_vars => VaultsKeep BY StepKeeps
<1>2. TypeOK /\ [Next]_vars =>
        [\A m \in Sources : vault'[m] < vault[m] =>
           /\ m = PoolMint[global_state.amm]
           /\ \A p \in Pools \ {global_state.amm} : pool'[p] = pool[p]]_vars
  BY <1>1 DEF VaultsKeep
<1> QED BY <1>2, TypeCorrect, PTL DEF Spec, SoldInConfiguredPool

(* The step UsdcBoughtBack needs: a job that read the configuration there  *)
(* is, and may swap in a pool that trades USDC, is never refused, so all   *)
(* the USDC is sold.                                                       *)
THEOREM UsableConfigurationServes ==
  ASSUME TypeOK, NEW c \in read, BuybackSend, read = {c},
         c.amm = global_state.amm, c.serum_market = global_state.serum_market,
         JobMaySwap, PoolMint[global_state.amm] = USDC
  PROVE  vault'[USDC] = 0
<1>1. PICK d \in read :
        IF BuybackAccepted(Backend, USDC, d.amm, SERUM_PROGRAM_ID_V3, d.serum_market)
        THEN Buyback(USDC, d.amm) ELSE UNCHANGED <<vault, pool>>
  BY DEF BuybackSend
<1>2. d = c OBVIOUS
<1>3. USDC \in Sources /\ c.amm \in Pools /\ vault[USDC] \in Nat
  BY DEF Sources, TypeOK, GlobalStateAccount, Mints
<1>4. CASE vault[USDC] = 0
  <2>1. ~BuybackAccepted(Backend, USDC, c.amm, SERUM_PROGRAM_ID_V3, c.serum_market)
    BY <1>4 DEF BuybackAccepted
  <2> QED BY <1>1, <1>2, <1>4, <2>1
<1>5. CASE vault[USDC] > 0
  <2>1. BuybackAccepted(Backend, USDC, c.amm, SERUM_PROGRAM_ID_V3, c.serum_market)
    BY <1>5 DEF BuybackAccepted, JobMaySwap
  <2> QED BY <1>1, <1>2, <1>3, <2>1, BuybackStep
<1> QED BY <1>3, <1>4, <1>5
=============================================================================
