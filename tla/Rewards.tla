------------------------------ MODULE Rewards ------------------------------
(***************************************************************************)
(* The reward accounting of programs/unloc-loan: UNLOC deposited for       *)
(* lenders and borrowers, its distribution over running loans and the      *)
(* claims, which stake what they pay through the staking program.          *)
(*                                                                         *)
(* distribute runs first in every handler here except those that change    *)
(* the settings; when it fails the whole transaction fails.  A handler     *)
(* that declares global_state without `mut` loses what distribute wrote to *)
(* it.  Of a loan only its state and reward fields matter here: the rest   *)
(* is in Loan.  Sub-offers exist throughout; a price is any answer of the  *)
(* price feed.  Integers keep their width where a setting can exceed it,   *)
(* in the product of the reward rate and the time since a distribution.    *)
(***************************************************************************)
EXTENDS Naturals, Redemption

CONSTANTS
  SubOffers,                     \* the sub-offer accounts
  Instants, StartInstant,        \* the hours the clock shows
  Mints, OfferMint, OfferAmount, \* SubOffer.offer_mint, offer_amount (functions)
  DecimalsAmp,                   \* 10^decimals of each mint
  Prices,                        \* answers of the price feeds
  Points,                        \* pairs (collection_point, total_point)
  RewardRates, Percentages, Resets, Denominator, \* values of GlobalState fields
  Amounts, MaxFunded, MaxStray,  \* UNLOC moved, and bounds on it
  SHARE_PRECISION, DIFF_SOL_USDC_DECIMALS,
  MaxU64,                        \* the largest u64
  SOL, USDC

ASSUME RewardsAssumption ==
  /\ Instants \subseteq Nat /\ StartInstant \in Instants
  /\ SOL \in Mints /\ USDC \in Mints /\ SOL # USDC /\ Mints = {SOL, USDC}
  /\ OfferMint \in [SubOffers -> Mints]
  /\ OfferAmount \in [SubOffers -> Nat]
  /\ DecimalsAmp \in [Mints -> Nat \ {0}]
  /\ Prices \subseteq Nat
  /\ Points \subseteq [collection : Nat, total : Nat]
  /\ RewardRates \subseteq Nat /\ Percentages \subseteq Nat /\ Resets \subseteq Nat
  /\ 5 \in Resets
  /\ Denominator \in Nat \ {0}
  /\ Amounts \subseteq Nat \ {0}
  /\ MaxFunded \in Nat /\ MaxStray \in Nat /\ MaxU64 \in Nat
  /\ SHARE_PRECISION \in Nat \ {0} /\ DIFF_SOL_USDC_DECIMALS \in Nat \ {0}

VARIABLES
  now,                   \* Clock.unix_timestamp, in hours
  global_state,          \* the reward fields of GlobalState
  reward_vault,          \* balance of the reward vault
  sub_offer,             \* the reward fields of SubOffer
  staked,                \* UNLOC staked by claims
  stray                  \* UNLOC sent to the vault by a plain transfer

vars == <<now, global_state, reward_vault, sub_offer, staked, stray>>

Parties == {"lender", "borrower"}

GlobalStateAccount ==
  [reward_rate : RewardRates, lender_rewards_percentage : Percentages,
   redemption_reset : Resets, tvl_sol : Nat, tvl_usdc : Nat,
   funded_amount : Nat, distributed_amount : Nat,
   last_distributed_time : Nat, rps : [Mints -> Nat]]

SubOfferAccount ==
  [state : {"Proposed", "Accepted", "NFTClaimed"},
   total_point : Nat, collection_point : Nat, rps : Nat,
   reward_debt : [Parties -> Nat], last_claim : [Parties -> Nat],
   has_claimed_rewards : [Parties -> BOOLEAN]]

TypeOK ==
  /\ now \in Instants
  /\ global_state \in GlobalStateAccount
  /\ reward_vault \in Nat
  /\ sub_offer \in [SubOffers -> SubOfferAccount]
  /\ staked \in Nat
  /\ stray \in Nat

NewSubOffer ==
  [state |-> "Proposed", total_point |-> 0, collection_point |-> 0, rps |-> 0,
   reward_debt |-> [p \in Parties |-> 0], last_claim |-> [p \in Parties |-> 0],
   has_claimed_rewards |-> [p \in Parties |-> FALSE]]

Init ==
  /\ now = StartInstant
  /\ \E rate \in RewardRates, percentage \in Percentages :
       global_state =
         [reward_rate |-> rate, lender_rewards_percentage |-> percentage,
          redemption_reset |-> 5, tvl_sol |-> 0, tvl_usdc |-> 0,
          funded_amount |-> 0, distributed_amount |-> 0,
          last_distributed_time |-> StartInstant, rps |-> [m \in Mints |-> 0]]
  /\ reward_vault = 0
  /\ sub_offer = [k \in SubOffers |-> NewSubOffer]
  /\ staked = 0
  /\ stray = 0

-----------------------------------------------------------------------------
(* distribute, which every handler but the settings starts with.           *)

Least(a, b) == IF a <= b THEN a ELSE b

(* reward_rate.safe_mul(delta_duration), which is computed in any case.    *)
RateFits ==
  global_state.reward_rate * (now - global_state.last_distributed_time) <= MaxU64

Distributable ==
  /\ now >= global_state.last_distributed_time
  /\ global_state.funded_amount >= global_state.distributed_amount
  /\ global_state.funded_amount - global_state.distributed_amount = reward_vault
  /\ RateFits

Distributed(sol_price, usdc_price) ==
  LET g        == global_state
      elapsed  == now - g.last_distributed_time
      delta    == Least(g.reward_rate * elapsed, g.funded_amount - g.distributed_amount)
      sol_usd  == sol_price * g.tvl_sol
      usdc_usd == usdc_price * g.tvl_usdc * DIFF_SOL_USDC_DECIMALS
      tvl_usd  == sol_usd + usdc_usd
      share(usd) == (delta * SHARE_PRECISION * usd) \div tvl_usd
      timed    == [g EXCEPT !.last_distributed_time = now]
  IN  IF delta > 0 /\ tvl_usd > 0
      THEN [timed EXCEPT !.rps = [g.rps EXCEPT ![SOL] = @ + share(sol_usd),
                                               ![USDC] = @ + share(usdc_usd)],
                         !.distributed_amount = @ + delta]
      ELSE timed

(* What distribute may leave, over the answers of the price feeds.         *)
Distributions == {Distributed(p, q) : p \in Prices, q \in Prices}

WithRps(s, k, g) == [s EXCEPT !.rps = g.rps[OfferMint[k]]]

VirtualRewards(s, k) == s.rps * OfferAmount[k]

-----------------------------------------------------------------------------
(* The loan's handlers, as far as they concern rewards.  A sub-offer in    *)
(* any state can be accepted: only its listing must be open, see Loan.     *)

AcceptOffer(k, points) ==
  /\ Distributable
  /\ \E g \in Distributions :
       LET s == WithRps(sub_offer[k], k, g) IN
       /\ global_state' = g
       /\ sub_offer' = [sub_offer EXCEPT ![k] =
            [s EXCEPT !.state = "Accepted", !.total_point = points.total,
                      !.collection_point = points.collection,
                      !.reward_debt = [p \in Parties |-> VirtualRewards(s, k)]]]
  /\ UNCHANGED <<now, reward_vault, staked, stray>>

(* Both handlers read global_state without `mut`: what they distribute     *)
(* reaches the sub-offer and is not written back to the global state.      *)
CloseLoan(k) ==
  /\ Distributable
  /\ \E g \in Distributions :
       sub_offer' = [sub_offer EXCEPT ![k] =
         [WithRps(sub_offer[k], k, g) EXCEPT !.state = "NFTClaimed"]]
  /\ UNCHANGED <<now, global_state, reward_vault, staked, stray>>

CanRepay(k) == sub_offer[k].state = "Accepted" /\ Distributable

RepayLoan(k) == CanRepay(k) /\ CloseLoan(k)

(* Only a lender, who is recorded once the sub-offer was accepted.         *)
ClaimCollateral(k) == sub_offer[k].state # "Proposed" /\ CloseLoan(k)

-----------------------------------------------------------------------------
(* Claims.  Each party has a debt and a cooldown of its own; the stake     *)
(* account belongs to the global state, not to the party.                  *)

CanRedeem(s, p) ==
  s.has_claimed_rewards[p] =>
    ValidateRedeemTime(s.last_claim[p], now, global_state.redemption_reset)

PartyReward(s, k, p) ==
  LET full   == ((VirtualRewards(s, k) - s.reward_debt[p]) \div SHARE_PRECISION)
                  \div DecimalsAmp[OfferMint[k]]
      reward == IF s.total_point = 0 THEN 0
                ELSE (full * s.collection_point) \div s.total_point
      lender == (reward * global_state.lender_rewards_percentage) \div Denominator
  IN  IF p = "lender" THEN lender ELSE reward - lender

Claimed(s, k, p) ==
  [s EXCEPT !.reward_debt[p] = VirtualRewards(s, k), !.has_claimed_rewards[p] = TRUE,
            !.last_claim[p] = now]

ClaimRewards(k, p) ==
  /\ Distributable
  /\ CanRedeem(sub_offer[k], p)
  /\ \E g \in Distributions :
       LET old == sub_offer[k]
           s   == IF old.state = "Accepted" THEN WithRps(old, k, g) ELSE old
       IN
       /\ VirtualRewards(s, k) >= s.reward_debt[p]
       /\ PartyReward(s, k, p) \in 0 .. reward_vault
       /\ global_state' = g
       /\ sub_offer' = [sub_offer EXCEPT ![k] = Claimed(s, k, p)]
       /\ reward_vault' = reward_vault - PartyReward(s, k, p)
       /\ staked' = staked + PartyReward(s, k, p)
  /\ UNCHANGED <<now, stray>>

ClaimBorrowerRewards(k) == ClaimRewards(k, "borrower")

ClaimLenderRewards(k) == sub_offer[k].state # "Proposed" /\ ClaimRewards(k, "lender")

-----------------------------------------------------------------------------
(* Funding and settings.                                                   *)

DepositRewards(a) ==
  /\ Distributable
  /\ global_state.funded_amount + a <= MaxFunded            \* model bound
  /\ \E g \in Distributions : global_state' = [g EXCEPT !.funded_amount = @ + a]
  /\ reward_vault' = reward_vault + a
  /\ UNCHANGED <<now, sub_offer, staked, stray>>

Withdrawable(g) ==
  IF g.funded_amount - g.distributed_amount > reward_vault THEN 0
  ELSE g.funded_amount - g.distributed_amount

(* Faulty variant: withdraw_rewards that leaves funded_amount alone.       *)
WithdrawRewardsStillFunded(a) ==
  /\ Distributable
  /\ \E g \in Distributions :
       /\ global_state' = g
       /\ reward_vault' = reward_vault - Least(a, Withdrawable(g))
  /\ UNCHANGED <<now, sub_offer, staked, stray>>

(* Faulty variant: what is asked for is not capped by what is left.        *)
WithdrawRewardsUncapped(a) ==
  /\ Distributable
  /\ \E g \in Distributions :
       global_state' = [g EXCEPT !.funded_amount = g.funded_amount - a]
  /\ reward_vault' = reward_vault - a
  /\ UNCHANGED <<now, sub_offer, staked, stray>>

WithdrawRewards(a) ==
  /\ Distributable
  /\ \E g \in Distributions :
       LET w == Least(a, Withdrawable(g)) IN
       /\ global_state' = [g EXCEPT !.funded_amount = @ - w]
       /\ reward_vault' = reward_vault - w
  /\ UNCHANGED <<now, sub_offer, staked, stray>>

(* The voting itself is read by nobody here: accept_offer takes its points *)
(* from whatever voting account its caller passes.                         *)
SetVoting ==
  /\ Distributable
  /\ global_state' \in Distributions
  /\ UNCHANGED <<now, reward_vault, sub_offer, staked, stray>>

SetRedeemReset(r) ==
  /\ global_state' = [global_state EXCEPT !.redemption_reset = r]
  /\ UNCHANGED <<now, reward_vault, sub_offer, staked, stray>>

UpdateGlobalState(rate, percentage) ==
  /\ global_state' = [global_state EXCEPT !.reward_rate = rate,
                        !.lender_rewards_percentage = percentage, !.redemption_reset = 5]
  /\ UNCHANGED <<now, reward_vault, sub_offer, staked, stray>>

(* Any wallet may send UNLOC to any token account.                         *)
StrayTransfer(a) ==
  /\ stray + a <= MaxStray                                  \* model bound
  /\ reward_vault' = reward_vault + a
  /\ stray' = stray + a
  /\ UNCHANGED <<now, global_state, sub_offer, staked>>

Tick ==
  /\ now' \in {t \in Instants : t > now}
  /\ UNCHANGED <<global_state, reward_vault, sub_offer, staked, stray>>

Next ==
  \/ \E k \in SubOffers :
       \/ \E points \in Points : AcceptOffer(k, points)
       \/ RepayLoan(k) \/ ClaimCollateral(k)
       \/ ClaimBorrowerRewards(k) \/ ClaimLenderRewards(k)
  \/ \E a \in Amounts : DepositRewards(a) \/ WithdrawRewards(a) \/ StrayTransfer(a)
  \/ SetVoting
  \/ \E r \in Resets : SetRedeemReset(r)
  \/ \E rate \in RewardRates, percentage \in Percentages : UpdateGlobalState(rate, percentage)
  \/ Tick

Spec == Init /\ [][Next]_vars

-----------------------------------------------------------------------------
(* Properties.                                                             *)

(* distribute demands that the vault holds exactly what was funded and not *)
(* distributed.  No order of deposits, withdrawals, loans and claims makes *)
(* the two differ by anything but tokens sent to the vault from outside.   *)
VaultHoldsRemainder ==
  /\ global_state.distributed_amount <= global_state.funded_amount
  /\ reward_vault = global_state.funded_amount - global_state.distributed_amount + stray

(* Two things, and only these, keep a running loan from being repaid: a    *)
(* token sent to the reward vault from outside, and a reward rate whose    *)
(* product with the time since the last recorded distribution overflows,   *)
(* which a lower rate mends.  No order of deposits, withdrawals, claims,   *)
(* loans and other settings does, and a stray token always does.           *)
RepaymentBlockedOnlyByStrayOrRate ==
  \A k \in SubOffers :
    sub_offer[k].state = "Accepted" => (CanRepay(k) <=> stray = 0 /\ RateFits)

(* A party that has claimed may claim again exactly when a reset hour lies *)
(* between: never twice within a day, never held up over the end of a      *)
(* month or a leap day.  The one gap is a party that last claimed on a     *)
(* 31 December and returns on a 1 January more than a year later.          *)
RedemptionFollowsReset ==
  \A k \in SubOffers, p \in Parties :
    LET last == sub_offer[k].last_claim[p] IN
    sub_offer[k].has_claimed_rewards[p] /\ ~NewYearGap(last, now) =>
      (CanRedeem(sub_offer[k], p) <=> ResetBetween(last, now, global_state.redemption_reset))
=============================================================================
