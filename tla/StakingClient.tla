--------------------------- MODULE StakingClient ----------------------------
(***************************************************************************)
(* The reward shown by client/src/staking/index.ts.  estimateRewards does  *)
(* the program's reward arithmetic a second time, over accounts that were  *)
(* read earlier, without points and with its own search for the tier.      *)
(***************************************************************************)
EXTENDS Staking

(* The percentage of the last tier whose duration is exactly the lock's.   *)
TierPercentage(lock) ==
  LET tiers == {i \in 1 .. Len(configs) : configs[i].duration = lock} IN
  IF tiers = {} THEN 0
  ELSE configs[CHOOSE i \in tiers : \A j \in tiers : j <= i].extra_percentage

(* Faulty variant: what was settled before is not added.                   *)
EstimateRewardsSinceSettled(u) ==
  LET acc     == pool.acc_reward_per_share
                   + (state.token_per_second * (now - pool.last_reward_time) * ACC_PRECISION)
                       \div pool.amount
      pending == (user[u].amount * acc) \div ACC_PRECISION - user[u].reward_debt
  IN  pending + (pending * TierPercentage(user[u].lock_duration)) \div FULL_100

(* The division throws for an empty pool.                                  *)
EstimateRewards(u) ==
  LET acc     == pool.acc_reward_per_share
                   + (state.token_per_second * (now - pool.last_reward_time) * ACC_PRECISION)
                       \div pool.amount
      pending == (user[u].amount * acc) \div ACC_PRECISION - user[u].reward_debt
      extra   == user[u].extra_reward
                   + (pending * TierPercentage(user[u].lock_duration)) \div FULL_100
  IN  user[u].reward_amount + pending + extra

-----------------------------------------------------------------------------
(* Properties.                                                             *)

(* The estimate applies: it has no points, so the pool must earn, and it   *)
(* finds a tier only while the table holds the lock's own duration.        *)
Estimable(u) ==
  /\ pool.open /\ pool.amount > 0 /\ pool.point > 0 /\ user[u].open
  /\ \E i \in 1 .. Len(configs) : configs[i].duration = user[u].lock_duration

(* The client's arithmetic and the program's agree to the last token,      *)
(* roundings included: a harvest pays what was shown for that second.      *)
EstimateIsHarvested ==
  [][\A u \in Users : Estimable(u) /\ Harvest(u) =>
       wallet'[u] - wallet[u] = EstimateRewards(u)]_vars

(* What was shown once stays due, however late the harvest lands and       *)
(* whoever stakes, withdraws or harvests before it: only the user's own    *)
(* harvest or withdrawal and an administrator lower the estimate.          *)
EstimateNeverFalls ==
  [][UNCHANGED <<state, configs>> =>
       \A u \in Users :
         /\ Estimable(u) /\ Estimable(u)'
         /\ ~Harvest(u)
         /\ \A amount \in 0 .. user[u].amount : ~UnStake(u, amount)
         => EstimateRewards(u)' >= EstimateRewards(u)]_vars
=============================================================================
