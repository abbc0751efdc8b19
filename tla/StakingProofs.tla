---------------------------- MODULE StakingProofs ---------------------------
(***************************************************************************)
(* Proofs about Staking, for every set of accounts, every reward rate, fee *)
(* and tier table and every unit ACC_PRECISION.                            *)
(*                                                                         *)
(* The types of the accounts are not inductive alone: `update` divides by  *)
(* total_point, which is positive because it agrees with the pool's point. *)
(* The unlock time needs that no account was staked in the future.         *)
(***************************************************************************)
EXTENDS Staking, WellFoundedInduction, TLAPS

StakedInPast == \A u \in Users : user[u].last_stake_time <= now

(* A pool that is closed gives no points.                                  *)
ClosedGivesNothing == ~pool.open => pool.point = 0

IInv == TypeOK /\ PointsAgree /\ ClosedGivesNothing /\ StakedInPast

-----------------------------------------------------------------------------
(* Arithmetic.                                                             *)

LEMMA MulNat == \A a, b \in Nat : a * b \in Nat
  OBVIOUS

LEMMA DivNat == \A a \in Nat, b \in Nat \ {0} : a \div b \in Nat
  OBVIOUS

(* A nonempty set of indices has a greatest one.                           *)
LEMMA GreatestIndex ==
  ASSUME NEW n \in Nat, NEW T \in SUBSET (1 .. n), T # {}
  PROVE  \E i \in T : \A j \in T : j <= i
<1> DEFINE Down == {n - i : i \in T}
<1>1. Down \subseteq Nat /\ Down # {}
  <2>1. \A i \in T : n - i \in Nat
    OBVIOUS
  <2>2. QED
    BY <2>1
<1>2. PICK x \in Down : \A y \in Down : ~(<<y, x>> \in OpToRel(<, Nat))
  BY <1>1, NatLessThanWellFounded, WFMin
<1>3. PICK i \in T : x = n - i
  BY <1>2
<1>4. \A j \in T : ~(n - j < n - i)
  BY <1>1, <1>2, <1>3 DEF OpToRel
<1>5. QED
  BY <1>3, <1>4

-----------------------------------------------------------------------------
(* Tiers and levels.                                                       *)

LEMMA ExtraPercentageType ==
  ASSUME TypeOK, NEW lock \in Nat
  PROVE  ExtraPercentage(lock) \in Nat
<1> DEFINE tiers == {i \in 1 .. Len(configs) : configs[i].duration <= lock}
<1>1. configs \in Seq(DurationExtraRewardConfig)
  BY StakingAssumption DEF TypeOK
<1>2. CASE tiers = {}
  BY <1>2 DEF ExtraPercentage
<1>3. CASE tiers # {}
  <2>1. Len(configs) \in Nat
    BY <1>1
  <2>2. \E i \in tiers : \A j \in tiers : j <= i
    BY <1>3, <2>1, GreatestIndex
  <2> DEFINE top == CHOOSE i \in tiers : \A j \in tiers : j <= i
  <2>3. top \in 1 .. Len(configs)
    BY <2>2
  <2>4. configs[top] \in DurationExtraRewardConfig
    BY <1>1, <2>3
  <2>5. configs[top].extra_percentage \in Nat
    BY <2>4 DEF DurationExtraRewardConfig
  <2>6. QED
    BY <1>3, <2>5 DEF ExtraPercentage
<1>4. QED
  BY <1>2, <1>3

(* A profile level is the number of a threshold the score reaches.         *)
LEMMA ProfileLevelType ==
  ASSUME TypeOK, NEW score \in Nat
  PROVE  /\ ProfileLevel(score) \in Nat
         /\ ProfileLevel(score) # 0 =>
              /\ ProfileLevel(score) \in 1 .. Len(state.profile_levels)
              /\ state.profile_levels[ProfileLevel(score)] <= score
<1> DEFINE reached == {i \in 1 .. Len(state.profile_levels) :
                         state.profile_levels[i] <= score}
<1>1. Len(state.profile_levels) \in Nat
  BY StakingAssumption DEF TypeOK, StateAccount
<1>2. CASE reached = {}
  BY <1>2 DEF ProfileLevel
<1>3. CASE reached # {}
  <2>1. \E i \in reached : \A j \in reached : j <= i
    BY <1>1, <1>3, GreatestIndex
  <2>2. ProfileLevel(score) \in reached
    BY <1>3, <2>1 DEF ProfileLevel
  <2>3. QED
    BY <1>1, <2>2
<1>4. QED
  BY <1>2, <1>3

-----------------------------------------------------------------------------
(* The reward per share.                                                   *)

LEMMA RewardPerShareType ==
  ASSUME TypeOK, PointsAgree
  PROVE  RewardPerShare \in Nat
<1> DEFINE seconds == now - pool.last_reward_time
           product == state.token_per_second * seconds * pool.point * ACC_PRECISION
<1>1. /\ pool.amount \in Nat /\ pool.point \in Nat
      /\ now \in Nat /\ pool.last_reward_time \in Nat
  BY DEF TypeOK, FarmPoolAccount
<1>2. state.token_per_second \in Nat /\ ACC_PRECISION \in Nat
  BY StakingAssumption DEF TypeOK, StateAccount
<1>3. CASE pool.amount > 0 /\ seconds > 0 /\ pool.point > 0
  <2>1. seconds \in Nat
    BY <1>1, <1>3
  <2>2. product \in Nat
    BY <1>1, <1>2, <2>1, MulNat
  <2>3. state.total_point \in Nat \ {0} /\ pool.amount \in Nat \ {0}
    BY <1>1, <1>3 DEF PointsAgree
  <2> HIDE DEF product
  <2>4. (product \div state.total_point) \div pool.amount \in Nat
    BY <2>2, <2>3, DivNat
  <2>5. QED
    BY <1>3, <2>4 DEF RewardPerShare, product
<1>4. CASE ~(pool.amount > 0 /\ seconds > 0 /\ pool.point > 0)
  BY <1>4 DEF RewardPerShare
<1>5. QED
  BY <1>3, <1>4

(* The accumulator only grows.                                             *)
LEMMA AccNowType ==
  ASSUME TypeOK, PointsAgree
  PROVE  AccNow \in Nat /\ pool.acc_reward_per_share <= AccNow
<1>1. pool.acc_reward_per_share \in Nat
  BY DEF TypeOK, FarmPoolAccount
<1>2. QED
  BY <1>1, RewardPerShareType DEF AccNow

LEMMA RewardDebtType ==
  ASSUME TypeOK, PointsAgree, NEW amount \in Nat
  PROVE  RewardDebt(amount) \in Nat
<1>1. amount * AccNow \in Nat
  BY AccNowType, MulNat
<1>2. QED
  BY <1>1, DivNat, StakingAssumption DEF RewardDebt

LEMMA PendingType ==
  ASSUME TypeOK, PointsAgree, NEW u \in Users, CanSettle(u)
  PROVE  Pending(u) \in Nat
<1>1. user[u].amount \in Nat /\ user[u].reward_debt \in Nat
  BY DEF TypeOK, FarmPoolUserAccount
<1>2. RewardDebt(user[u].amount) \in Nat
  BY <1>1, RewardDebtType
<1>3. user[u].reward_debt <= RewardDebt(user[u].amount)
  BY DEF CanSettle
<1>4. QED
  BY <1>1, <1>2, <1>3 DEF Pending

-----------------------------------------------------------------------------
(* Accounts with some fields replaced by numbers.                          *)

LEMMA UserFields ==
  \A a \in FarmPoolUserAccount :
    /\ a.amount \in Nat /\ a.reward_amount \in Nat /\ a.extra_reward \in Nat
    /\ a.reward_debt \in Nat /\ a.last_stake_time \in Nat /\ a.lock_duration \in Nat
    /\ a.profile_level \in Nat
  BY DEF FarmPoolUserAccount

LEMMA RewardUpdate ==
  ASSUME NEW a \in FarmPoolUserAccount, NEW x \in Nat, NEW y \in Nat
  PROVE  [a EXCEPT !.reward_amount = x, !.extra_reward = y] \in FarmPoolUserAccount
  BY DEF FarmPoolUserAccount

LEMMA ScoreUpdate ==
  ASSUME NEW a \in FarmPoolUserAccount, NEW x \in Nat, NEW y \in Nat
  PROVE  [a EXCEPT !.unloc_score = x, !.profile_level = y] \in FarmPoolUserAccount
  BY DEF FarmPoolUserAccount

LEMMA HarvestUpdate ==
  ASSUME NEW a \in FarmPoolUserAccount, NEW z \in Nat
  PROVE  LET b == [a EXCEPT !.reward_amount = 0, !.extra_reward = 0, !.reward_debt = z]
         IN  b \in FarmPoolUserAccount /\ b.last_stake_time = a.last_stake_time
  BY DEF FarmPoolUserAccount

LEMMA PoolUpdates ==
  ASSUME NEW p \in FarmPoolAccount, NEW x \in Nat, NEW y \in Nat
  PROVE  /\ [p EXCEPT !.acc_reward_per_share = x, !.last_reward_time = y]
              \in FarmPoolAccount
         /\ [p EXCEPT !.amount = x] \in FarmPoolAccount
         /\ [p EXCEPT !.total_user = x] \in FarmPoolAccount
         /\ [p EXCEPT !.point = x] \in FarmPoolAccount
  BY DEF FarmPoolAccount

(* Settling the reward so far changes the two reward fields only.          *)
LEMMA SettledType ==
  ASSUME TypeOK, PointsAgree, NEW u \in Users, CanSettle(u), NEW percentage \in Nat
  PROVE  /\ Settled(u, percentage) \in FarmPoolUserAccount
         /\ Settled(u, percentage).amount = user[u].amount
         /\ Settled(u, percentage).lock_duration = user[u].lock_duration
<1> DEFINE extra == (Pending(u) * percentage) \div FULL_100
<1>1. user[u] \in FarmPoolUserAccount
  BY DEF TypeOK
<1>2. Pending(u) \in Nat
  BY PendingType
<1>3. extra \in Nat
  <2>1. Pending(u) * percentage \in Nat
    BY <1>2, MulNat
  <2>2. QED
    BY <2>1, DivNat, StakingAssumption DEF FULL_100
<1> HIDE DEF extra
<1>4. /\ user[u].reward_amount + Pending(u) \in Nat
      /\ user[u].extra_reward + extra \in Nat
  <2>1. user[u].reward_amount \in Nat /\ user[u].extra_reward \in Nat
    BY <1>1, UserFields
  <2>2. QED
    BY <1>2, <1>3, <2>1
<1>5. Settled(u, percentage) =
        [user[u] EXCEPT !.reward_amount = user[u].reward_amount + Pending(u),
                        !.extra_reward = user[u].extra_reward + extra]
  BY DEF Settled, extra
<1>6. Settled(u, percentage) \in FarmPoolUserAccount
  BY <1>1, <1>4, <1>5, RewardUpdate
<1>7. QED
  BY <1>1, <1>5, <1>6 DEF FarmPoolUserAccount

(* Scoring changes the score and the level only.                           *)
LEMMA ScoredType ==
  ASSUME TypeOK, NEW a \in FarmPoolUserAccount
  PROVE  /\ Scored(a) \in FarmPoolUserAccount
         /\ Scored(a).amount = a.amount
         /\ Scored(a).lock_duration = a.lock_duration
         /\ Scored(a).last_stake_time = a.last_stake_time
<1> DEFINE score == ((a.amount * ExtraPercentage(a.lock_duration)) \div FULL_100) * 100
<1>1. ExtraPercentage(a.lock_duration) \in Nat /\ a.amount \in Nat
  BY UserFields, ExtraPercentageType
<1>2. score \in Nat
  <2>1. a.amount * ExtraPercentage(a.lock_duration) \in Nat
    BY <1>1, MulNat
  <2>2. (a.amount * ExtraPercentage(a.lock_duration)) \div FULL_100 \in Nat
    BY <2>1, DivNat, StakingAssumption DEF FULL_100
  <2>3. QED
    BY <2>2, MulNat
<1> HIDE DEF score
<1>3. ProfileLevel(score) \in Nat
  BY <1>2, ProfileLevelType
<1>4. Scored(a) = [a EXCEPT !.unloc_score = score, !.profile_level = ProfileLevel(score)]
  BY DEF Scored, score
<1>5. Scored(a) \in FarmPoolUserAccount
  BY <1>2, <1>3, <1>4, ScoreUpdate
<1>6. QED
  BY <1>4, <1>5 DEF FarmPoolUserAccount

-----------------------------------------------------------------------------
(* The accounts that stake and unstake leave behind.                       *)

LEMMA StakedType ==
  ASSUME TypeOK, PointsAgree, NEW u \in Users, CanSettle(u),
         NEW amount \in Nat, NEW lock \in Nat
  PROVE  /\ Staked(u, amount, lock) \in FarmPoolUserAccount
         /\ Staked(u, amount, lock).amount = user[u].amount + amount
         /\ Staked(u, amount, lock).lock_duration = lock
         /\ Staked(u, amount, lock).last_stake_time = now
         /\ \E a \in FarmPoolUserAccount : Staked(u, amount, lock) = Scored(a)
<1> DEFINE settled == Settled(u, ExtraPercentage(user[u].lock_duration))
           total == user[u].amount + amount
           account == [settled EXCEPT !.amount = total, !.lock_duration = lock,
                                      !.reward_debt = RewardDebt(total),
                                      !.last_stake_time = now]
<1>1. /\ user[u].amount \in Nat /\ user[u].lock_duration \in Nat /\ now \in Nat
  BY UserFields DEF TypeOK
<1>2. settled \in FarmPoolUserAccount /\ settled.amount = user[u].amount
  BY <1>1, SettledType, ExtraPercentageType
<1>3. total \in Nat /\ RewardDebt(total) \in Nat
  BY <1>1, RewardDebtType
<1>4. Staked(u, amount, lock) = Scored(account)
  BY <1>2 DEF Staked
<1> DEFINE debt == RewardDebt(total)
<1> HIDE DEF settled, total, debt
<1>5. account = [settled EXCEPT !.amount = total, !.lock_duration = lock,
                                !.reward_debt = debt, !.last_stake_time = now]
  BY DEF debt
<1>6. debt \in Nat
  BY <1>3 DEF debt
<1> HIDE DEF account
<1>7. /\ account \in FarmPoolUserAccount
      /\ account.amount = total /\ account.lock_duration = lock
      /\ account.last_stake_time = now
  BY <1>1, <1>2, <1>3, <1>5, <1>6 DEF FarmPoolUserAccount
<1>8. QED
  BY <1>4, <1>7, ScoredType DEF total

LEMMA UnstakedType ==
  ASSUME TypeOK, PointsAgree, NEW u \in Users, CanSettle(u),
         NEW amount \in Nat, amount <= user[u].amount, NEW percentage \in Nat
  PROVE  /\ Unstaked(u, amount, percentage) \in FarmPoolUserAccount
         /\ Unstaked(u, amount, percentage).amount = user[u].amount - amount
         /\ user[u].amount - amount # 0 =>
              Unstaked(u, amount, percentage).lock_duration = user[u].lock_duration
         /\ Unstaked(u, amount, percentage).last_stake_time = now
         /\ \E a \in FarmPoolUserAccount : Unstaked(u, amount, percentage) = Scored(a)
<1> DEFINE settled == Settled(u, percentage)
           rest == user[u].amount - amount
           lock == IF rest = 0 THEN 0 ELSE user[u].lock_duration
           account == [settled EXCEPT !.amount = rest, !.lock_duration = lock,
                                      !.reward_debt = RewardDebt(rest),
                                      !.last_stake_time = now]
<1>1. /\ user[u].amount \in Nat /\ user[u].lock_duration \in Nat /\ now \in Nat
  BY UserFields DEF TypeOK
<1>2. /\ settled \in FarmPoolUserAccount
      /\ settled.lock_duration = user[u].lock_duration
  BY SettledType
<1>3. rest \in Nat /\ RewardDebt(rest) \in Nat /\ lock \in Nat
  BY <1>1, RewardDebtType
<1>4. Unstaked(u, amount, percentage) = Scored(account)
  BY <1>2 DEF Unstaked
<1>5. rest # 0 => lock = user[u].lock_duration
  OBVIOUS
<1> DEFINE debt == RewardDebt(rest)
<1> HIDE DEF settled, rest, lock, debt
<1>6. account = [settled EXCEPT !.amount = rest, !.lock_duration = lock,
                                !.reward_debt = debt, !.last_stake_time = now]
  BY DEF debt
<1>7. debt \in Nat
  BY <1>3 DEF debt
<1> HIDE DEF account
<1>8. /\ account \in FarmPoolUserAccount
      /\ account.amount = rest /\ account.lock_duration = lock
      /\ account.last_stake_time = now
  BY <1>1, <1>2, <1>3, <1>6, <1>7 DEF FarmPoolUserAccount
<1>9. QED
  BY <1>4, <1>5, <1>8, ScoredType DEF rest

LEMMA UpdatedPoolType ==
  ASSUME TypeOK, PointsAgree
  PROVE  /\ UpdatedPool \in FarmPoolAccount
         /\ UpdatedPool.amount = pool.amount /\ UpdatedPool.point = pool.point
         /\ UpdatedPool.open = pool.open
<1>1. pool \in FarmPoolAccount /\ now \in Nat /\ AccNow \in Nat
  BY AccNowType DEF TypeOK
<1>2. UpdatedPool \in FarmPoolAccount
  BY <1>1, PoolUpdates DEF UpdatedPool
<1>3. QED
  BY <1>1 DEF UpdatedPool, FarmPoolAccount

(* The amount in the pool after a stake or a withdrawal.                   *)
LEMMA PoolAmount ==
  ASSUME TypeOK, PointsAgree, NEW x \in Nat
  PROVE  /\ [UpdatedPool EXCEPT !.amount = x] \in FarmPoolAccount
         /\ [UpdatedPool EXCEPT !.amount = x].point = pool.point
         /\ [UpdatedPool EXCEPT !.amount = x].open = pool.open
<1>1. /\ UpdatedPool \in FarmPoolAccount
      /\ UpdatedPool.point = pool.point /\ UpdatedPool.open = pool.open
  BY UpdatedPoolType
<1>2. [UpdatedPool EXCEPT !.amount = x] \in FarmPoolAccount
  BY <1>1, PoolUpdates
<1>3. QED
  BY <1>1 DEF FarmPoolAccount

-----------------------------------------------------------------------------
(* The inductive invariant.                                                *)

LEMMA NoAccounts ==
  /\ NoPool \in FarmPoolAccount /\ NoPool.point = 0 /\ ~NoPool.open
  /\ FreshUser \in FarmPoolUserAccount
  /\ FreshUser.amount = 0 /\ FreshUser.last_stake_time = 0
  /\ FreshUser.profile_level = 0
  /\ NoUser \in FarmPoolUserAccount
  /\ NoUser.last_stake_time = 0 /\ NoUser.profile_level = 0
  BY DEF NoPool, FreshUser, NoUser, FarmPoolAccount, FarmPoolUserAccount

LEMMA InvInit == Init => IInv
<1> SUFFICES ASSUME Init PROVE IInv
  OBVIOUS
<1>1. PICK r \in Rates, f \in Fees, l \in LevelConfigs :
        state = [total_point |-> 0, token_per_second |-> r,
                 early_unlock_fee |-> f, profile_levels |-> l]
  BY DEF Init
<1>2. state \in StateAccount /\ state.total_point = 0
  BY <1>1 DEF StateAccount
<1>3. pool = NoPool /\ pool \in FarmPoolAccount /\ pool.point = 0
  BY NoAccounts DEF Init
<1>4. user \in [Users -> FarmPoolUserAccount] /\ StakedInPast
  BY NoAccounts, StakingAssumption DEF Init, StakedInPast
<1>5. /\ now \in Nat \ {0} /\ configs \in RewardConfigs
      /\ wallet \in [Users -> Nat] /\ pool_vault \in Nat
      /\ fee_vault \in Nat /\ reward_vault \in Nat
  BY StakingAssumption DEF Init
<1>6. QED
  BY <1>2, <1>3, <1>4, <1>5 DEF IInv, TypeOK, PointsAgree, ClosedGivesNothing

(* The user instructions, one lemma each: the types, the point of the pool *)
(* and the time of the last stake.                                         *)
LEMMA CreateUserStep ==
  ASSUME IInv, NEW u \in Users, CreateUser(u)
  PROVE  IInv'
<1> USE DEF IInv
<1>1. pool \in FarmPoolAccount /\ pool.total_user + 1 \in Nat
  BY DEF TypeOK, FarmPoolAccount
<1>2. pool' = [pool EXCEPT !.total_user = pool.total_user + 1]
  BY DEF CreateUser
<1>3. pool' \in FarmPoolAccount /\ pool'.point = pool.point /\ pool'.open = pool.open
  BY <1>1, <1>2, PoolUpdates DEF FarmPoolAccount
<1>4. user' = [user EXCEPT ![u] = FreshUser] /\ UNCHANGED <<now, state, configs, vaults>>
  BY DEF CreateUser
<1>5. user' \in [Users -> FarmPoolUserAccount]
  BY <1>4, NoAccounts DEF TypeOK
<1>6. StakedInPast'
  BY <1>4, NoAccounts DEF StakedInPast, TypeOK
<1>7. QED
  BY <1>3, <1>4, <1>5, <1>6 DEF TypeOK, PointsAgree, ClosedGivesNothing, vaults

LEMMA StakeStep ==
  ASSUME IInv, NEW u \in Users, NEW amount \in 0 .. wallet[u], NEW lock \in Nat,
         Stake(u, amount, lock)
  PROVE  IInv'
<1> USE DEF IInv
<1>1. /\ wallet[u] \in Nat /\ amount \in Nat /\ wallet[u] - amount \in Nat
      /\ pool_vault \in Nat /\ now \in Nat
  BY DEF TypeOK
<1>2. /\ CanSettle(u)
      /\ user' = [user EXCEPT ![u] = Staked(u, amount, lock)]
      /\ wallet' = [wallet EXCEPT ![u] = @ - amount]
      /\ pool_vault' = pool_vault + amount
      /\ UNCHANGED <<now, state, configs, fee_vault, reward_vault>>
  BY DEF Stake
<1>3. pool' \in FarmPoolAccount /\ pool'.point = pool.point /\ pool'.open = pool.open
  <2>1. pool.amount + amount \in Nat /\ UpdatedPool.amount = pool.amount
    BY <1>1, UpdatedPoolType DEF TypeOK, FarmPoolAccount
  <2>2. pool' = [UpdatedPool EXCEPT !.amount = pool.amount + amount]
    BY <2>1 DEF Stake
  <2>3. QED
    BY <2>1, <2>2, PoolAmount
<1>4. /\ Staked(u, amount, lock) \in FarmPoolUserAccount
      /\ Staked(u, amount, lock).last_stake_time = now
  BY <1>1, <1>2, StakedType
<1>5. user' \in [Users -> FarmPoolUserAccount]
  BY <1>2, <1>4 DEF TypeOK
<1>6. StakedInPast'
  BY <1>1, <1>2, <1>4 DEF StakedInPast, TypeOK
<1>7. wallet' \in [Users -> Nat] /\ pool_vault' \in Nat
  BY <1>1, <1>2 DEF TypeOK
<1>8. QED
  BY <1>2, <1>3, <1>5, <1>6, <1>7 DEF TypeOK, PointsAgree, ClosedGivesNothing

LEMMA UnStakeStep ==
  ASSUME IInv, NEW u \in Users, NEW amount \in 0 .. user[u].amount, UnStake(u, amount)
  PROVE  IInv'
<1> USE DEF IInv
<1> DEFINE fee == UnStakeFee(u, amount)
           percentage == IF IsEarly(u) THEN 0 ELSE ExtraPercentage(user[u].lock_duration)
<1>1. /\ user[u].amount \in Nat /\ user[u].lock_duration \in Nat /\ amount \in Nat
      /\ amount <= user[u].amount /\ pool.amount \in Nat
      /\ wallet[u] \in Nat /\ pool_vault \in Nat /\ fee_vault \in Nat /\ now \in Nat
  BY UserFields DEF TypeOK, FarmPoolAccount
<1>2. percentage \in Nat
  BY <1>1, ExtraPercentageType
<1>3. fee \in Nat
  <2>1. state.early_unlock_fee \in Nat
    <3>1. state.early_unlock_fee \in Fees
      BY DEF TypeOK, StateAccount
    <3>2. QED
      BY <3>1, StakingAssumption
  <2>2. amount * state.early_unlock_fee \in Nat
    BY <1>1, <2>1, MulNat
  <2>3. EarlyUnlockFee(amount) \in Nat
    BY <2>2, DivNat, StakingAssumption DEF EarlyUnlockFee
  <2>4. QED
    BY <2>3 DEF UnStakeFee
<1>4. /\ CanSettle(u)
      /\ amount <= pool.amount /\ amount <= pool_vault /\ fee <= amount
      /\ user' = [user EXCEPT ![u] = Unstaked(u, amount, percentage)]
      /\ pool' = [UpdatedPool EXCEPT !.amount = @ - amount]
      /\ wallet' = [wallet EXCEPT ![u] = @ + (amount - fee)]
      /\ fee_vault' = fee_vault + fee
      /\ pool_vault' = pool_vault - amount
      /\ UNCHANGED <<now, state, configs, reward_vault>>
  BY DEF UnStake, CanUnStake
<1> HIDE DEF fee, percentage
<1>5. pool' \in FarmPoolAccount /\ pool'.point = pool.point /\ pool'.open = pool.open
  <2>1. pool.amount - amount \in Nat /\ UpdatedPool.amount = pool.amount
    BY <1>1, <1>4, UpdatedPoolType
  <2>2. pool' = [UpdatedPool EXCEPT !.amount = pool.amount - amount]
    BY <1>4, <2>1
  <2>3. QED
    BY <2>1, <2>2, PoolAmount
<1>6. /\ Unstaked(u, amount, percentage) \in FarmPoolUserAccount
      /\ Unstaked(u, amount, percentage).last_stake_time = now
  BY <1>1, <1>2, <1>4, UnstakedType
<1>7. user' \in [Users -> FarmPoolUserAccount]
  BY <1>4, <1>6 DEF TypeOK
<1>8. StakedInPast'
  BY <1>1, <1>4, <1>6 DEF StakedInPast, TypeOK
<1>9. /\ wallet' \in [Users -> Nat]
      /\ pool_vault' \in Nat /\ fee_vault' \in Nat
  BY <1>1, <1>3, <1>4 DEF TypeOK
<1>10. QED
  BY <1>4, <1>5, <1>7, <1>8, <1>9 DEF TypeOK, PointsAgree, ClosedGivesNothing

LEMMA HarvestStep ==
  ASSUME IInv, NEW u \in Users, Harvest(u)
  PROVE  IInv'
<1> USE DEF IInv
<1> DEFINE settled == Settled(u, ExtraPercentage(user[u].lock_duration))
           total_reward == settled.reward_amount + settled.extra_reward
           debt == RewardDebt(user[u].amount)
           account == [settled EXCEPT !.reward_amount = 0, !.extra_reward = 0,
                                      !.reward_debt = debt]
<1>1. /\ CanSettle(u)
      /\ total_reward <= reward_vault
      /\ user' = [user EXCEPT ![u] = account]
      /\ pool' = UpdatedPool
      /\ wallet' = [wallet EXCEPT ![u] = @ + total_reward]
      /\ reward_vault' = reward_vault - total_reward
      /\ UNCHANGED <<now, state, configs, pool_vault, fee_vault>>
  BY DEF Harvest
<1>2. /\ settled \in FarmPoolUserAccount
      /\ settled.last_stake_time = user[u].last_stake_time
  <2>1. user[u] \in FarmPoolUserAccount /\ user[u].lock_duration \in Nat
    BY UserFields DEF TypeOK
  <2>2. settled \in FarmPoolUserAccount
    BY <1>1, <2>1, SettledType, ExtraPercentageType
  <2>3. QED
    BY <2>1, <2>2 DEF Settled, FarmPoolUserAccount
<1>3. debt \in Nat
  BY UserFields, RewardDebtType DEF TypeOK
<1>4. total_reward \in Nat /\ reward_vault \in Nat /\ wallet[u] \in Nat
  <2>1. settled.reward_amount \in Nat /\ settled.extra_reward \in Nat
    BY <1>2, UserFields
  <2>2. QED
    BY <2>1 DEF TypeOK
<1> HIDE DEF settled, total_reward, debt
<1>5. /\ account \in FarmPoolUserAccount
      /\ account.last_stake_time = user[u].last_stake_time
  BY <1>2, <1>3, HarvestUpdate
<1> HIDE DEF account
<1>6. user' \in [Users -> FarmPoolUserAccount]
  BY <1>1, <1>5 DEF TypeOK
<1>7. StakedInPast'
  BY <1>1, <1>5 DEF StakedInPast, TypeOK
<1>8. pool' \in FarmPoolAccount /\ pool'.point = pool.point /\ pool'.open = pool.open
  BY <1>1, UpdatedPoolType
<1>9. wallet' \in [Users -> Nat] /\ reward_vault' \in Nat
  BY <1>1, <1>4 DEF TypeOK
<1>10. QED
  BY <1>1, <1>6, <1>7, <1>8, <1>9 DEF TypeOK, PointsAgree, ClosedGivesNothing

LEMMA StateUpdates ==
  ASSUME NEW s \in StateAccount
  PROVE  /\ \A x \in Nat : /\ [s EXCEPT !.total_point = x] \in StateAccount
                           /\ [s EXCEPT !.total_point = x].total_point = x
         /\ \A r \in Rates :
              /\ [s EXCEPT !.token_per_second = r] \in StateAccount
              /\ [s EXCEPT !.token_per_second = r].total_point = s.total_point
         /\ \A f \in Fees :
              /\ [s EXCEPT !.early_unlock_fee = f] \in StateAccount
              /\ [s EXCEPT !.early_unlock_fee = f].total_point = s.total_point
         /\ \A l \in LevelConfigs :
              /\ [s EXCEPT !.profile_levels = l] \in StateAccount
              /\ [s EXCEPT !.profile_levels = l].total_point = s.total_point
  BY DEF StateAccount

(* What an administrator's instruction must keep.                          *)
AdminKeeps ==
  /\ UNCHANGED <<now, user, vaults>>
  /\ state' \in StateAccount /\ pool' \in FarmPoolAccount /\ configs' \in RewardConfigs
  /\ PointsAgree' /\ ClosedGivesNothing'

LEMMA AdminStep ==
  ASSUME IInv, AdminNext
  PROVE  IInv'
<1> USE DEF IInv
<1>1. /\ state \in StateAccount /\ pool \in FarmPoolAccount /\ configs \in RewardConfigs
      /\ state.total_point \in Nat /\ state.total_point = pool.point
  BY DEF TypeOK, PointsAgree, StateAccount
<1>2. Points \subseteq Nat
  BY StakingAssumption
<1>3. ASSUME NEW point \in Points, CreatePool(point)
      PROVE  AdminKeeps
  <2>1. state.total_point + point = point /\ point \in Nat
    BY <1>1, <1>2, <1>3 DEF CreatePool, ClosedGivesNothing
  <2>2. /\ [NoPool EXCEPT !.open = TRUE, !.point = point] \in FarmPoolAccount
        /\ [NoPool EXCEPT !.open = TRUE, !.point = point].point = point
        /\ [NoPool EXCEPT !.open = TRUE, !.point = point].open
    BY <2>1 DEF NoPool, FarmPoolAccount
  <2>3. state' = [state EXCEPT !.total_point = point]
    BY <1>3, <2>1 DEF CreatePool
  <2>4. QED
    BY <1>1, <1>3, <2>1, <2>2, <2>3, StateUpdates
       DEF CreatePool, AdminKeeps, PointsAgree, ClosedGivesNothing
<1>4. ASSUME ClosePool PROVE AdminKeeps
  <2>1. state' = [state EXCEPT !.total_point = 0]
    BY <1>1, <1>4 DEF ClosePool
  <2>2. QED
    BY <1>1, <1>4, <2>1, StateUpdates, NoAccounts
       DEF ClosePool, AdminKeeps, PointsAgree, ClosedGivesNothing
<1>5. ASSUME NEW point \in Points, ChangePoolPoint(point)
      PROVE  AdminKeeps
  <2>1. (state.total_point - pool.point) + point = point /\ point \in Nat
    BY <1>1, <1>2
  <2>2. state' = [state EXCEPT !.total_point = point]
    BY <1>5, <2>1 DEF ChangePoolPoint
  <2>3. pool' = [pool EXCEPT !.point = point] /\ pool.open
    BY <1>5 DEF ChangePoolPoint
  <2>4. pool' \in FarmPoolAccount /\ pool'.point = point /\ pool'.open
    BY <1>1, <2>1, <2>3 DEF FarmPoolAccount
  <2>5. QED
    BY <1>1, <1>5, <2>1, <2>2, <2>4, StateUpdates
       DEF ChangePoolPoint, AdminKeeps, PointsAgree, ClosedGivesNothing
<1>6. ASSUME NEW rate \in Rates, ChangeTokensPerSecond(rate)
      PROVE  AdminKeeps
  BY <1>1, <1>6, StateUpdates
     DEF ChangeTokensPerSecond, AdminKeeps, PointsAgree, ClosedGivesNothing
<1>7. ASSUME NEW fee \in Fees, ChangeEarlyUnlockFee(fee)
      PROVE  AdminKeeps
  BY <1>1, <1>7, StateUpdates
     DEF ChangeEarlyUnlockFee, AdminKeeps, PointsAgree, ClosedGivesNothing
<1>8. ASSUME NEW levels \in LevelConfigs, ChangeProfileLevels(levels)
      PROVE  AdminKeeps
  BY <1>1, <1>8, StateUpdates
     DEF ChangeProfileLevels, AdminKeeps, PointsAgree, ClosedGivesNothing
<1>9. ASSUME NEW c \in RewardConfigs, SetExtraRewardConfigs(c)
      PROVE  AdminKeeps
  <2>1. configs' \in RewardConfigs /\ UNCHANGED <<now, state, pool, user, vaults>>
    BY <1>9 DEF SetExtraRewardConfigs
  <2>2. PointsAgree' /\ ClosedGivesNothing'
    BY <2>1 DEF PointsAgree, ClosedGivesNothing
  <2>3. QED
    BY <1>1, <2>1, <2>2 DEF AdminKeeps
<1>10. AdminKeeps
  BY <1>3, <1>4, <1>5, <1>6, <1>7, <1>8, <1>9 DEF AdminNext
<1>11. QED
  BY <1>10 DEF AdminKeeps, TypeOK, StakedInPast, vaults

LEMMA InvStep == IInv /\ [Next]_vars => IInv'
<1> SUFFICES ASSUME IInv, [Next]_vars PROVE IInv'
  OBVIOUS
<1>1. ASSUME NEW u \in Users, CreateUser(u) PROVE IInv'
  BY <1>1, CreateUserStep
<1>2. ASSUME NEW u \in Users, NEW amount \in 0 .. wallet[u],
             NEW i \in 1 .. Len(configs), Stake(u, amount, configs[i].duration)
      PROVE  IInv'
  <2>1. configs \in Seq(DurationExtraRewardConfig)
    BY StakingAssumption DEF IInv, TypeOK
  <2>2. configs[i] \in DurationExtraRewardConfig
    BY <2>1
  <2>3. configs[i].duration \in Nat
    BY <2>2 DEF DurationExtraRewardConfig
  <2>4. QED
    BY <1>2, <2>3, StakeStep
<1>3. ASSUME NEW u \in Users, NEW amount \in 0 .. user[u].amount, UnStake(u, amount)
      PROVE  IInv'
  BY <1>3, UnStakeStep
<1>4. ASSUME NEW u \in Users, Harvest(u) PROVE IInv'
  BY <1>4, HarvestStep
<1>5. ASSUME NEW u \in Users, NEW amount \in 1 .. wallet[u], FundRewardToken(u, amount)
      PROVE  IInv'
  <2>1. /\ wallet[u] - amount \in Nat /\ reward_vault + amount \in Nat
    BY <1>5 DEF IInv, TypeOK
  <2>2. wallet' \in [Users -> Nat] /\ reward_vault' \in Nat
    BY <1>5, <2>1 DEF FundRewardToken, IInv, TypeOK
  <2>3. QED
    BY <1>5, <2>2
       DEF FundRewardToken, IInv, TypeOK, PointsAgree, ClosedGivesNothing, StakedInPast
<1>6. CASE AdminNext
  BY <1>6, AdminStep
<1>7. CASE Tick
  <2>1. /\ now \in Nat /\ now' = now + 1
        /\ UNCHANGED <<state, configs, pool, user, vaults>>
    BY <1>7 DEF Tick, IInv, TypeOK
  <2>2. StakedInPast'
    <3>1. \A u \in Users : user[u].last_stake_time \in Nat
      BY UserFields DEF IInv, TypeOK
    <3>2. QED
      BY <2>1, <3>1 DEF IInv, StakedInPast
  <2>3. QED
    BY <2>1, <2>2 DEF IInv, TypeOK, PointsAgree, ClosedGivesNothing, vaults
<1>8. CASE UNCHANGED vars
  BY <1>8 DEF vars, vaults, IInv, TypeOK, PointsAgree, ClosedGivesNothing, StakedInPast
<1>9. QED
  BY <1>1, <1>2, <1>3, <1>4, <1>5, <1>6, <1>7, <1>8 DEF Next, UserNext

LEMMA Invariant == Spec => []IInv
  BY InvInit, InvStep, PTL DEF Spec

(* No balance, no total and no reward ever goes below zero: every checked  *)
(* subtraction a handler makes is covered by its guards.                   *)
THEOREM TypeCorrect == Spec => []TypeOK
<1>1. IInv => TypeOK
  BY DEF IInv
<1>2. QED
  BY <1>1, Invariant, PTL

(* total_point agrees with the pool through every creation, change and     *)
(* closing, so `update` never divides by zero.                             *)
THEOREM PointsCorrect == Spec => []PointsAgree
<1>1. IInv => PointsAgree
  BY DEF IInv
<1>2. QED
  BY <1>1, Invariant, PTL

-----------------------------------------------------------------------------
(* The lock.                                                               *)

(* A step changes a stake account only by an instruction on that account.  *)
LEMMA OwnSteps ==
  ASSUME IInv, [Next]_vars, NEW u \in Users
  PROVE  \/ user'[u] = user[u]
         \/ CreateUser(u)
         \/ \E amount \in 0 .. wallet[u], lock \in Nat : Stake(u, amount, lock)
         \/ \E amount \in 0 .. user[u].amount : UnStake(u, amount)
         \/ Harvest(u)
<1> DEFINE Own == \/ user'[u] = user[u]
                  \/ CreateUser(u)
                  \/ \E amount \in 0 .. wallet[u], lock \in Nat : Stake(u, amount, lock)
                  \/ \E amount \in 0 .. user[u].amount : UnStake(u, amount)
                  \/ Harvest(u)
<1>1. user \in [Users -> FarmPoolUserAccount]
  BY DEF IInv, TypeOK
<1>2. ASSUME NEW w \in Users, UserNext(w), w = u PROVE Own
  <2>1. \A i \in 1 .. Len(configs) : configs[i].duration \in Nat
    <3>1. configs \in Seq(DurationExtraRewardConfig)
      BY StakingAssumption DEF IInv, TypeOK
    <3>2. \A i \in 1 .. Len(configs) : configs[i] \in DurationExtraRewardConfig
      BY <3>1
    <3>3. QED
      BY <3>2 DEF DurationExtraRewardConfig
  <2>2. QED
    BY <1>2, <2>1 DEF UserNext, FundRewardToken
<1>3. ASSUME NEW w \in Users, UserNext(w), w # u PROVE user'[u] = user[u]
  BY <1>1, <1>3 DEF UserNext, CreateUser, Stake, UnStake, Harvest, FundRewardToken
<1>4. CASE AdminNext \/ Tick \/ UNCHANGED vars
  <2>1. UNCHANGED user
    BY <1>4 DEF AdminNext, CreatePool, ClosePool, ChangePoolPoint, ChangeTokensPerSecond,
                ChangeEarlyUnlockFee, ChangeProfileLevels, SetExtraRewardConfigs, Tick, vars
  <2>2. QED
    BY <2>1
<1>5. QED
  BY <1>2, <1>3, <1>4 DEF Next

(* No instruction, of the owner or of anybody else, moves the unlock time  *)
(* of a stake back: a stake can only lock longer, and what a withdrawal    *)
(* leaves is locked again from now for as long as before.                  *)
THEOREM LockKept == Spec => UnlockNeverEarlier
<1>1. ASSUME IInv, [Next]_vars, NEW u \in Users, user'[u].amount > 0
      PROVE  user'[u].last_stake_time + user'[u].lock_duration
               >= user[u].last_stake_time + user[u].lock_duration
  <2> USE <1>1 DEF IInv
  <2>1. /\ user \in [Users -> FarmPoolUserAccount] /\ user[u] \in FarmPoolUserAccount
        /\ user[u].last_stake_time \in Nat /\ user[u].lock_duration \in Nat
        /\ now \in Nat /\ user[u].last_stake_time <= now
    BY UserFields DEF TypeOK, StakedInPast
  <2>2. CASE user'[u] = user[u]
    BY <2>1, <2>2
  <2>3. ASSUME CreateUser(u) PROVE FALSE
    BY <2>1, <2>3, NoAccounts DEF CreateUser
  <2>4. ASSUME NEW amount \in 0 .. wallet[u], NEW lock \in Nat, Stake(u, amount, lock)
        PROVE  /\ user'[u].last_stake_time = now
               /\ user'[u].lock_duration \in Nat
               /\ user'[u].lock_duration >= user[u].lock_duration
    <3>1. amount \in Nat /\ CanSettle(u) /\ lock >= user[u].lock_duration
      BY <2>4 DEF Stake, LockAllowed, TypeOK
    <3>2. user'[u] = Staked(u, amount, lock)
      BY <2>1, <2>4 DEF Stake
    <3>3. /\ Staked(u, amount, lock).last_stake_time = now
          /\ Staked(u, amount, lock).lock_duration = lock
      BY <3>1, StakedType
    <3>4. QED
      BY <3>1, <3>2, <3>3
  <2>5. ASSUME NEW amount \in 0 .. user[u].amount, UnStake(u, amount)
        PROVE  /\ user'[u].last_stake_time = now
               /\ user'[u].lock_duration = user[u].lock_duration
    <3> DEFINE percentage == IF IsEarly(u) THEN 0
                             ELSE ExtraPercentage(user[u].lock_duration)
    <3>1. /\ percentage \in Nat /\ CanSettle(u)
          /\ amount \in Nat /\ amount <= user[u].amount /\ user[u].amount \in Nat
      BY <2>1, <2>5, ExtraPercentageType, UserFields DEF UnStake, CanUnStake
    <3>2. user'[u] = Unstaked(u, amount, percentage)
      BY <2>1, <2>5 DEF UnStake
    <3> HIDE DEF percentage
    <3>3. user'[u].amount = user[u].amount - amount /\ user'[u].last_stake_time = now
      BY <3>1, <3>2, UnstakedType
    <3>4. user[u].amount - amount # 0
      BY <3>3
    <3>5. QED
      BY <3>1, <3>2, <3>3, <3>4, UnstakedType
  <2>6. ASSUME Harvest(u)
        PROVE  /\ user'[u].last_stake_time = user[u].last_stake_time
               /\ user'[u].lock_duration = user[u].lock_duration
    <3> DEFINE settled == Settled(u, ExtraPercentage(user[u].lock_duration))
    <3>1. settled = [user[u] EXCEPT !.reward_amount = settled.reward_amount,
                                    !.extra_reward = settled.extra_reward]
      BY <2>1 DEF Settled, FarmPoolUserAccount
    <3>2. user'[u] = [settled EXCEPT !.reward_amount = 0, !.extra_reward = 0,
                                     !.reward_debt = RewardDebt(user[u].amount)]
      BY <2>1, <2>6 DEF Harvest
    <3> HIDE DEF settled
    <3>3. QED
      BY <2>1, <3>1, <3>2 DEF FarmPoolUserAccount
  <2>7. QED
    <3>1. CASE user'[u].last_stake_time = now /\ user'[u].lock_duration \in Nat
                 /\ user'[u].lock_duration >= user[u].lock_duration
      BY <2>1, <3>1
    <3>2. CASE user'[u].last_stake_time = user[u].last_stake_time
                 /\ user'[u].lock_duration = user[u].lock_duration
      BY <2>1, <3>2
    <3>3. QED
      BY <2>1, <2>2, <2>3, <2>4, <2>5, <2>6, <3>1, <3>2, OwnSteps
<1>2. IInv /\ [Next]_vars =>
        [\A u \in Users :
           user'[u].amount > 0 =>
             user'[u].last_stake_time + user'[u].lock_duration
               >= user[u].last_stake_time + user[u].lock_duration]_vars
  BY <1>1
<1>3. QED
  BY Invariant, <1>2, PTL DEF Spec, UnlockNeverEarlier

-----------------------------------------------------------------------------
(* The profile level.                                                      *)

PositiveThresholds ==
  \A l \in LevelConfigs : \A i \in 1 .. Len(l) : l[i] > 0

LEMMA NoStakeNoLevel ==
  ASSUME TypeOK, PositiveThresholds, NEW a \in FarmPoolUserAccount, Scored(a).amount = 0
  PROVE  Scored(a).profile_level = 0
<1>1. a.amount = 0 /\ a.lock_duration \in Nat
  BY ScoredType, UserFields
<1>2. ExtraPercentage(a.lock_duration) \in Nat
  BY <1>1, ExtraPercentageType
<1>3. ((a.amount * ExtraPercentage(a.lock_duration)) \div FULL_100) * 100 = 0
  <2>1. a.amount * ExtraPercentage(a.lock_duration) = 0
    BY <1>1, <1>2
  <2>2. 0 \div FULL_100 = 0
    BY StakingAssumption DEF FULL_100
  <2>3. QED
    BY <2>1, <2>2
<1>4. Scored(a).profile_level = ProfileLevel(0)
  BY <1>3 DEF Scored, FarmPoolUserAccount
<1>5. ProfileLevel(0) = 0
  <2>1. SUFFICES ASSUME ProfileLevel(0) # 0 PROVE FALSE
    OBVIOUS
  <2> DEFINE i == ProfileLevel(0)
  <2>2. i \in 1 .. Len(state.profile_levels) /\ state.profile_levels[i] <= 0
    BY <2>1, ProfileLevelType
  <2>3. state.profile_levels \in LevelConfigs /\ state.profile_levels \in Seq(Nat)
    BY StakingAssumption DEF TypeOK, StateAccount
  <2>4. state.profile_levels[i] > 0
    BY <2>2, <2>3 DEF PositiveThresholds
  <2>5. state.profile_levels[i] \in Nat
    BY <2>2, <2>3
  <2>6. QED
    BY <2>2, <2>4, <2>5
<1>6. QED
  BY <1>4, <1>5

(* The level is earned by tokens in the account: withdrawing the last one  *)
(* takes the level away in the same transaction, provided no threshold is  *)
(* zero (the program takes any).                                           *)
THEOREM LevelNeedsStake ==
  ASSUME PositiveThresholds
  PROVE  Spec => []NoLevelWithoutStake
<1>1. Init => NoLevelWithoutStake
  BY NoAccounts DEF Init, NoLevelWithoutStake
<1>2. ASSUME IInv, NoLevelWithoutStake, [Next]_vars
      PROVE  NoLevelWithoutStake'
  <2> SUFFICES ASSUME NEW u \in Users, user'[u].amount = 0
               PROVE  user'[u].profile_level = 0
    BY DEF NoLevelWithoutStake
  <2> USE <1>2 DEF IInv
  <2>1. user \in [Users -> FarmPoolUserAccount] /\ user[u] \in FarmPoolUserAccount
    BY DEF TypeOK
  <2>2. CASE user'[u] = user[u]
    BY <2>2 DEF NoLevelWithoutStake
  <2>3. CASE CreateUser(u)
    BY <2>1, <2>3, NoAccounts DEF CreateUser
  <2>4. ASSUME NEW amount \in 0 .. wallet[u], NEW lock \in Nat, Stake(u, amount, lock)
        PROVE  \E a \in FarmPoolUserAccount : user'[u] = Scored(a)
    <3>1. amount \in Nat /\ CanSettle(u) /\ user'[u] = Staked(u, amount, lock)
      BY <2>1, <2>4 DEF Stake, TypeOK
    <3>2. \E a \in FarmPoolUserAccount : Staked(u, amount, lock) = Scored(a)
      BY <3>1, StakedType
    <3>3. QED
      BY <3>1, <3>2
  <2>5. ASSUME NEW amount \in 0 .. user[u].amount, UnStake(u, amount)
        PROVE  \E a \in FarmPoolUserAccount : user'[u] = Scored(a)
    <3> DEFINE percentage == IF IsEarly(u) THEN 0
                             ELSE ExtraPercentage(user[u].lock_duration)
    <3>1. /\ percentage \in Nat /\ CanSettle(u)
          /\ amount \in Nat /\ amount <= user[u].amount
      BY <2>1, <2>5, ExtraPercentageType, UserFields DEF UnStake, CanUnStake
    <3>2. user'[u] = Unstaked(u, amount, percentage)
      BY <2>1, <2>5 DEF UnStake
    <3> HIDE DEF percentage
    <3>3. QED
      BY <3>1, <3>2, UnstakedType
  <2>6. ASSUME Harvest(u)
        PROVE  /\ user'[u].amount = user[u].amount
               /\ user'[u].profile_level = user[u].profile_level
    <3> DEFINE settled == Settled(u, ExtraPercentage(user[u].lock_duration))
    <3>1. settled = [user[u] EXCEPT !.reward_amount = settled.reward_amount,
                                    !.extra_reward = settled.extra_reward]
      BY <2>1 DEF Settled, FarmPoolUserAccount
    <3>2. user'[u] = [settled EXCEPT !.reward_amount = 0, !.extra_reward = 0,
                                     !.reward_debt = RewardDebt(user[u].amount)]
      BY <2>1, <2>6 DEF Harvest
    <3> HIDE DEF settled
    <3>3. QED
      BY <2>1, <3>1, <3>2 DEF FarmPoolUserAccount
  <2>7. QED
    BY <2>2, <2>3, <2>4, <2>5, <2>6, OwnSteps, NoStakeNoLevel DEF NoLevelWithoutStake
<1>3. QED
  BY <1>1, <1>2, Invariant, PTL DEF Spec
=============================================================================
