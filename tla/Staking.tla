------------------------------ MODULE Staking -------------------------------
(***************************************************************************)
(* The staking program programs/unloc-staking: one farm pool of UNLOC, the *)
(* stake accounts of its users, the rewards each earns by its share of the *)
(* pool, the lock on a stake and the fee for leaving before it ends.       *)
(*                                                                         *)
(* A handler is one atomic action.  A checked subtraction or division that *)
(* would fail, a token transfer without the balance and an account         *)
(* constraint are guards.  Both create_state and                           *)
(* create_extra_reward_configs have run: Init is what they leave.          *)
(*                                                                         *)
(* ACC_PRECISION, the unit of acc_reward_per_share, of the early unlock    *)
(* fee and (as FULL_100) of percentages, is a constant of the model, small *)
(* in TLC so that the divisions round; so is U32_RANGE, 2^32.  A stake     *)
(* account stands for an authority with one of the allowed seeds; it has   *)
(* its own wallet.                                                         *)
(***************************************************************************)
EXTENDS Naturals, Sequences, FiniteSets, Functions

CONSTANTS
  Users,                   \* stake accounts (authority, stake_seed)
  ACC_PRECISION,
  U32_RANGE,               \* 2^32, the values of a Vec's length prefix
  Points,                  \* values of FarmPoolAccount.point
  Rates,                   \* values of StateAccount.token_per_second
  Fees,                    \* values of StateAccount.early_unlock_fee
  LevelConfigs,            \* values of StateAccount.profile_levels
  RewardConfigs,           \* values of ExtraRewardsAccount.configs
  InitialWallets,          \* [Users -> Nat], tokens before any staking
  InitialReward,           \* reward vault at the start
  StartTime, MaxTime       \* bounds of the clock

FULL_100 == ACC_PRECISION

(* extra_rewards_account.rs, validate: neither column decreases.           *)
ValidConfigs(c) ==
  Len(c) > 1 =>
    \A i, j \in 1 .. Len(c) :
      i < j => /\ c[i].duration <= c[j].duration
               /\ c[i].extra_percentage <= c[j].extra_percentage

DurationExtraRewardConfig == [duration : Nat, extra_percentage : Nat]

ASSUME StakingAssumption ==
  /\ IsFiniteSet(Users)
  /\ ACC_PRECISION \in Nat \ {0}
  /\ U32_RANGE \in Nat \ {0}
  /\ Points \subseteq Nat
  /\ Rates \subseteq Nat
  /\ Fees \subseteq Nat
  /\ LevelConfigs \subseteq Seq(Nat)
  /\ RewardConfigs \subseteq Seq(DurationExtraRewardConfig)
  /\ InitialWallets \in [Users -> Nat]
  /\ InitialReward \in Nat
  /\ StartTime \in Nat \ {0}
  /\ MaxTime \in Nat

VARIABLES
  now,                                            \* Clock.unix_timestamp
  state,                                          \* StateAccount
  configs,                                        \* ExtraRewardsAccount.configs
  pool,                                           \* FarmPoolAccount
  user,                                           \* FarmPoolUserAccounts
  wallet, pool_vault, fee_vault, reward_vault     \* token balances

vaults == <<wallet, pool_vault, fee_vault, reward_vault>>
vars == <<now, state, configs, pool, user, vaults>>

NoPool ==
  [open |-> FALSE, amount |-> 0, point |-> 0, last_reward_time |-> 0,
   acc_reward_per_share |-> 0, total_user |-> 0]

FreshUser ==
  [open |-> TRUE, amount |-> 0, reward_amount |-> 0, extra_reward |-> 0,
   reward_debt |-> 0, last_stake_time |-> 0, lock_duration |-> 0,
   unloc_score |-> 0, profile_level |-> 0]

NoUser == [FreshUser EXCEPT !.open = FALSE]

Init ==
  /\ now = StartTime
  /\ \E r \in Rates, f \in Fees, l \in LevelConfigs :
       state = [total_point |-> 0, token_per_second |-> r,
                early_unlock_fee |-> f, profile_levels |-> l]
  /\ configs \in {c \in RewardConfigs : ValidConfigs(c)}
  /\ pool = NoPool
  /\ user = [u \in Users |-> NoUser]
  /\ wallet = InitialWallets
  /\ pool_vault = 0
  /\ fee_vault = 0
  /\ reward_vault = InitialReward

-----------------------------------------------------------------------------
(* Reward arithmetic.                                                      *)

(* FarmPoolAccount.update adds this to acc_reward_per_share.               *)
RewardPerShare ==
  LET seconds == now - pool.last_reward_time IN
  IF pool.amount > 0 /\ seconds > 0 /\ pool.point > 0
  THEN ((state.token_per_second * seconds * pool.point * ACC_PRECISION)
         \div state.total_point) \div pool.amount
  ELSE 0

AccNow == pool.acc_reward_per_share + RewardPerShare

(* Faulty variant (see below): `update` that leaves last_reward_time alone. *)
UpdatedPoolSameTime == [pool EXCEPT !.acc_reward_per_share = AccNow]

UpdatedPool ==
  [pool EXCEPT !.acc_reward_per_share = AccNow, !.last_reward_time = now]

(* calculate_reward_debt, once the pool is updated.                        *)
RewardDebt(amount) == (amount * AccNow) \div ACC_PRECISION

(* The checked operations of `update` and calculate_reward_amount succeed. *)
CanSettle(u) ==
  /\ pool.amount > 0 /\ now > pool.last_reward_time /\ pool.point > 0
       => state.total_point > 0
  /\ user[u].reward_debt <= RewardDebt(user[u].amount)

Pending(u) == RewardDebt(user[u].amount) - user[u].reward_debt

(* get_extra_reward_percentage: the last tier the lock reaches.            *)
ExtraPercentage(lock) ==
  LET tiers == {i \in 1 .. Len(configs) : configs[i].duration <= lock} IN
  IF tiers = {} THEN 0
  ELSE configs[CHOOSE i \in tiers : \A j \in tiers : j <= i].extra_percentage

(* calculate_reward_amount *)
Settled(u, percentage) ==
  [user[u] EXCEPT !.reward_amount = @ + Pending(u),
                  !.extra_reward = @ + (Pending(u) * percentage) \div FULL_100]

(* get_profile_level: the number of the highest threshold reached.         *)
ProfileLevel(score) ==
  LET reached == {i \in 1 .. Len(state.profile_levels) :
                    state.profile_levels[i] <= score} IN
  IF reached = {} THEN 0 ELSE CHOOSE i \in reached : \A j \in reached : j <= i

(* update_score_and_level *)
Scored(account) ==
  LET score == ((account.amount * ExtraPercentage(account.lock_duration))
                  \div FULL_100) * 100 IN
  [account EXCEPT !.unloc_score = score, !.profile_level = ProfileLevel(score)]

IsEarly(u) == user[u].last_stake_time + user[u].lock_duration > now

EarlyUnlockFee(amount) == (amount * state.early_unlock_fee) \div ACC_PRECISION

(* What unstake keeps of an amount.                                        *)
UnStakeFee(u, amount) == IF IsEarly(u) THEN EarlyUnlockFee(amount) ELSE 0

-----------------------------------------------------------------------------
(* Faulty variants.  No action uses them: each shows that a property tells *)
(* the code from a plausible mistake.                                      *)

(* stake that forgets to settle before it changes the amount *)
StakedUnsettled(u, amount, lock) ==
  Scored([user[u] EXCEPT !.amount = @ + amount,
                         !.lock_duration = lock,
                         !.reward_debt = RewardDebt(user[u].amount + amount),
                         !.last_stake_time = now])

(* unstake that keeps the reward debt of the larger amount *)
UnstakedStaleDebt(u, amount, percentage) ==
  LET rest == user[u].amount - amount IN
  Scored([Settled(u, percentage) EXCEPT
            !.amount = rest,
            !.lock_duration = IF rest = 0 THEN 0 ELSE @,
            !.reward_debt = RewardDebt(user[u].amount),
            !.last_stake_time = now])

(* unstake without update_score_and_level *)
UnstakedSameScore(u, amount, percentage) ==
  LET rest == user[u].amount - amount IN
  [Settled(u, percentage) EXCEPT
     !.amount = rest,
     !.lock_duration = IF rest = 0 THEN 0 ELSE @,
     !.reward_debt = RewardDebt(rest),
     !.last_stake_time = now]

(* close_pool without its constraint on the amount *)
ClosePoolAnyAmount ==
  /\ pool.open
  /\ pool' = NoPool
  /\ state' = [state EXCEPT !.total_point = @ - pool.point]
  /\ UNCHANGED <<now, configs, user, vaults>>

(* change_pool_point that adds the new point without removing the old *)
ChangePoolPointAdding(point) ==
  /\ pool.open
  /\ state' = [state EXCEPT !.total_point = @ + point]
  /\ pool' = [pool EXCEPT !.point = point]
  /\ UNCHANGED <<now, configs, user, vaults>>

(* change_pool_point with the two points exchanged *)
ChangePoolPointSwapped(point) ==
  /\ pool.open
  /\ state' = [state EXCEPT !.total_point = (@ - point) + pool.point]
  /\ pool' = [pool EXCEPT !.point = point]
  /\ UNCHANGED <<now, configs, user, vaults>>

(* a stake may shorten the lock *)
AnyLock(u, lock) == \E i \in 1 .. Len(configs) : configs[i].duration = lock

-----------------------------------------------------------------------------
(* User instructions.                                                      *)

(* validate_lock_duration and the constraint on the user account           *)
LockAllowed(u, lock) ==
  /\ \E i \in 1 .. Len(configs) : configs[i].duration = lock
  /\ lock >= user[u].lock_duration

(* The reward so far is settled at the percentage of the old lock.         *)
Staked(u, amount, lock) ==
  Scored([Settled(u, ExtraPercentage(user[u].lock_duration)) EXCEPT
            !.amount = @ + amount,
            !.lock_duration = lock,
            !.reward_debt = RewardDebt(user[u].amount + amount),
            !.last_stake_time = now])

(* What stays in the account is locked again from now.                     *)
Unstaked(u, amount, percentage) ==
  LET rest == user[u].amount - amount IN
  Scored([Settled(u, percentage) EXCEPT
            !.amount = rest,
            !.lock_duration = IF rest = 0 THEN 0 ELSE @,
            !.reward_debt = RewardDebt(rest),
            !.last_stake_time = now])

CreateUser(u) ==
  /\ pool.open
  /\ ~user[u].open
  /\ user' = [user EXCEPT ![u] = FreshUser]
  /\ pool' = [pool EXCEPT !.total_user = @ + 1]
  /\ UNCHANGED <<now, state, configs, vaults>>

Stake(u, amount, lock) ==
  /\ pool.open /\ user[u].open
  /\ LockAllowed(u, lock)
  /\ CanSettle(u)
  /\ amount <= wallet[u]
  /\ user' = [user EXCEPT ![u] = Staked(u, amount, lock)]
  /\ pool' = [UpdatedPool EXCEPT !.amount = @ + amount]
  /\ wallet' = [wallet EXCEPT ![u] = @ - amount]
  /\ pool_vault' = pool_vault + amount
  /\ UNCHANGED <<now, state, configs, fee_vault, reward_vault>>

(* All that unstake requires: the accounts exist, and no checked operation *)
(* and no transfer fails.                                                  *)
CanUnStake(u, amount) ==
  /\ pool.open /\ user[u].open
  /\ CanSettle(u)
  /\ amount <= user[u].amount
  /\ amount <= pool.amount
  /\ amount <= pool_vault
  /\ UnStakeFee(u, amount) <= amount

(* Faulty variant: the fee is credited to the fee vault and not taken from *)
(* the pool's vault.                                                       *)
UnStakeFeeNotTaken(u, amount) ==
  LET fee == UnStakeFee(u, amount)
      percentage == IF IsEarly(u) THEN 0 ELSE ExtraPercentage(user[u].lock_duration)
  IN
  /\ CanUnStake(u, amount)
  /\ user' = [user EXCEPT ![u] = Unstaked(u, amount, percentage)]
  /\ pool' = [UpdatedPool EXCEPT !.amount = @ - amount]
  /\ wallet' = [wallet EXCEPT ![u] = @ + (amount - fee)]
  /\ fee_vault' = fee_vault + fee
  /\ pool_vault' = pool_vault - (amount - fee)
  /\ UNCHANGED <<now, state, configs, reward_vault>>

(* Before the lock ends the extra reward is lost and a fee is kept.        *)
UnStake(u, amount) ==
  LET fee == UnStakeFee(u, amount)
      percentage == IF IsEarly(u) THEN 0 ELSE ExtraPercentage(user[u].lock_duration)
  IN
  /\ CanUnStake(u, amount)
  /\ user' = [user EXCEPT ![u] = Unstaked(u, amount, percentage)]
  /\ pool' = [UpdatedPool EXCEPT !.amount = @ - amount]
  /\ wallet' = [wallet EXCEPT ![u] = @ + (amount - fee)]
  /\ fee_vault' = fee_vault + fee
  /\ pool_vault' = pool_vault - amount
  /\ UNCHANGED <<now, state, configs, reward_vault>>

Harvest(u) ==
  LET settled == Settled(u, ExtraPercentage(user[u].lock_duration))
      total_reward == settled.reward_amount + settled.extra_reward
  IN
  /\ pool.open /\ user[u].open
  /\ CanSettle(u)
  /\ total_reward <= reward_vault
  /\ user' = [user EXCEPT ![u] =
                [settled EXCEPT !.reward_amount = 0, !.extra_reward = 0,
                                !.reward_debt = RewardDebt(user[u].amount)]]
  /\ pool' = UpdatedPool
  /\ wallet' = [wallet EXCEPT ![u] = @ + total_reward]
  /\ reward_vault' = reward_vault - total_reward
  /\ UNCHANGED <<now, state, configs, pool_vault, fee_vault>>

-----------------------------------------------------------------------------
(* Administrator instructions.  The handlers that change a rate or a point *)
(* call `update` on pools passed as remaining accounts, but on a copy that *)
(* is never written back: the pool itself is not updated.                  *)

CreatePool(point) ==
  /\ ~pool.open
  /\ pool' = [NoPool EXCEPT !.open = TRUE, !.point = point]
  /\ state' = [state EXCEPT !.total_point = @ + point]
  /\ UNCHANGED <<now, configs, user, vaults>>

ClosePool ==
  /\ pool.open
  /\ pool.amount = 0
  /\ pool.point <= state.total_point
  /\ pool' = NoPool
  /\ state' = [state EXCEPT !.total_point = @ - pool.point]
  /\ UNCHANGED <<now, configs, user, vaults>>

ChangePoolPoint(point) ==
  /\ pool.open
  /\ pool.point <= state.total_point
  /\ state' = [state EXCEPT !.total_point = (@ - pool.point) + point]
  /\ pool' = [pool EXCEPT !.point = point]
  /\ UNCHANGED <<now, configs, user, vaults>>

ChangeTokensPerSecond(rate) ==
  /\ state' = [state EXCEPT !.token_per_second = rate]
  /\ UNCHANGED <<now, configs, pool, user, vaults>>

(* The accounts of change_early_unlock_fee declare profile_levels as the   *)
(* instruction's argument, so the eight bytes of the fee are first read as *)
(* a Vec<u128>: four of length, then nothing that could hold an element.   *)
ReadableAsLevels(fee) == fee % U32_RANGE = 0

ChangeEarlyUnlockFee(fee) ==
  /\ ReadableAsLevels(fee)
  /\ state' = [state EXCEPT !.early_unlock_fee = fee]
  /\ UNCHANGED <<now, configs, pool, user, vaults>>

ChangeProfileLevels(levels) ==
  /\ state' = [state EXCEPT !.profile_levels = levels]
  /\ UNCHANGED <<now, configs, pool, user, vaults>>

SetExtraRewardConfigs(c) ==
  /\ ValidConfigs(c)
  /\ configs' = c
  /\ UNCHANGED <<now, state, pool, user, vaults>>

(* Anybody may fund the reward vault.                                      *)
FundRewardToken(u, amount) ==
  /\ amount <= wallet[u]
  /\ wallet' = [wallet EXCEPT ![u] = @ - amount]
  /\ reward_vault' = reward_vault + amount
  /\ UNCHANGED <<now, state, configs, pool, user, pool_vault, fee_vault>>

Tick ==
  /\ now < MaxTime
  /\ now' = now + 1
  /\ UNCHANGED <<state, configs, pool, user, vaults>>

UserNext(u) ==
  \/ CreateUser(u)
  \/ \E amount \in 0 .. wallet[u] :
       \E i \in 1 .. Len(configs) : Stake(u, amount, configs[i].duration)
  \/ \E amount \in 0 .. user[u].amount : UnStake(u, amount)
  \/ Harvest(u)
  \/ \E amount \in 1 .. wallet[u] : FundRewardToken(u, amount)

AdminNext ==
  \/ \E point \in Points : CreatePool(point) \/ ChangePoolPoint(point)
  \/ ClosePool
  \/ \E rate \in Rates : ChangeTokensPerSecond(rate)
  \/ \E fee \in Fees : ChangeEarlyUnlockFee(fee)
  \/ \E levels \in LevelConfigs : ChangeProfileLevels(levels)
  \/ \E c \in RewardConfigs : SetExtraRewardConfigs(c)

Next == (\E u \in Users : UserNext(u)) \/ AdminNext \/ Tick

Spec == Init /\ [][Next]_vars

-----------------------------------------------------------------------------
(* Properties.                                                             *)

StateAccount ==
  [total_point : Nat, token_per_second : Rates, early_unlock_fee : Fees,
   profile_levels : LevelConfigs]

FarmPoolAccount ==
  [open : BOOLEAN, amount : Nat, point : Nat, last_reward_time : Nat,
   acc_reward_per_share : Nat, total_user : Nat]

FarmPoolUserAccount ==
  [open : BOOLEAN, amount : Nat, reward_amount : Nat, extra_reward : Nat,
   reward_debt : Nat, last_stake_time : Nat, lock_duration : Nat,
   unloc_score : Nat, profile_level : Nat]

TypeOK ==
  /\ now \in Nat \ {0}
  /\ state \in StateAccount
  /\ configs \in RewardConfigs
  /\ pool \in FarmPoolAccount
  /\ user \in [Users -> FarmPoolUserAccount]
  /\ wallet \in [Users -> Nat]
  /\ pool_vault \in Nat /\ fee_vault \in Nat /\ reward_vault \in Nat

(* state.total_point is the sum of the points of the pools, so `update`    *)
(* divides by a positive number whenever it divides.                       *)
PointsAgree == state.total_point = pool.point

(* The pool's vault holds exactly the stakes of all accounts, and the pool *)
(* knows it: nobody's stake can pay for another's.                         *)
StakesBacked ==
  /\ pool.amount = SumFunction([u \in Users |-> user[u].amount])
  /\ pool_vault = pool.amount

(* The checked subtraction of the reward debt never fails, also after a    *)
(* pool is closed and created again with acc_reward_per_share at zero.     *)
DebtCovered ==
  \A u \in Users : user[u].reward_debt <= RewardDebt(user[u].amount)

(* With a fee of at most 100 percent (the code takes any) a staker can     *)
(* always withdraw everything at once: nothing that an administrator or    *)
(* another user did before makes a check of unstake fail.                  *)
WithdrawalPossible ==
  \A u \in Users : user[u].amount > 0 => CanUnStake(u, user[u].amount)

(* The profile level, which the loan program trusts, is never held by an   *)
(* account without a stake.                                                *)
NoLevelWithoutStake ==
  \A u \in Users : user[u].amount = 0 => user[u].profile_level = 0

(* While tokens stay in an account its unlock time never moves back.       *)
UnlockNeverEarlier ==
  [][\A u \in Users :
       user'[u].amount > 0 =>
         user'[u].last_stake_time + user'[u].lock_duration
           >= user[u].last_stake_time + user[u].lock_duration]_vars

Owed(u) == user[u].reward_amount + Pending(u)

(* Within one second and one configuration, transactions of anybody leave  *)
(* what each user is owed as it is, except a harvest, which leaves zero:   *)
(* stakes and withdrawals share out only what is still to be earned.       *)
OwedUntouched ==
  [][UNCHANGED <<now, state>> =>
       \A u \in Users :
         \/ Owed(u)' = Owed(u)
         \/ reward_vault' < reward_vault /\ Owed(u)' = 0 /\ user'[u] # user[u]]_vars

(* README, Early unlock fee: the fee is paid to unlock "before the expiry  *)
(* date".  Taking part of an expired stake leaves the rest expired.        *)
ExpiredStaysUnlocked ==
  [][\A u \in Users :
       ~IsEarly(u) /\ 0 < user'[u].amount /\ user'[u].amount < user[u].amount
       => ~IsEarly(u)']_vars

(* change_early_unlock_fee takes any u64: whatever fee the administrator   *)
(* chooses, the instruction that sets it succeeds.                         *)
FeeCanBeChanged == \A fee \in Fees : ENABLED ChangeEarlyUnlockFee(fee)
=============================================================================
