------------------------ MODULE StakingRewardsProofs ------------------------
(***************************************************************************)
(* Proofs about the stakes and rewards of Staking that relate all accounts *)
(* of a pool: the sum of the stakes, the reward debts, what is owed, and   *)
(* what the client shows of it.                                            *)
(***************************************************************************)
EXTENDS StakingProofs, StakingClient, Emission, Sums

-----------------------------------------------------------------------------
(* Arithmetic.                                                             *)

LEMMA TimesMonotone ==
  ASSUME NEW n \in Nat, NEW a \in Nat, NEW b \in Nat, a <= b
  PROVE  n * a <= n * b
  OBVIOUS

LEMMA DivMonotone ==
  ASSUME NEW a \in Nat, NEW b \in Nat, a <= b, NEW d \in Nat \ {0}
  PROVE  a \div d <= b \div d
  OBVIOUS

LEMMA Division ==
  ASSUME NEW n \in Nat, NEW d \in Nat \ {0}
  PROVE  n \div d \in Nat /\ d * (n \div d) <= n /\ n < d * (n \div d) + d
  OBVIOUS

(* A larger accumulator gives at least the same share.                     *)
LEMMA ShareMonotone ==
  ASSUME NEW n \in Nat, NEW a \in Nat, NEW b \in Nat, a <= b
  PROVE  (n * a) \div ACC_PRECISION <= (n * b) \div ACC_PRECISION
<1>1. n * a \in Nat /\ n * b \in Nat
  BY MulNat
<1>2. n * a <= n * b
  BY TimesMonotone
<1>3. QED
  BY <1>1, <1>2, DivMonotone, StakingAssumption

-----------------------------------------------------------------------------
(* The accounts after an instruction, field by field.                      *)

LEMMA ScoredKeeps ==
  ASSUME NEW a \in FarmPoolUserAccount
  PROVE  /\ Scored(a).open = a.open
         /\ Scored(a).amount = a.amount
         /\ Scored(a).reward_amount = a.reward_amount
         /\ Scored(a).extra_reward = a.extra_reward
         /\ Scored(a).reward_debt = a.reward_debt
  BY DEF Scored, FarmPoolUserAccount

Extra(u, percentage) == (Pending(u) * percentage) \div FULL_100

LEMMA SettledFields ==
  ASSUME TypeOK, NEW u \in Users, NEW percentage
  PROVE  LET a == Settled(u, percentage) IN
         /\ a.open = user[u].open
         /\ a.amount = user[u].amount
         /\ a.reward_amount = user[u].reward_amount + Pending(u)
         /\ a.extra_reward = user[u].extra_reward + Extra(u, percentage)
  BY DEF TypeOK, Settled, Extra, FarmPoolUserAccount

(* What stake, unstake and harvest of account u have in common.            *)
Settles(u) ==
  /\ CanSettle(u) /\ pool.open /\ user[u].open
  /\ UNCHANGED <<now, state, configs>>
  /\ pool'.acc_reward_per_share = AccNow
  /\ pool'.last_reward_time = now
  /\ pool'.point = pool.point
  /\ pool'.open = pool.open
  /\ pool'.amount + user[u].amount = pool.amount + user'[u].amount
  /\ pool_vault' + user[u].amount = pool_vault + user'[u].amount
  /\ user'[u].open = user[u].open
  /\ user'[u].reward_debt = RewardDebt(user'[u].amount)
  /\ \A w \in Users \ {u} : user'[w] = user[w]

(* stake and unstake keep what they settle in the account.                 *)
KeepsReward(u, percentage) ==
  /\ user'[u].reward_amount = user[u].reward_amount + Pending(u)
  /\ user'[u].extra_reward = user[u].extra_reward + Extra(u, percentage)

LEMMA StakeSettles ==
  ASSUME IInv, NEW u \in Users, NEW amount \in Nat, NEW lock \in Nat, amount <= wallet[u],
         Stake(u, amount, lock)
  PROVE  /\ Settles(u)
         /\ KeepsReward(u, ExtraPercentage(user[u].lock_duration))
         /\ user'[u].amount = user[u].amount + amount
<1> USE DEF IInv
<1> DEFINE settled == Settled(u, ExtraPercentage(user[u].lock_duration))
           total == user[u].amount + amount
           debt == RewardDebt(total)
           account == [settled EXCEPT !.amount = total, !.lock_duration = lock,
                                      !.reward_debt = debt, !.last_stake_time = now]
<1>1. /\ user[u] \in FarmPoolUserAccount /\ user[u].amount \in Nat
      /\ user[u].lock_duration \in Nat /\ now \in Nat /\ pool_vault \in Nat
      /\ pool \in FarmPoolAccount /\ pool.amount \in Nat
  BY UserFields DEF TypeOK, FarmPoolAccount
<1>2. /\ CanSettle(u) /\ pool.open /\ user[u].open
      /\ user' = [user EXCEPT ![u] = Staked(u, amount, lock)]
      /\ pool_vault' = pool_vault + amount
      /\ UNCHANGED <<now, state, configs>>
  BY DEF Stake
<1>3. settled \in FarmPoolUserAccount
  BY <1>1, <1>2, SettledType, ExtraPercentageType
<1>4. total \in Nat /\ debt \in Nat
  BY <1>1, RewardDebtType
<1>5. Staked(u, amount, lock) = Scored(account)
  <2>1. settled.amount = user[u].amount
    BY <1>1, SettledFields
  <2>2. QED
    BY <2>1 DEF Staked
<1>6. /\ settled.open = user[u].open
      /\ settled.reward_amount = user[u].reward_amount + Pending(u)
      /\ settled.extra_reward
           = user[u].extra_reward + Extra(u, ExtraPercentage(user[u].lock_duration))
  BY SettledFields
<1> HIDE DEF settled, debt, total
<1>7. /\ account \in FarmPoolUserAccount
      /\ account.open = settled.open
      /\ account.amount = total
      /\ account.reward_amount = settled.reward_amount
      /\ account.extra_reward = settled.extra_reward
      /\ account.reward_debt = debt
  BY <1>1, <1>3, <1>4 DEF FarmPoolUserAccount
<1> HIDE DEF account
<1>8. /\ user'[u] = Scored(account)
      /\ \A w \in Users \ {u} : user'[w] = user[w]
  BY <1>2, <1>5 DEF TypeOK
<1> USE DEF total
<1>9. /\ user'[u].open = user[u].open
      /\ user'[u].amount = total
      /\ user'[u].reward_debt = debt
      /\ KeepsReward(u, ExtraPercentage(user[u].lock_duration))
  BY <1>6, <1>7, <1>8, ScoredKeeps DEF KeepsReward
<1>10. pool' = [UpdatedPool EXCEPT !.amount = pool.amount + amount]
  BY UpdatedPoolType DEF Stake
<1>11. /\ pool'.acc_reward_per_share = AccNow /\ pool'.last_reward_time = now
       /\ pool'.point = pool.point /\ pool'.open = pool.open
       /\ pool'.amount = pool.amount + amount
  BY <1>1, <1>10 DEF UpdatedPool, FarmPoolAccount
<1>12. /\ pool'.amount + user[u].amount = pool.amount + user'[u].amount
       /\ pool_vault' + user[u].amount = pool_vault + user'[u].amount
  BY <1>1, <1>2, <1>9, <1>11
<1>13. user'[u].reward_debt = RewardDebt(user'[u].amount)
  BY <1>9 DEF debt
<1>14. Settles(u)
  BY <1>2, <1>8, <1>9, <1>11, <1>12, <1>13 DEF Settles
<1>15. QED
  BY <1>9, <1>14

UnStakePercentage(u) == IF IsEarly(u) THEN 0 ELSE ExtraPercentage(user[u].lock_duration)

LEMMA UnStakeSettles ==
  ASSUME IInv, NEW u \in Users, NEW amount \in Nat, UnStake(u, amount)
  PROVE  /\ Settles(u)
         /\ KeepsReward(u, UnStakePercentage(u))
         /\ user'[u].amount = user[u].amount - amount
<1> USE DEF IInv
<1> DEFINE settled == Settled(u, UnStakePercentage(u))
           rest == user[u].amount - amount
           debt == RewardDebt(rest)
           lock == IF rest = 0 THEN 0 ELSE user[u].lock_duration
           account == [settled EXCEPT !.amount = rest, !.lock_duration = lock,
                                      !.reward_debt = debt, !.last_stake_time = now]
<1>1. /\ user[u] \in FarmPoolUserAccount /\ user[u].amount \in Nat
      /\ user[u].lock_duration \in Nat /\ now \in Nat /\ pool_vault \in Nat
      /\ pool \in FarmPoolAccount /\ pool.amount \in Nat
  BY UserFields DEF TypeOK, FarmPoolAccount
<1>2. /\ CanSettle(u) /\ pool.open /\ user[u].open
      /\ amount <= user[u].amount /\ amount <= pool.amount /\ amount <= pool_vault
      /\ user' = [user EXCEPT ![u] = Unstaked(u, amount, UnStakePercentage(u))]
      /\ pool_vault' = pool_vault - amount
      /\ UNCHANGED <<now, state, configs>>
  BY DEF UnStake, CanUnStake, UnStakePercentage
<1>3. settled \in FarmPoolUserAccount
  <2>1. UnStakePercentage(u) \in Nat
    BY <1>1, ExtraPercentageType DEF UnStakePercentage
  <2>2. QED
    BY <1>2, <2>1, SettledType
<1>4. rest \in Nat /\ debt \in Nat /\ lock \in Nat
  BY <1>1, <1>2, RewardDebtType
<1>5. Unstaked(u, amount, UnStakePercentage(u)) = Scored(account)
  <2>1. settled.lock_duration = user[u].lock_duration
    BY <1>1 DEF Settled, FarmPoolUserAccount
  <2>2. QED
    BY <2>1 DEF Unstaked
<1>6. /\ settled.open = user[u].open
      /\ settled.reward_amount = user[u].reward_amount + Pending(u)
      /\ settled.extra_reward = user[u].extra_reward + Extra(u, UnStakePercentage(u))
  BY SettledFields
<1> HIDE DEF settled, debt, lock, rest
<1>7. /\ account \in FarmPoolUserAccount
      /\ account.open = settled.open
      /\ account.amount = rest
      /\ account.reward_amount = settled.reward_amount
      /\ account.extra_reward = settled.extra_reward
      /\ account.reward_debt = debt
  BY <1>1, <1>3, <1>4 DEF FarmPoolUserAccount
<1> HIDE DEF account
<1>8. /\ user'[u] = Scored(account)
      /\ \A w \in Users \ {u} : user'[w] = user[w]
  BY <1>2, <1>5 DEF TypeOK
<1> USE DEF rest
<1>9. /\ user'[u].open = user[u].open
      /\ user'[u].amount = rest
      /\ user'[u].reward_debt = debt
      /\ KeepsReward(u, UnStakePercentage(u))
  BY <1>6, <1>7, <1>8, ScoredKeeps DEF KeepsReward
<1>10. pool' = [UpdatedPool EXCEPT !.amount = pool.amount - amount]
  BY UpdatedPoolType DEF UnStake
<1>11. /\ pool'.acc_reward_per_share = AccNow /\ pool'.last_reward_time = now
       /\ pool'.point = pool.point /\ pool'.open = pool.open
       /\ pool'.amount = pool.amount - amount
  BY <1>1, <1>10 DEF UpdatedPool, FarmPoolAccount
<1>12. /\ pool'.amount + user[u].amount = pool.amount + user'[u].amount
       /\ pool_vault' + user[u].amount = pool_vault + user'[u].amount
  BY <1>1, <1>2, <1>9, <1>11
<1>13. user'[u].reward_debt = RewardDebt(user'[u].amount)
  BY <1>9 DEF debt
<1>14. Settles(u)
  BY <1>2, <1>8, <1>9, <1>11, <1>12, <1>13 DEF Settles
<1>15. QED
  BY <1>9, <1>14

LEMMA HarvestSettles ==
  ASSUME IInv, NEW u \in Users, Harvest(u)
  PROVE  /\ Settles(u)
         /\ user'[u].amount = user[u].amount
         /\ user'[u].reward_amount = 0
         /\ wallet'[u] = wallet[u] + ((user[u].reward_amount + Pending(u))
              + (user[u].extra_reward + Extra(u, ExtraPercentage(user[u].lock_duration))))
<1> USE DEF IInv
<1> DEFINE settled == Settled(u, ExtraPercentage(user[u].lock_duration))
           debt == RewardDebt(user[u].amount)
           account == [settled EXCEPT !.reward_amount = 0, !.extra_reward = 0,
                                      !.reward_debt = debt]
<1>1. /\ user[u] \in FarmPoolUserAccount /\ user[u].amount \in Nat
      /\ user[u].lock_duration \in Nat /\ pool_vault \in Nat
      /\ pool \in FarmPoolAccount /\ pool.amount \in Nat
  BY UserFields DEF TypeOK, FarmPoolAccount
<1>2. /\ CanSettle(u) /\ pool.open /\ user[u].open
      /\ user' = [user EXCEPT ![u] = account]
      /\ pool' = UpdatedPool
      /\ wallet' = [wallet EXCEPT ![u] = @ + (settled.reward_amount + settled.extra_reward)]
      /\ UNCHANGED <<now, state, configs, pool_vault>>
  BY DEF Harvest
<1>3. settled \in FarmPoolUserAccount
  BY <1>1, <1>2, SettledType, ExtraPercentageType
<1>4. /\ settled.open = user[u].open /\ settled.amount = user[u].amount
      /\ settled.reward_amount = user[u].reward_amount + Pending(u)
      /\ settled.extra_reward
           = user[u].extra_reward + Extra(u, ExtraPercentage(user[u].lock_duration))
  BY SettledFields
<1> HIDE DEF settled
<1>5. /\ user'[u].open = user[u].open /\ user'[u].amount = user[u].amount
      /\ user'[u].reward_amount = 0 /\ user'[u].reward_debt = debt
      /\ \A w \in Users \ {u} : user'[w] = user[w]
  BY <1>1, <1>2, <1>3, <1>4 DEF TypeOK, FarmPoolUserAccount
<1>6. wallet'[u] = wallet[u] + (settled.reward_amount + settled.extra_reward)
  BY <1>2 DEF TypeOK
<1>7. /\ pool'.acc_reward_per_share = AccNow /\ pool'.last_reward_time = now
      /\ pool'.point = pool.point /\ pool'.open = pool.open
      /\ pool'.amount = pool.amount
  BY <1>1, <1>2 DEF UpdatedPool, FarmPoolAccount
<1>8. Settles(u)
  BY <1>1, <1>2, <1>5, <1>7 DEF Settles
<1>9. QED
  BY <1>4, <1>5, <1>6, <1>8

SettlingStep(u) ==
  /\ Settles(u)
  /\ \/ KeepsReward(u, ExtraPercentage(user[u].lock_duration))
     \/ \E amount \in 0 .. user[u].amount : UnStake(u, amount)
     \/ Harvest(u)

-----------------------------------------------------------------------------
(* The steps that do not settle an account.                                *)

PoolKept ==
  /\ pool'.open = pool.open
  /\ pool'.amount = pool.amount
  /\ pool'.last_reward_time = pool.last_reward_time
  /\ pool'.acc_reward_per_share = pool.acc_reward_per_share

Opens(u) ==
  /\ ~user[u].open
  /\ user'[u] = FreshUser
  /\ \A w \in Users \ {u} : user'[w] = user[w]
  /\ PoolKept
  /\ pool'.open
  /\ UNCHANGED <<now, state, pool_vault>>

(* create_pool and close_pool *)
Resets ==
  /\ ~pool.open \/ pool.amount = 0
  /\ pool'.amount = 0
  /\ pool'.acc_reward_per_share = 0
  /\ pool'.last_reward_time = 0
  /\ UNCHANGED <<now, user, pool_vault>>

Keeps ==
  /\ PoolKept
  /\ UNCHANGED <<user, pool_vault>>
  /\ \/ now' = now
     \/ now' = now + 1 /\ UNCHANGED <<state, pool>>

(* The steps of the program by what they do to the stakes.                 *)
LEMMA StepShapes ==
  ASSUME IInv, [Next]_vars
  PROVE  \/ \E u \in Users : SettlingStep(u) \/ Opens(u)
         \/ Resets
         \/ Keeps
<1>1. pool \in FarmPoolAccount /\ user \in [Users -> FarmPoolUserAccount]
  BY DEF IInv, TypeOK
<1>2. CASE UNCHANGED vars
  BY <1>2 DEF vars, vaults, Keeps, PoolKept
<1>3. ASSUME NEW u \in Users, CreateUser(u)
      PROVE  Opens(u)
  <2>1. pool' = [pool EXCEPT !.total_user = pool.total_user + 1]
    BY <1>3 DEF CreateUser
  <2>2. PoolKept /\ pool'.open
    BY <1>1, <1>3, <2>1 DEF PoolKept, FarmPoolAccount, CreateUser
  <2>3. user' = [user EXCEPT ![u] = FreshUser] /\ ~user[u].open
    BY <1>3 DEF CreateUser
  <2>4. QED
    BY <1>1, <1>3, <2>2, <2>3 DEF CreateUser, Opens, vaults
<1>4. ASSUME NEW u \in Users, NEW amount \in 0 .. wallet[u],
             NEW i \in 1 .. Len(configs), Stake(u, amount, configs[i].duration)
      PROVE  SettlingStep(u)
  <2>1. configs \in Seq(DurationExtraRewardConfig)
    BY StakingAssumption DEF IInv, TypeOK
  <2>2. configs[i].duration \in Nat
    <3>1. configs[i] \in DurationExtraRewardConfig
      BY <2>1
    <3>2. QED
      BY <3>1 DEF DurationExtraRewardConfig
  <2>3. amount \in Nat /\ amount <= wallet[u]
    BY DEF IInv, TypeOK
  <2>4. QED
    BY <1>4, <2>2, <2>3, StakeSettles DEF SettlingStep
<1>5. ASSUME NEW u \in Users, NEW amount \in 0 .. user[u].amount, UnStake(u, amount)
      PROVE  SettlingStep(u)
  BY <1>5, UnStakeSettles DEF SettlingStep
<1>6. ASSUME NEW u \in Users, NEW amount \in 1 .. wallet[u], FundRewardToken(u, amount)
      PROVE  Keeps
  BY <1>6 DEF FundRewardToken, Keeps, PoolKept
<1>7. ASSUME AdminNext PROVE Resets \/ Keeps
  <2>1. ASSUME NEW point \in Points, CreatePool(point) PROVE Resets
    BY <2>1 DEF CreatePool, NoPool, Resets, vaults
  <2>2. ASSUME ClosePool PROVE Resets
    BY <2>2 DEF ClosePool, NoPool, Resets, vaults
  <2>3. ASSUME NEW point \in Points, ChangePoolPoint(point) PROVE Keeps
    BY <1>1, <2>3 DEF ChangePoolPoint, Keeps, PoolKept, FarmPoolAccount, vaults
  <2>4. ASSUME NEW rate \in Rates, ChangeTokensPerSecond(rate) PROVE Keeps
    BY <2>4 DEF ChangeTokensPerSecond, Keeps, PoolKept, vaults
  <2>5. ASSUME NEW fee \in Fees, ChangeEarlyUnlockFee(fee) PROVE Keeps
    BY <2>5 DEF ChangeEarlyUnlockFee, Keeps, PoolKept, vaults
  <2>6. ASSUME NEW levels \in LevelConfigs, ChangeProfileLevels(levels) PROVE Keeps
    BY <2>6 DEF ChangeProfileLevels, Keeps, PoolKept, vaults
  <2>7. ASSUME NEW c \in RewardConfigs, SetExtraRewardConfigs(c) PROVE Keeps
    BY <2>7 DEF SetExtraRewardConfigs, Keeps, PoolKept, vaults
  <2>8. QED
    BY <1>7, <2>1, <2>2, <2>3, <2>4, <2>5, <2>6, <2>7 DEF AdminNext
<1>8. ASSUME Tick PROVE Keeps
  BY <1>8 DEF Tick, Keeps, PoolKept, vaults
<1>9. ASSUME NEW u \in Users, Harvest(u) PROVE SettlingStep(u)
  BY <1>9, HarvestSettles DEF SettlingStep
<1>10. QED
  BY <1>2, <1>3, <1>4, <1>5, <1>6, <1>7, <1>8, <1>9 DEF Next, UserNext

-----------------------------------------------------------------------------
(* The stakes and the debts.                                               *)

(* A debt is at most the share at the accumulator of the last update, not  *)
(* only at the accumulator of now.                                         *)
DebtsBelow ==
  \A u \in Users :
    user[u].reward_debt
      <= (user[u].amount * pool.acc_reward_per_share) \div ACC_PRECISION

ClosedIsEmpty == ~pool.open => pool.amount = 0
UnopenedIsEmpty == \A u \in Users : ~user[u].open => user[u] = NoUser
UpdatedInPast == pool.last_reward_time <= now

SInv ==
  IInv /\ StakesBacked /\ DebtsBelow /\ ClosedIsEmpty /\ UnopenedIsEmpty /\ UpdatedInPast

Stakes == [u \in Users |-> user[u].amount]

LEMMA StakesSum ==
  /\ StakesBacked <=> /\ pool.amount = SumFunctionOnSet(Stakes, Users)
                      /\ pool_vault = pool.amount
  /\ \A u \in Users : Stakes[u] = user[u].amount
  BY DEF StakesBacked, SumFunction, Stakes

LEMMA AmountType ==
  ASSUME TypeOK, NEW u \in Users
  PROVE  user[u].amount \in Nat /\ user[u].reward_debt \in Nat
  BY DEF TypeOK, FarmPoolUserAccount

(* No stake exceeds the pool.                                              *)
LEMMA AmountInPool ==
  ASSUME TypeOK, StakesBacked, NEW u \in Users
  PROVE  user[u].amount <= pool.amount
<1>1. \A w \in Users : Stakes[w] = user[w].amount /\ Stakes[w] \in Nat
  BY StakesSum, AmountType
<1> HIDE DEF Stakes
<1>2. Stakes[u] <= SumFunctionOnSet(Stakes, Users)
  BY <1>1, SumBounds, StakingAssumption
<1>3. QED
  BY <1>1, <1>2, StakesSum

(* With an empty pool no account has a stake or a debt.                    *)
LEMMA EmptyPool ==
  ASSUME TypeOK, StakesBacked, DebtsBelow, pool.amount = 0
  PROVE  \A u \in Users : user[u].amount = 0 /\ user[u].reward_debt = 0
<1> TAKE u \in Users
<1>1. user[u].amount = 0
  BY AmountType, AmountInPool
<1>2. (user[u].amount * pool.acc_reward_per_share) \div ACC_PRECISION = 0
  <2>1. pool.acc_reward_per_share \in Nat
    BY DEF TypeOK, FarmPoolAccount
  <2>2. user[u].amount * pool.acc_reward_per_share = 0
    BY <1>1, <2>1
  <2>3. 0 \div ACC_PRECISION = 0
    BY StakingAssumption
  <2>4. QED
    BY <2>2, <2>3
<1>3. QED
  BY <1>1, <1>2, AmountType DEF DebtsBelow

LEMMA SettlesStakes ==
  ASSUME TypeOK, TypeOK', StakesBacked, NEW u \in Users, Settles(u)
  PROVE  StakesBacked'
<1>1. \A w \in Users : /\ Stakes[w] = user[w].amount /\ Stakes[w] \in Nat
                       /\ Stakes'[w] = user'[w].amount /\ Stakes'[w] \in Nat
  BY DEF TypeOK, FarmPoolUserAccount, Stakes
<1>2. \A w \in Users : w # u => Stakes[w] = Stakes'[w]
  BY <1>1 DEF Settles
<1> HIDE DEF Stakes
<1>3. SumFunctionOnSet(Stakes', Users) + Stakes[u]
        = SumFunctionOnSet(Stakes, Users) + Stakes'[u]
  BY <1>1, <1>2, SumChange, StakingAssumption
<1>4. SumFunctionOnSet(Stakes', Users) \in Nat
  BY <1>1, SumType, StakingAssumption
<1>5. /\ pool'.amount + user[u].amount = pool.amount + user'[u].amount
      /\ pool_vault' + user[u].amount = pool_vault + user'[u].amount
  BY DEF Settles
<1>6. /\ pool.amount = SumFunctionOnSet(Stakes, Users)
      /\ pool_vault = pool.amount
  BY StakesSum
<1>7. /\ pool.amount \in Nat /\ pool'.amount \in Nat
      /\ pool_vault \in Nat /\ pool_vault' \in Nat
  BY DEF TypeOK, FarmPoolAccount
<1>8. /\ pool'.amount = SumFunctionOnSet(Stakes', Users)
      /\ pool_vault' = pool'.amount
  BY <1>1, <1>3, <1>4, <1>5, <1>6, <1>7
<1>9. QED
  BY <1>8 DEF StakesBacked, SumFunction, Stakes

LEMMA ShareType ==
  ASSUME NEW n \in Nat, NEW a \in Nat
  PROVE  (n * a) \div ACC_PRECISION \in Nat
  BY MulNat, DivNat, StakingAssumption

LEMMA SettlesDebts ==
  ASSUME IInv, TypeOK', DebtsBelow, NEW u \in Users, Settles(u)
  PROVE  DebtsBelow'
<1> SUFFICES ASSUME NEW w \in Users
             PROVE  user'[w].reward_debt <= (user'[w].amount * AccNow) \div ACC_PRECISION
  BY DEF DebtsBelow, Settles
<1>1. AccNow \in Nat /\ pool.acc_reward_per_share \in Nat
      /\ pool.acc_reward_per_share <= AccNow
  BY AccNowType DEF IInv, TypeOK, FarmPoolAccount
<1>2. user'[w].amount \in Nat /\ user'[w].reward_debt \in Nat
  BY DEF TypeOK, FarmPoolUserAccount
<1>3. CASE w = u
  <2>1. user'[u].reward_debt = (user'[u].amount * AccNow) \div ACC_PRECISION
    BY DEF Settles, RewardDebt
  <2>2. QED
    BY <1>2, <1>3, <2>1
<1>4. CASE w # u
  <2>1. user'[w] = user[w]
    BY <1>4 DEF Settles
  <2>2. user[w].reward_debt
          <= (user[w].amount * pool.acc_reward_per_share) \div ACC_PRECISION
    BY DEF DebtsBelow
  <2>3. (user[w].amount * pool.acc_reward_per_share) \div ACC_PRECISION
          <= (user[w].amount * AccNow) \div ACC_PRECISION
    BY <1>1, <1>2, <2>1, ShareMonotone
  <2>4. QED
    BY <1>1, <1>2, <2>1, <2>2, <2>3, ShareType
<1>5. QED
  BY <1>3, <1>4

LEMMA SInvInit == Init => SInv
<1> SUFFICES ASSUME Init PROVE SInv
  OBVIOUS
<1>1. IInv
  BY InvInit
<1>2. \A u \in Users : user[u] = NoUser
  BY DEF Init
<1>3. pool = NoPool /\ pool_vault = 0 /\ now = StartTime
  BY DEF Init
<1>4. StakesBacked
  <2>1. \A u \in Users : Stakes[u] = 0
    BY <1>2 DEF Stakes, NoUser, FreshUser
  <2>2. SumFunctionOnSet(Stakes, Users) = 0
    BY <2>1, SumZero, StakingAssumption
  <2>3. QED
    BY <1>3, <2>2, StakesSum DEF NoPool
<1>5. DebtsBelow
  <2>1. SUFFICES ASSUME NEW u \in Users
                 PROVE  0 <= (0 * 0) \div ACC_PRECISION
    BY <1>2, <1>3 DEF DebtsBelow, NoUser, FreshUser, NoPool
  <2>2. QED
    BY ShareType
<1>6. UpdatedInPast
  BY <1>3, StakingAssumption DEF UpdatedInPast, NoPool
<1>7. QED
  BY <1>1, <1>2, <1>3, <1>4, <1>5, <1>6
     DEF SInv, ClosedIsEmpty, UnopenedIsEmpty, NoPool

LEMMA SInvStep == SInv /\ [Next]_vars => SInv'
<1> SUFFICES ASSUME SInv, [Next]_vars PROVE SInv'
  OBVIOUS
<1>1. IInv /\ TypeOK
  BY DEF SInv, IInv
<1>2. IInv' /\ TypeOK'
  BY <1>1, InvStep DEF IInv
<1>3. ASSUME NEW u \in Users, Settles(u) PROVE SInv'
  <2>1. StakesBacked' /\ DebtsBelow'
    BY <1>1, <1>2, <1>3, SettlesStakes, SettlesDebts DEF SInv
  <2>2. UnopenedIsEmpty'
    BY <1>3 DEF SInv, UnopenedIsEmpty, Settles
  <2>3. ClosedIsEmpty' /\ UpdatedInPast'
    BY <1>1, <1>3 DEF Settles, ClosedIsEmpty, UpdatedInPast, TypeOK
  <2>4. QED
    BY <1>2, <2>1, <2>2, <2>3 DEF SInv
<1>4. ASSUME NEW u \in Users, Opens(u) PROVE SInv'
  <2>1. \A w \in Users : /\ user'[w].amount = user[w].amount
                         /\ user'[w].reward_debt = user[w].reward_debt
    BY <1>4 DEF SInv, UnopenedIsEmpty, Opens, NoUser, FreshUser
  <2>2. Stakes' = Stakes
    BY <2>1 DEF Stakes
  <2>3. StakesBacked'
    BY <1>4, <2>2 DEF SInv, StakesBacked, Opens, PoolKept, Stakes
  <2>4. DebtsBelow'
    BY <1>4, <2>1 DEF SInv, DebtsBelow, Opens, PoolKept
  <2>5. UnopenedIsEmpty'
    BY <1>4 DEF SInv, UnopenedIsEmpty, Opens, FreshUser
  <2>6. ClosedIsEmpty' /\ UpdatedInPast'
    BY <1>4 DEF SInv, ClosedIsEmpty, UpdatedInPast, Opens, PoolKept
  <2>7. QED
    BY <1>2, <2>3, <2>4, <2>5, <2>6 DEF SInv
<1>5. ASSUME Resets PROVE SInv'
  <2>1. pool.amount = 0
    BY <1>5 DEF Resets, SInv, ClosedIsEmpty
  <2>2. \A u \in Users : /\ user'[u].amount = 0 /\ user'[u].reward_debt = 0
    BY <1>1, <1>5, <2>1, EmptyPool DEF SInv, Resets
  <2>3. StakesBacked'
    BY <1>5, <2>1 DEF SInv, StakesBacked, Resets
  <2>4. DebtsBelow'
    <3>1. 0 <= (0 * 0) \div ACC_PRECISION
      BY ShareType
    <3>2. QED
      BY <1>5, <2>2, <3>1 DEF DebtsBelow, Resets
  <2>5. UnopenedIsEmpty'
    BY <1>5 DEF SInv, UnopenedIsEmpty, Resets
  <2>6. ClosedIsEmpty' /\ UpdatedInPast'
    BY <1>1, <1>5 DEF ClosedIsEmpty, UpdatedInPast, Resets, TypeOK
  <2>7. QED
    BY <1>2, <2>3, <2>4, <2>5, <2>6 DEF SInv
<1>6. ASSUME Keeps PROVE SInv'
  <2>1. StakesBacked' /\ DebtsBelow' /\ UnopenedIsEmpty' /\ ClosedIsEmpty'
    BY <1>6 DEF SInv, StakesBacked, DebtsBelow, UnopenedIsEmpty, ClosedIsEmpty,
                Keeps, PoolKept
  <2>2. UpdatedInPast'
    BY <1>1, <1>6 DEF SInv, UpdatedInPast, Keeps, PoolKept, TypeOK, FarmPoolAccount
  <2>3. QED
    BY <1>2, <2>1, <2>2 DEF SInv
<1>7. QED
  BY <1>1, <1>3, <1>4, <1>5, <1>6, StepShapes DEF SettlingStep

(* The invariant holds of every behaviour: no order of stakes, harvests,   *)
(* withdrawals and administration separates amounts, pool and vault.       *)
LEMMA StakesInvariant == Spec => []SInv
<1>1. QED
  BY SInvInit, SInvStep, PTL DEF Spec

(* The pool and its vault hold exactly what the accounts staked: stake and *)
(* unstake change account, pool and vault by the same amount.              *)
THEOREM StakesAreBacked == Spec => []StakesBacked
<1>1. SInv => StakesBacked
  BY DEF SInv
<1>2. QED
  BY <1>1, StakesInvariant, PTL

(* A debt computed at the last update's accumulator is covered now: the    *)
(* accumulator never falls and multiplication and division keep the order. *)
LEMMA DebtsCovered == ASSUME SInv PROVE DebtCovered
<1> SUFFICES ASSUME NEW u \in Users
             PROVE  user[u].reward_debt <= (user[u].amount * AccNow) \div ACC_PRECISION
  BY DEF DebtCovered, RewardDebt
<1>1. IInv /\ TypeOK
  BY DEF SInv, IInv
<1>2. AccNow \in Nat /\ pool.acc_reward_per_share \in Nat
      /\ pool.acc_reward_per_share <= AccNow
  BY <1>1, AccNowType DEF IInv, TypeOK, FarmPoolAccount
<1>3. user[u].amount \in Nat /\ user[u].reward_debt \in Nat
  BY <1>1, AmountType
<1>4. (user[u].amount * pool.acc_reward_per_share) \div ACC_PRECISION
        <= (user[u].amount * AccNow) \div ACC_PRECISION
  BY <1>2, <1>3, ShareMonotone
<1>5. user[u].reward_debt
        <= (user[u].amount * pool.acc_reward_per_share) \div ACC_PRECISION
  BY DEF SInv, DebtsBelow
<1>6. QED
  BY <1>2, <1>3, <1>4, <1>5, ShareType

(* calculate_reward_amount never fails on its checked subtraction, whoever *)
(* staked, withdrew, changed the rate or reopened the pool before.         *)
THEOREM DebtsAreCovered == Spec => []DebtCovered
<1>1. SInv => DebtCovered
  BY DebtsCovered
<1>2. QED
  BY <1>1, StakesInvariant, PTL

-----------------------------------------------------------------------------
(* Withdrawing.                                                            *)

(* A fee of at most 100 percent is at most the amount.                     *)
LEMMA FeeBelowAmount ==
  ASSUME TypeOK, state.early_unlock_fee <= ACC_PRECISION, NEW amount \in Nat
  PROVE  EarlyUnlockFee(amount) <= amount
<1> DEFINE f == state.early_unlock_fee
           q == (amount * f) \div ACC_PRECISION
<1>1. f \in Nat /\ f <= ACC_PRECISION /\ ACC_PRECISION \in Nat \ {0}
  BY StakingAssumption DEF TypeOK, StateAccount
<1> HIDE DEF f
<1>2. amount * f \in Nat /\ amount * f <= amount * ACC_PRECISION
  BY <1>1, MulNat, TimesMonotone
<1>3. q \in Nat /\ ACC_PRECISION * q <= amount * f
  BY <1>1, <1>2, Division
<1> HIDE DEF q
<1>4. ASSUME q > amount PROVE FALSE
  <2>1. amount + 1 <= q
    BY <1>3, <1>4
  <2>2. ACC_PRECISION * (amount + 1) <= ACC_PRECISION * q
    BY <1>1, <1>3, <2>1, TimesMonotone
  <2>3. ACC_PRECISION * (amount + 1) = amount * ACC_PRECISION + ACC_PRECISION
    BY <1>1
  <2>4. ACC_PRECISION * q \in Nat /\ amount * ACC_PRECISION \in Nat
    BY <1>1, <1>3, MulNat
  <2>5. QED
    BY <1>1, <1>2, <1>3, <2>2, <2>3, <2>4
<1>5. QED
  BY <1>3, <1>4 DEF EarlyUnlockFee, f, q

(* Every check of unstake, one by one.                                     *)
LEMMA CanWithdraw ==
  ASSUME SInv, state.early_unlock_fee <= ACC_PRECISION, NEW u \in Users, user[u].amount > 0
  PROVE  CanUnStake(u, user[u].amount)
<1>1. IInv /\ TypeOK /\ StakesBacked /\ PointsAgree
  BY DEF SInv, IInv
<1>2. user[u].amount \in Nat /\ user[u].amount <= pool.amount /\ pool_vault = pool.amount
  BY <1>1, AmountType, AmountInPool DEF StakesBacked
<1>3. pool.amount \in Nat /\ pool.point \in Nat
  BY <1>1 DEF TypeOK, FarmPoolAccount
<1>4. pool.open
  BY <1>2, <1>3 DEF SInv, ClosedIsEmpty
<1>5. user[u].open
  BY <1>2 DEF SInv, UnopenedIsEmpty, NoUser, FreshUser
<1>6. CanSettle(u)
  <2>1. user[u].reward_debt <= RewardDebt(user[u].amount)
    BY DebtsCovered DEF DebtCovered
  <2>2. pool.point > 0 => state.total_point > 0
    BY <1>1 DEF PointsAgree
  <2>3. QED
    BY <2>1, <2>2 DEF CanSettle
<1>7. UnStakeFee(u, user[u].amount) <= user[u].amount
  BY <1>1, <1>2, FeeBelowAmount DEF UnStakeFee
<1>8. QED
  BY <1>2, <1>4, <1>5, <1>6, <1>7 DEF CanUnStake

(* While no fee exceeds 100 percent, whoever has a stake can withdraw all  *)
(* of it in one unstake, locked or not: no check, checked operation or     *)
(* transfer of process_unstake fails.                                      *)
THEOREM WithdrawalAlwaysPossible ==
  ASSUME \A f \in Fees : f <= ACC_PRECISION
  PROVE  Spec => []WithdrawalPossible
<1>1. SInv => WithdrawalPossible
  <2> SUFFICES ASSUME SInv, NEW u \in Users, user[u].amount > 0
               PROVE  CanUnStake(u, user[u].amount)
    BY DEF WithdrawalPossible
  <2>1. state.early_unlock_fee <= ACC_PRECISION
    BY DEF SInv, IInv, TypeOK, StateAccount
  <2>2. QED
    BY <2>1, CanWithdraw
<1>2. QED
  BY <1>1, StakesInvariant, PTL

-----------------------------------------------------------------------------
(* What is owed.                                                           *)

LEMMA AccAfterUpdate ==
  ASSUME IInv, NEW u \in Users, Settles(u)
  PROVE  AccNow' = AccNow
<1>1. AccNow \in Nat /\ now \in Nat
  BY AccNowType DEF IInv, TypeOK
<1>2. pool'.acc_reward_per_share = AccNow /\ pool'.last_reward_time = now /\ now' = now
  BY DEF Settles
<1>3. RewardPerShare' = 0
  BY <1>1, <1>2 DEF RewardPerShare
<1>4. QED
  BY <1>1, <1>2, <1>3 DEF AccNow

LEMMA AccKept ==
  ASSUME IInv, IInv', PoolKept, UNCHANGED <<now, state>>
  PROVE  AccNow' = AccNow
<1>1. pool'.point = pool.point
  BY DEF IInv, PointsAgree
<1>2. RewardPerShare' = RewardPerShare
  BY <1>1 DEF RewardPerShare, PoolKept
<1>3. QED
  BY <1>2 DEF AccNow, PoolKept

LEMMA OwedKept ==
  ASSUME NEW u \in Users, AccNow' = AccNow,
         user'[u].amount = user[u].amount,
         user'[u].reward_debt = user[u].reward_debt,
         user'[u].reward_amount = user[u].reward_amount
  PROVE  Owed(u)' = Owed(u)
  BY DEF Owed, Pending, RewardDebt

(* Right after an account is settled it earned nothing since.              *)
LEMMA NothingPending ==
  ASSUME IInv, TypeOK', NEW u \in Users, Settles(u)
  PROVE  Pending(u)' = 0
<1>1. AccNow' = AccNow
  BY AccAfterUpdate
<1>2. user'[u].amount \in Nat
  BY DEF TypeOK, FarmPoolUserAccount
<1>3. RewardDebt(user'[u].amount) \in Nat
  BY <1>2, RewardDebtType DEF IInv
<1>4. Pending(u)' = RewardDebt(user'[u].amount) - user'[u].reward_debt
  BY <1>1 DEF Pending, RewardDebt
<1>5. QED
  BY <1>3, <1>4 DEF Settles

LEMMA NothingOwedToNoStake ==
  ASSUME TypeOK, PointsAgree, NEW u \in Users, user[u].amount = 0, user[u].reward_debt = 0
  PROVE  Pending(u) = 0
<1>1. 0 * AccNow = 0
  BY AccNowType
<1>2. 0 \div ACC_PRECISION = 0
  BY StakingAssumption
<1>3. QED
  BY <1>1, <1>2 DEF Pending, RewardDebt

LEMMA NothingPendingAfterReset ==
  ASSUME Resets, NEW u \in Users, user'[u].amount = 0, user'[u].reward_debt = 0
  PROVE  Pending(u)' = 0
<1>1. AccNow' = 0
  BY DEF AccNow, RewardPerShare, Resets
<1>2. (0 * 0) \div ACC_PRECISION = 0
  BY StakingAssumption
<1>3. QED
  BY <1>1, <1>2 DEF Pending, RewardDebt

OwedStays(u) ==
  \/ Owed(u)' = Owed(u)
  \/ reward_vault' < reward_vault /\ Owed(u)' = 0 /\ user'[u] # user[u]

(* What settling moves from pending to the account's own fields.           *)
LEMMA OwedSettled ==
  ASSUME IInv, IInv', NEW u \in Users, SettlingStep(u)
  PROVE  OwedStays(u)
<1>1. TypeOK /\ TypeOK' /\ Settles(u)
  BY DEF IInv, SettlingStep
<1>2. AccNow' = AccNow /\ Pending(u)' = 0
  BY <1>1, AccAfterUpdate, NothingPending
<1>3. user'[u].reward_amount \in Nat
  BY <1>1 DEF TypeOK, FarmPoolUserAccount
<1>4. Owed(u)' = user'[u].reward_amount
  BY <1>2, <1>3 DEF Owed
<1>5. ASSUME NEW percentage, KeepsReward(u, percentage)
      PROVE  Owed(u)' = Owed(u)
  BY <1>4, <1>5 DEF KeepsReward, Owed
<1>6. CASE Harvest(u)
  <2>1. user'[u].reward_amount = 0
    BY <1>6, HarvestSettles
  <2>2. CASE Owed(u) = 0
    BY <1>4, <2>1, <2>2 DEF OwedStays
  <2>3. CASE Owed(u) # 0
    <3>1. user'[u] # user[u]
      BY <1>2, <1>4, <2>1, <2>3 DEF Owed, Pending, RewardDebt
    <3> DEFINE extra == user[u].extra_reward
                          + Extra(u, ExtraPercentage(user[u].lock_duration))
    <3>2. Settled(u, ExtraPercentage(user[u].lock_duration)) \in FarmPoolUserAccount
      BY <1>1, ExtraPercentageType, SettledType, UserFields DEF IInv, Settles
    <3>3. Owed(u) \in Nat /\ extra \in Nat
      BY <1>1, <3>2, SettledFields DEF Owed, FarmPoolUserAccount
    <3>4. reward_vault' = reward_vault - (Owed(u) + extra)
      BY <1>1, <1>6, SettledFields DEF Harvest, Owed
    <3> HIDE DEF extra
    <3>5. reward_vault' < reward_vault
      BY <1>1, <2>3, <3>3, <3>4 DEF TypeOK
    <3>6. QED
      BY <1>4, <2>1, <3>1, <3>5 DEF OwedStays
  <2>4. QED
    BY <2>2, <2>3
<1>7. CASE \E amount \in 0 .. user[u].amount : UnStake(u, amount)
  <2>1. KeepsReward(u, UnStakePercentage(u))
    BY <1>1, <1>7, UnStakeSettles DEF TypeOK, FarmPoolUserAccount
  <2>2. QED
    BY <1>5, <2>1 DEF OwedStays
<1>8. QED
  BY <1>5, <1>6, <1>7 DEF SettlingStep, OwedStays

LEMMA OwedStep ==
  ASSUME SInv, SInv', [Next]_vars, UNCHANGED <<now, state>>, NEW u \in Users
  PROVE  OwedStays(u)
<1>1. IInv /\ IInv' /\ TypeOK /\ TypeOK' /\ PointsAgree /\ PointsAgree'
  BY DEF SInv, IInv
<1>2. ASSUME NEW w \in Users, SettlingStep(w)
      PROVE  OwedStays(u)
  <2>1. CASE w = u
    BY <1>1, <1>2, <2>1, OwedSettled
  <2>2. CASE w # u
    <3>1. Settles(w)
      BY <1>2 DEF SettlingStep
    <3>2. AccNow' = AccNow /\ user'[u] = user[u]
      BY <1>1, <2>2, <3>1, AccAfterUpdate DEF Settles
    <3>3. QED
      BY <3>2, OwedKept DEF OwedStays
  <2>3. QED
    BY <2>1, <2>2
<1>3. ASSUME NEW w \in Users, Opens(w)
      PROVE  OwedStays(u)
  <2>1. AccNow' = AccNow
    BY <1>1, <1>3, AccKept DEF Opens
  <2>2. /\ user'[u].amount = user[u].amount
        /\ user'[u].reward_debt = user[u].reward_debt
        /\ user'[u].reward_amount = user[u].reward_amount
    BY <1>3 DEF SInv, UnopenedIsEmpty, Opens, NoUser, FreshUser
  <2>3. QED
    BY <2>1, <2>2, OwedKept DEF OwedStays
<1>4. CASE Resets
  <2>1. pool.amount = 0
    BY <1>4 DEF Resets, SInv, ClosedIsEmpty
  <2>2. /\ user[u].amount = 0 /\ user[u].reward_debt = 0
        /\ user' = user
    BY <1>1, <1>4, <2>1, EmptyPool DEF SInv, Resets
  <2>3. Pending(u) = 0 /\ Pending(u)' = 0
    BY <1>1, <1>4, <2>2, NothingOwedToNoStake, NothingPendingAfterReset
  <2>4. QED
    BY <2>2, <2>3 DEF OwedStays, Owed
<1>5. CASE Keeps
  <2>1. AccNow' = AccNow /\ user' = user
    BY <1>1, <1>5, AccKept DEF Keeps
  <2>2. QED
    BY <2>1, OwedKept DEF OwedStays
<1>6. QED
  BY <1>1, <1>2, <1>3, <1>4, <1>5, StepShapes

(* Within one second and one configuration nobody's transaction, and no    *)
(* pool that is closed or created, changes what an account is owed; its    *)
(* own harvest leaves zero.                                                *)
THEOREM OwedNotTouched == Spec => OwedUntouched
<1>1. SInv /\ SInv' /\ [Next]_vars =>
        [UNCHANGED <<now, state>> =>
           \A u \in Users :
             \/ Owed(u)' = Owed(u)
             \/ reward_vault' < reward_vault /\ Owed(u)' = 0 /\ user'[u] # user[u]]_vars
  <2> SUFFICES ASSUME SInv, SInv', [Next]_vars, UNCHANGED <<now, state>>, NEW u \in Users
               PROVE  OwedStays(u)
    BY DEF OwedStays
  <2>1. QED
    BY OwedStep
<1>2. QED
  BY <1>1, StakesInvariant, PTL DEF Spec, OwedUntouched

-----------------------------------------------------------------------------
(* What the accounts earn against what the clock releases.  Amounts are    *)
(* counted in parts of 1 / ACC_PRECISION of a token, so that nothing is    *)
(* rounded but the quotients of the program itself.                        *)

(* What the division of an account's share rounds off.                     *)
Rem(n, acc) == n * acc - ACC_PRECISION * ((n * acc) \div ACC_PRECISION)

(* What an account has earned up to the last update.                       *)
Kept(u) ==
  (ACC_PRECISION * user[u].reward_amount + user[u].amount * pool.acc_reward_per_share)
    - ACC_PRECISION * user[u].reward_debt

Fraction(u) == Rem(user[u].amount, pool.acc_reward_per_share)

(* What the clock has released since the last update.                      *)
Released ==
  IF pool.amount > 0
  THEN ACC_PRECISION * (state.token_per_second * (now - pool.last_reward_time))
  ELSE 0

Keeping == [u \in Users |-> Kept(u)]
Fractions == [u \in Users |-> Fraction(u)]
Owing == [u \in Users |-> Owed(u)]

(* In a second in which the pool was updated the debts may have been       *)
(* rounded down by the fractions; by the next second that is paid for.     *)
Credit ==
  IF pool.last_reward_time = now THEN SumFunctionOnSet(Fractions, Users) ELSE 0

HInv ==
  /\ emitted \in Nat /\ paid \in Nat /\ StartTime <= now
  /\ (ACC_PRECISION * paid + SumFunctionOnSet(Keeping, Users)) + Released
       <= (ACC_PRECISION * emitted
             + (ACC_PRECISION - 1) * (Cardinality(Users) * (now - StartTime)))
          + Credit

LEMMA RemType ==
  ASSUME NEW n \in Nat, NEW a \in Nat
  PROVE  /\ Rem(n, a) \in 0 .. ACC_PRECISION - 1
         /\ n * a \in Nat /\ ACC_PRECISION * ((n * a) \div ACC_PRECISION) \in Nat
<1>1. n * a \in Nat
  BY MulNat
<1> DEFINE m == n * a
           q == m \div ACC_PRECISION
<1> HIDE DEF m
<1>2. q \in Nat /\ ACC_PRECISION * q <= m /\ m < ACC_PRECISION * q + ACC_PRECISION
  BY <1>1, Division, StakingAssumption DEF m
<1> HIDE DEF q
<1>3. ACC_PRECISION * q \in Nat /\ ACC_PRECISION \in Nat \ {0} /\ m \in Nat
  BY <1>1, <1>2, MulNat, StakingAssumption DEF m
<1>4. m - ACC_PRECISION * q \in 0 .. ACC_PRECISION - 1
  BY <1>2, <1>3
<1>5. QED
  BY <1>1, <1>3, <1>4 DEF Rem, m, q

LEMMA TimesCancel ==
  ASSUME NEW n \in Nat \ {0}, NEW a \in Nat, NEW b \in Nat, n * a <= n * b
  PROVE  a <= b
<1> SUFFICES ASSUME b + 1 <= a PROVE FALSE
  OBVIOUS
<1>1. n * (b + 1) <= n * a
  BY TimesMonotone
<1>2. n * (b + 1) = n * b + n
  OBVIOUS
<1>3. n * b \in Nat /\ n * a \in Nat
  BY MulNat
<1>4. QED
  BY <1>1, <1>2, <1>3

LEMMA DivCancel ==
  ASSUME NEW n \in Nat, NEW d \in Nat \ {0}
  PROVE  (n * d) \div d = n
<1> DEFINE m == n * d
           q == m \div d
<1>1. m \in Nat
  BY MulNat
<1> HIDE DEF m
<1>2. q \in Nat /\ d * q <= m /\ m < d * q + d
  BY <1>1, Division
<1> HIDE DEF q
<1>3. m = d * n /\ d * q + d = d * (q + 1)
  BY <1>2 DEF m
<1>4. q <= n
  BY <1>2, <1>3, TimesCancel
<1>5. ASSUME q < n PROVE FALSE
  <2>1. q + 1 <= n
    BY <1>2, <1>5
  <2>2. d * (q + 1) <= d * n
    BY <1>2, <2>1, TimesMonotone
  <2>3. d * q + d \in Nat
    BY <1>2, MulNat
  <2>4. QED
    BY <1>1, <1>2, <1>3, <2>2, <2>3
<1>6. QED
  BY <1>2, <1>4, <1>5 DEF m, q

(* What `update` adds for the whole pool is at most what was released.     *)
LEMMA ReleasedCovers ==
  ASSUME SInv
  PROVE  /\ Released \in Nat
         /\ RewardPerShare * pool.amount \in Nat
         /\ RewardPerShare * pool.amount <= Released
<1> DEFINE rate == state.token_per_second
           seconds == now - pool.last_reward_time
           X == ACC_PRECISION * (rate * seconds)
<1>1. IInv /\ TypeOK /\ PointsAgree
  BY DEF SInv, IInv
<1>2. /\ rate \in Nat /\ now \in Nat /\ pool.last_reward_time \in Nat
      /\ pool.amount \in Nat /\ pool.point \in Nat /\ ACC_PRECISION \in Nat \ {0}
  BY <1>1, StakingAssumption DEF TypeOK, StateAccount, FarmPoolAccount
<1>3. seconds \in Nat
  BY <1>2 DEF SInv, UpdatedInPast
<1> HIDE DEF rate, seconds
<1>4. X \in Nat
  BY <1>2, <1>3, MulNat
<1>5. RewardPerShare \in Nat /\ RewardPerShare * pool.amount \in Nat
  BY <1>1, <1>2, RewardPerShareType, MulNat
<1>6. Released = IF pool.amount > 0 THEN X ELSE 0
  BY DEF Released, rate, seconds
<1>7. CASE pool.amount > 0 /\ seconds > 0 /\ pool.point > 0
  <2>1. RewardPerShare = ((rate * seconds * pool.point * ACC_PRECISION) \div pool.point)
                           \div pool.amount
    BY <1>1, <1>7 DEF RewardPerShare, PointsAgree, rate, seconds
  <2>2. rate * seconds * pool.point * ACC_PRECISION = X * pool.point
    BY <1>2, <1>3
  <2>3. (X * pool.point) \div pool.point = X
    BY <1>2, <1>4, <1>7, DivCancel
  <2> HIDE DEF X
  <2>4. RewardPerShare = X \div pool.amount
    BY <2>1, <2>2, <2>3
  <2>5. pool.amount * (X \div pool.amount) <= X
    BY <1>2, <1>4, <1>7, Division
  <2>6. RewardPerShare * pool.amount = pool.amount * RewardPerShare
    BY <1>2, <1>5
  <2>7. QED
    BY <1>4, <1>5, <1>6, <1>7, <2>4, <2>5, <2>6
<1>8. CASE ~(pool.amount > 0 /\ seconds > 0 /\ pool.point > 0)
  <2>1. RewardPerShare = 0
    BY <1>8 DEF RewardPerShare, seconds
  <2>2. RewardPerShare * pool.amount = 0
    BY <1>2, <2>1
  <2> HIDE DEF X
  <2>3. QED
    BY <1>2, <1>4, <1>5, <1>6, <2>2
<1>9. QED
  BY <1>7, <1>8

LEMMA KeptType ==
  ASSUME SInv, NEW u \in Users
  PROVE  Kept(u) \in Nat /\ Fraction(u) \in 0 .. ACC_PRECISION - 1
<1> DEFINE r == user[u].reward_amount
           d == user[u].reward_debt
           n == user[u].amount
           a == pool.acc_reward_per_share
<1>1. TypeOK
  BY DEF SInv, IInv
<1>2. r \in Nat /\ d \in Nat /\ n \in Nat /\ a \in Nat
  BY <1>1 DEF TypeOK, FarmPoolUserAccount, FarmPoolAccount
<1>3. d <= (n * a) \div ACC_PRECISION
  BY DEF SInv, DebtsBelow
<1>4. Kept(u) = (ACC_PRECISION * r + n * a) - ACC_PRECISION * d /\ Fraction(u) = Rem(n, a)
  BY DEF Kept, Fraction
<1> HIDE DEF r, d, n, a
<1>5. /\ Rem(n, a) \in 0 .. ACC_PRECISION - 1
      /\ n * a \in Nat /\ ACC_PRECISION * ((n * a) \div ACC_PRECISION) \in Nat
  BY <1>2, RemType
<1>6. ACC_PRECISION * d <= ACC_PRECISION * ((n * a) \div ACC_PRECISION)
  BY <1>2, <1>3, ShareType, TimesMonotone, StakingAssumption
<1>7. ACC_PRECISION * d \in Nat /\ ACC_PRECISION * r \in Nat /\ ACC_PRECISION \in Nat
  BY <1>2, MulNat, StakingAssumption
<1>8. ACC_PRECISION * d <= n * a
  BY <1>5, <1>6, <1>7 DEF Rem
<1>9. (ACC_PRECISION * r + n * a) - ACC_PRECISION * d \in Nat
  BY <1>5, <1>7, <1>8
<1>10. QED
  BY <1>4, <1>5, <1>9

LEMMA SumTypes ==
  ASSUME SInv
  PROVE  /\ \A u \in Users : Keeping[u] \in Nat /\ Fractions[u] \in Nat
         /\ SumFunctionOnSet(Keeping, Users) \in Nat
         /\ SumFunctionOnSet(Fractions, Users) \in Nat
         /\ SumFunctionOnSet(Fractions, Users) <= (ACC_PRECISION - 1) * Cardinality(Users)
         /\ Credit \in Nat
<1>1. /\ ACC_PRECISION - 1 \in Nat
      /\ \A u \in Users : /\ Keeping[u] \in Nat
                          /\ Fractions[u] \in Nat
                          /\ Fractions[u] <= ACC_PRECISION - 1
  BY KeptType, StakingAssumption DEF Keeping, Fractions
<1> HIDE DEF Keeping, Fractions
<1>2. /\ SumFunctionOnSet(Keeping, Users) \in Nat
      /\ SumFunctionOnSet(Fractions, Users) \in Nat
  BY <1>1, SumType, StakingAssumption
<1>3. SumFunctionOnSet(Fractions, Users) <= (ACC_PRECISION - 1) * Cardinality(Users)
  BY <1>1, SumAtMost, StakingAssumption
<1>4. QED
  BY <1>1, <1>2, <1>3 DEF Credit

LEMMA SumTypesNext ==
  ASSUME SInv'
  PROVE  /\ \A u \in Users : Keeping'[u] \in Nat /\ Fractions'[u] \in Nat
         /\ SumFunctionOnSet(Keeping', Users) \in Nat
         /\ SumFunctionOnSet(Fractions', Users) \in Nat
         /\ Credit' \in Nat
<1>1. (/\ \A u \in Users : Keeping[u] \in Nat /\ Fractions[u] \in Nat
       /\ SumFunctionOnSet(Keeping, Users) \in Nat
       /\ SumFunctionOnSet(Fractions, Users) \in Nat
       /\ Credit \in Nat)'
  BY SumTypes, PTL
<1>2. QED
  BY <1>1

(* An account earns its share of what `update` adds, less the fraction.    *)
LEMMA OwedIsKept ==
  ASSUME SInv, NEW u \in Users
  PROVE  /\ Owed(u) \in Nat
         /\ Rem(user[u].amount, AccNow) \in 0 .. ACC_PRECISION - 1
         /\ RewardPerShare * user[u].amount \in Nat
         /\ ACC_PRECISION * Owed(u) + Rem(user[u].amount, AccNow)
              = Kept(u) + RewardPerShare * user[u].amount
<1> DEFINE r == user[u].reward_amount
           d == user[u].reward_debt
           n == user[u].amount
           a == pool.acc_reward_per_share
           x == RewardPerShare
           D == (n * AccNow) \div ACC_PRECISION
<1>1. IInv /\ TypeOK /\ PointsAgree
  BY DEF SInv, IInv
<1>2. /\ r \in Nat /\ d \in Nat /\ n \in Nat /\ a \in Nat /\ x \in Nat
      /\ AccNow = a + x /\ ACC_PRECISION \in Nat
  BY <1>1, RewardPerShareType, StakingAssumption
     DEF TypeOK, FarmPoolUserAccount, FarmPoolAccount, AccNow
<1>3. d <= D
  BY DebtsCovered DEF DebtCovered, RewardDebt
<1>4. Owed(u) = r + (D - d) /\ Kept(u) = (ACC_PRECISION * r + n * a) - ACC_PRECISION * d
  BY DEF Owed, Pending, RewardDebt, Kept
<1>5. D \in Nat
  BY <1>2, ShareType
<1>6. /\ Rem(n, AccNow) \in 0 .. ACC_PRECISION - 1
      /\ n * AccNow \in Nat /\ ACC_PRECISION * D \in Nat
      /\ Rem(n, AccNow) = n * AccNow - ACC_PRECISION * D
  BY <1>2, RemType DEF Rem
<1> HIDE DEF r, d, n, a, x, D
<1>7. n * AccNow = n * a + x * n
  BY <1>2
<1>8. ACC_PRECISION * (r + (D - d)) = (ACC_PRECISION * r + ACC_PRECISION * D) - ACC_PRECISION * d
  BY <1>2, <1>5
<1>9. /\ ACC_PRECISION * r \in Nat /\ ACC_PRECISION * d \in Nat
      /\ n * a \in Nat /\ x * n \in Nat
  BY <1>2, MulNat
<1>10. ACC_PRECISION * (r + (D - d)) + Rem(n, AccNow)
         = ((ACC_PRECISION * r + n * a) - ACC_PRECISION * d) + x * n
  BY <1>6, <1>7, <1>8, <1>9
<1>11. r + (D - d) \in Nat
  BY <1>2, <1>3, <1>5
<1>12. QED
  BY <1>4, <1>6, <1>9, <1>10, <1>11 DEF n, x

(* Settling: what the pool adds for all goes to the accounts and to what   *)
(* is paid, but for the fractions of the account that is settled.          *)
LEMMA SettlesKeeping ==
  ASSUME SInv, SInv', NEW u \in Users, Settles(u), NEW out \in Nat,
         out + user'[u].reward_amount = Owed(u)
  PROVE  (ACC_PRECISION * out + SumFunctionOnSet(Keeping', Users))
           + Rem(user[u].amount, AccNow)
         = (SumFunctionOnSet(Keeping, Users) + RewardPerShare * pool.amount)
           + Fractions'[u]
<1> DEFINE x == RewardPerShare
           Mid == [w \in Users |-> Keeping[w] + x * Stakes[w]]
<1>1. IInv /\ TypeOK /\ TypeOK' /\ PointsAgree /\ StakesBacked
  BY DEF SInv, IInv
<1>2. x \in Nat /\ ACC_PRECISION \in Nat
  BY <1>1, RewardPerShareType, StakingAssumption
<1>3. \A w \in Users : /\ Keeping[w] \in Nat /\ Keeping'[w] \in Nat /\ Stakes[w] \in Nat
                       /\ Mid[w] \in Nat /\ Mid[w] = Keeping[w] + x * Stakes[w]
  <2> TAKE w \in Users
  <2>1. Keeping[w] \in Nat /\ Keeping'[w] \in Nat
    BY SumTypes, SumTypesNext
  <2>2. Stakes[w] \in Nat
    BY <1>1, AmountType, StakesSum
  <2>3. x * Stakes[w] \in Nat
    BY <1>2, <2>2, MulNat
  <2>4. Mid[w] = Keeping[w] + x * Stakes[w]
    OBVIOUS
  <2>5. QED
    BY <2>1, <2>2, <2>3, <2>4
<1>4. /\ pool'.acc_reward_per_share = AccNow
      /\ AccNow = pool.acc_reward_per_share + x
      /\ pool.acc_reward_per_share \in Nat
  BY <1>1 DEF Settles, AccNow, TypeOK, FarmPoolAccount
<1>5. ASSUME NEW w \in Users, w # u
      PROVE  Keeping'[w] = Mid[w]
  <2> DEFINE r == user[w].reward_amount
             d == user[w].reward_debt
             n == user[w].amount
             a == pool.acc_reward_per_share
  <2>1. user'[w] = user[w]
    BY <1>5 DEF Settles
  <2>2. r \in Nat /\ d \in Nat /\ n \in Nat
    BY <1>1 DEF TypeOK, FarmPoolUserAccount
  <2>3. Keeping'[w] = (ACC_PRECISION * r + n * (a + x)) - ACC_PRECISION * d
    BY <1>4, <2>1 DEF Keeping, Kept
  <2>4. Mid[w] = ((ACC_PRECISION * r + n * a) - ACC_PRECISION * d) + x * n
    BY DEF Keeping, Kept, Stakes
  <2> HIDE DEF r, d, n, a, x
  <2>5. n * (a + x) = n * a + x * n
    BY <1>2, <1>4, <2>2 DEF a
  <2>6. /\ n * a \in Nat /\ x * n \in Nat /\ ACC_PRECISION * r \in Nat
        /\ ACC_PRECISION * d \in Nat
    BY <1>2, <1>4, <2>2, MulNat DEF a
  <2> HIDE DEF Mid
  <2>7. QED
    BY <2>3, <2>4, <2>5, <2>6
<1>6. Mid[u] = ACC_PRECISION * Owed(u) + Rem(user[u].amount, AccNow)
  BY OwedIsKept DEF Keeping, Stakes
<1>7. ACC_PRECISION * out + Keeping'[u] = ACC_PRECISION * Owed(u) + Fractions'[u]
  <2> DEFINE r == user'[u].reward_amount
             n == user'[u].amount
             D == (n * AccNow) \div ACC_PRECISION
  <2>1. r \in Nat /\ n \in Nat /\ AccNow \in Nat
    BY <1>1, AccNowType DEF TypeOK, FarmPoolUserAccount
  <2>2. user'[u].reward_debt = D
    BY DEF Settles, RewardDebt
  <2>3. /\ Keeping'[u] = (ACC_PRECISION * r + n * AccNow) - ACC_PRECISION * D
        /\ Fractions'[u] = n * AccNow - ACC_PRECISION * D
    BY <1>4, <2>2 DEF Keeping, Kept, Fractions, Fraction, Rem
  <2>4. n * AccNow \in Nat /\ ACC_PRECISION * D \in Nat
    BY <2>1, RemType
  <2> HIDE DEF r, n, D
  <2>5. ACC_PRECISION * (out + r) = ACC_PRECISION * out + ACC_PRECISION * r
    BY <1>2, <2>1
  <2>6. ACC_PRECISION * out \in Nat /\ ACC_PRECISION * r \in Nat
    BY <1>2, <2>1, MulNat
  <2>7. out + r = Owed(u)
    BY DEF r
  <2>8. QED
    BY <2>3, <2>4, <2>5, <2>6, <2>7
<1> HIDE DEF Mid, Keeping, Stakes, Fractions, x
<1>8. SumFunctionOnSet(Mid, Users)
        = SumFunctionOnSet(Keeping, Users) + x * SumFunctionOnSet(Stakes, Users)
  BY <1>2, <1>3, SumLinear, StakingAssumption
<1>9. SumFunctionOnSet(Keeping', Users) + Mid[u]
        = SumFunctionOnSet(Mid, Users) + Keeping'[u]
  <2>1. \A w \in Users : w # u => Mid[w] = Keeping'[w]
    BY <1>5
  <2>2. \A w \in Users : Mid[w] \in Nat /\ Keeping'[w] \in Nat
    BY <1>3
  <2>3. QED
    BY <2>1, <2>2, SumChange, StakingAssumption
<1>10. SumFunctionOnSet(Stakes, Users) = pool.amount
  BY <1>1, StakesSum
<1>11. /\ SumFunctionOnSet(Keeping', Users) \in Nat
       /\ SumFunctionOnSet(Keeping, Users) \in Nat
       /\ Keeping'[u] \in Nat /\ Fractions'[u] \in Nat
  BY SumTypes, SumTypesNext
<1>12. x * pool.amount \in Nat
  BY ReleasedCovers DEF x
<1>13. /\ ACC_PRECISION * out \in Nat /\ ACC_PRECISION * Owed(u) \in Nat
       /\ Rem(user[u].amount, AccNow) \in Nat
  BY <1>2, OwedIsKept, MulNat
<1>14. QED
  BY <1>6, <1>7, <1>8, <1>9, <1>10, <1>11, <1>12, <1>13 DEF x

LEMMA BoundType ==
  ASSUME NEW tokens \in Nat, NEW seconds \in Nat
  PROVE  /\ ACC_PRECISION * tokens \in Nat
         /\ (ACC_PRECISION - 1) * (Cardinality(Users) * seconds) \in Nat
<1>1. Cardinality(Users) \in Nat
  BY FS_CardinalityType, StakingAssumption
<1>2. Cardinality(Users) * seconds \in Nat
  BY <1>1, MulNat
<1>3. QED
  BY <1>2, MulNat, StakingAssumption

(* A user's step keeps the potential: what it pays it no longer owes.      *)
LEMMA SettlesHistory ==
  ASSUME SInv, SInv', HInv, NEW u \in Users, Settles(u), NEW out \in Nat,
         out + user'[u].reward_amount = Owed(u),
         paid' = paid + out, emitted' = emitted
  PROVE  HInv'
<1> DEFINE K == SumFunctionOnSet(Keeping, Users)
           K2 == SumFunctionOnSet(Keeping', Users)
           F == SumFunctionOnSet(Fractions, Users)
           F2 == SumFunctionOnSet(Fractions', Users)
           gain == RewardPerShare * pool.amount
           rem == Rem(user[u].amount, AccNow)
           bound == ACC_PRECISION * emitted
                      + (ACC_PRECISION - 1) * (Cardinality(Users) * (now - StartTime))
<1>1. IInv /\ IInv' /\ TypeOK /\ TypeOK'
  BY DEF SInv, IInv
<1>2. /\ paid \in Nat /\ emitted \in Nat /\ StartTime <= now
      /\ (ACC_PRECISION * paid + K) + Released <= bound + Credit
  BY DEF HInv
<1>3. (ACC_PRECISION * out + K2) + rem = (K + gain) + Fractions'[u]
  BY SettlesKeeping
<1>4. K \in Nat /\ K2 \in Nat /\ F \in Nat /\ F2 \in Nat /\ rem \in Nat /\ Credit \in Nat
  BY SumTypes, SumTypesNext, OwedIsKept
<1>5. Released \in Nat /\ gain \in Nat /\ gain <= Released
  BY ReleasedCovers
<1>6. bound \in Nat
  <2>1. now - StartTime \in Nat
    BY <1>1, <1>2, StakingAssumption DEF TypeOK
  <2> DEFINE a == ACC_PRECISION * emitted
             b == (ACC_PRECISION - 1) * (Cardinality(Users) * (now - StartTime))
  <2>2. a \in Nat /\ b \in Nat
    BY <1>2, <2>1, BoundType
  <2>3. bound = a + b
    OBVIOUS
  <2> HIDE DEF a, b, bound
  <2>4. QED
    BY <2>2, <2>3
<1>7. Fractions'[u] \in Nat /\ Fractions[u] \in Nat /\ Fractions'[u] <= F2
  <2>1. \A w \in Users : Fractions'[w] \in Nat /\ Fractions[w] \in Nat
    BY SumTypes, SumTypesNext
  <2> HIDE DEF Fractions
  <2>2. QED
    BY <2>1, SumBounds, StakingAssumption
<1>8. now' = now /\ pool'.last_reward_time = now /\ now \in Nat
  BY <1>1 DEF Settles, TypeOK
<1>9. Credit' = F2
  BY <1>8 DEF Credit
<1>10. Released' = 0
  <2>1. ACC_PRECISION * (state'.token_per_second * (now' - pool'.last_reward_time)) = 0
    <3>1. state'.token_per_second \in Nat /\ ACC_PRECISION \in Nat
      BY <1>1, StakingAssumption DEF TypeOK, StateAccount
    <3>2. now' - pool'.last_reward_time = 0
      BY <1>8
    <3>3. QED
      BY <3>1, <3>2
  <2>2. QED
    BY <2>1 DEF Released
<1>11. /\ ACC_PRECISION * paid' = ACC_PRECISION * paid + ACC_PRECISION * out
       /\ ACC_PRECISION * paid \in Nat /\ ACC_PRECISION * out \in Nat
  BY <1>2, MulNat, StakingAssumption
<1>12. gain + Credit + Fractions'[u] <= Released + F2 + rem
  <2>1. CASE pool.last_reward_time = now
    <3>1. RewardPerShare = 0 /\ AccNow = pool.acc_reward_per_share
      BY <1>1, <1>8, <2>1 DEF RewardPerShare, AccNow, TypeOK, FarmPoolAccount
    <3>2. gain = 0
      BY <1>1, <3>1 DEF TypeOK, FarmPoolAccount
    <3>3. Credit = F /\ rem = Fractions[u]
      BY <2>1, <3>1 DEF Credit, Fractions, Fraction
    <3>4. F2 + Fractions[u] = F + Fractions'[u]
      <4>1. \A w \in Users : Fractions'[w] \in Nat /\ Fractions[w] \in Nat
        BY SumTypes, SumTypesNext
      <4>2. \A w \in Users : w # u => Fractions[w] = Fractions'[w]
        BY <3>1 DEF Fractions, Fraction, Settles
      <4> HIDE DEF Fractions
      <4>3. QED
        BY <4>1, <4>2, SumChange, StakingAssumption
    <3> HIDE DEF gain, rem, F, F2
    <3>5. QED
      BY <1>4, <1>5, <1>7, <3>2, <3>3, <3>4
  <2>2. CASE pool.last_reward_time # now
    <3>1. Credit = 0
      BY <2>2 DEF Credit
    <3> HIDE DEF gain, rem, F, F2
    <3>2. QED
      BY <1>4, <1>5, <1>7, <3>1
  <2>3. QED
    BY <2>1, <2>2
<1> DEFINE p == ACC_PRECISION * paid
           p2 == ACC_PRECISION * paid'
           o == ACC_PRECISION * out
<1>13. (p2 + K2) + 0 <= bound + F2
  <2> HIDE DEF gain, rem, F, F2, K, K2, bound, p, p2, o
  <2>1. p2 = p + o /\ p \in Nat /\ o \in Nat
    BY <1>11 DEF p, p2, o
  <2>2. (p + K) + Released <= bound + Credit /\ (o + K2) + rem = (K + gain) + Fractions'[u]
    BY <1>2, <1>3 DEF p, o
  <2>3. QED
    BY <1>4, <1>5, <1>6, <1>7, <1>12, <2>1, <2>2
<1>14. paid' \in Nat
  BY <1>2
<1>15. QED
  BY <1>2, <1>8, <1>9, <1>10, <1>13, <1>14 DEF HInv

(* A step after which all accounts and the pool earned the same.           *)
LEMMA KeepsHistory ==
  ASSUME SInv, SInv', HInv, Keeping' = Keeping, Released' = Released, Credit <= Credit',
         UNCHANGED <<now, paid, emitted>>
  PROVE  HInv'
<1>1. Credit \in Nat /\ Credit' \in Nat /\ SumFunctionOnSet(Keeping, Users) \in Nat
  BY SumTypes, SumTypesNext
<1>2. Released \in Nat
  BY ReleasedCovers
<1>3. /\ emitted \in Nat /\ paid \in Nat /\ StartTime <= now /\ now \in Nat
  BY DEF HInv, SInv, IInv, TypeOK
<1>4. now - StartTime \in Nat
  BY <1>3, StakingAssumption
<1> DEFINE k == ACC_PRECISION * paid + SumFunctionOnSet(Keeping, Users)
           b == ACC_PRECISION * emitted
                  + (ACC_PRECISION - 1) * (Cardinality(Users) * (now - StartTime))
<1>5. k \in Nat /\ b \in Nat
  <2>1. /\ ACC_PRECISION * emitted \in Nat
        /\ (ACC_PRECISION - 1) * (Cardinality(Users) * (now - StartTime)) \in Nat
    BY <1>3, <1>4, BoundType
  <2>2. b \in Nat
    BY <2>1
  <2>3. ACC_PRECISION * paid \in Nat
    BY <1>3, MulNat, StakingAssumption
  <2>4. k \in Nat
    BY <1>1, <2>3
  <2>5. QED
    BY <2>2, <2>4
<1>6. k + Released <= b + Credit
  BY DEF HInv
<1>7. k + Released' <= b + Credit'
  <2> DEFINE c == Credit'
  <2>1. c \in Nat /\ Credit <= c
    BY <1>1
  <2>2. k + Released <= b + c
    <3> HIDE DEF k, b, c
    <3>1. QED
      BY <1>1, <1>2, <1>5, <1>6, <2>1
  <2>3. QED
    BY <2>2
<1>8. QED
  BY <1>3, <1>7 DEF HInv

LEMMA SameKeeping ==
  ASSUME pool'.acc_reward_per_share = pool.acc_reward_per_share,
         \A u \in Users : /\ user'[u].amount = user[u].amount
                         /\ user'[u].reward_debt = user[u].reward_debt
                         /\ user'[u].reward_amount = user[u].reward_amount
  PROVE  Keeping' = Keeping /\ Fractions' = Fractions
<1>1. \A u \in Users : Kept(u)' = Kept(u)
  BY DEF Kept
<1>2. \A u \in Users : Fraction(u)' = Fraction(u)
  BY DEF Fraction, Rem
<1>3. QED
  BY <1>1, <1>2 DEF Keeping, Fractions

(* A second passes: what the clock releases is at most what is emitted,    *)
(* and the next second pays for the fractions.                             *)
LEMMA TickHistory ==
  ASSUME SInv, SInv', HInv, UNCHANGED <<user, state, pool, paid>>, now' = now + 1,
         emitted' = IF pool.amount > 0 THEN emitted + state.token_per_second ELSE emitted
  PROVE  HInv'
<1> DEFINE rate == state.token_per_second
           seconds == now - pool.last_reward_time
           N == Cardinality(Users)
           age == now - StartTime
           k == ACC_PRECISION * paid + SumFunctionOnSet(Keeping, Users)
           e == ACC_PRECISION * emitted
           b == (ACC_PRECISION - 1) * (N * age)
           fee == (ACC_PRECISION - 1) * N
<1>1. IInv /\ TypeOK
  BY DEF SInv, IInv
<1>2. /\ paid \in Nat /\ emitted \in Nat /\ StartTime <= now /\ now \in Nat
      /\ rate \in Nat /\ pool.last_reward_time \in Nat /\ pool.last_reward_time <= now
      /\ pool.amount \in Nat /\ ACC_PRECISION \in Nat \ {0} /\ StartTime \in Nat
  BY <1>1, StakingAssumption
     DEF HInv, SInv, UpdatedInPast, TypeOK, FarmPoolAccount, StateAccount
<1>3. age \in Nat /\ now' - StartTime = age + 1 /\ seconds \in Nat
      /\ now' - pool.last_reward_time = seconds + 1
  BY <1>2
<1>4. N \in Nat
  BY FS_CardinalityType, StakingAssumption
<1>5. Keeping' = Keeping
  BY SameKeeping
<1>6. k \in Nat /\ Credit \in Nat /\ Credit <= fee
  <2>1. ACC_PRECISION * paid \in Nat
    BY <1>2, MulNat
  <2>2. /\ SumFunctionOnSet(Keeping, Users) \in Nat /\ Credit \in Nat
        /\ SumFunctionOnSet(Fractions, Users) <= fee
    BY SumTypes
  <2>3. fee \in Nat
    BY <1>2, <1>4, MulNat
  <2> HIDE DEF fee
  <2>4. QED
    BY <2>1, <2>2, <2>3 DEF Credit
<1>7. Credit' = 0
  BY <1>2 DEF Credit
<1>8. (k + Released) <= (e + b) + Credit
  BY DEF HInv
<1>9. e \in Nat /\ b \in Nat /\ fee \in Nat
  BY <1>2, <1>3, <1>4, BoundType, MulNat
<1>10. (ACC_PRECISION - 1) * (N * (age + 1)) = b + fee
  <2> HIDE DEF N, age
  <2>1. QED
    BY <1>2, <1>3, <1>4
<1>11. emitted' \in Nat /\ paid' \in Nat /\ StartTime <= now'
  BY <1>2
<1>12. (k + Released') + e <= (k + Released) + ACC_PRECISION * emitted'
  <2>1. CASE pool.amount > 0
    <3> DEFINE x == ACC_PRECISION * (rate * seconds)
               y == ACC_PRECISION * rate
    <3>1. Released' = ACC_PRECISION * (rate * (seconds + 1)) /\ Released = x
      BY <1>3, <2>1 DEF Released
    <3>2. ACC_PRECISION * emitted' = ACC_PRECISION * (emitted + rate)
      BY <2>1
    <3> HIDE DEF rate, seconds
    <3>3. ACC_PRECISION * (rate * (seconds + 1)) = x + y
      BY <1>2, <1>3
    <3>4. ACC_PRECISION * (emitted + rate) = e + y
      BY <1>2
    <3>5. x \in Nat /\ y \in Nat
      BY <1>2, <1>3, MulNat
    <3> HIDE DEF x, y, k, e
    <3>6. (k + (x + y)) + e <= (k + x) + (e + y)
      BY <1>6, <1>9, <3>5
    <3>7. QED
      BY <3>1, <3>2, <3>3, <3>4, <3>6
  <2>2. CASE ~(pool.amount > 0)
    <3>1. Released' = 0 /\ Released = 0 /\ emitted' = emitted
      BY <2>2 DEF Released
    <3> HIDE DEF k
    <3>2. (k + 0) + e <= (k + 0) + e
      BY <1>6, <1>9
    <3>3. QED
      BY <3>1, <3>2
  <2>3. QED
    BY <2>1, <2>2
<1>13. Released \in Nat /\ Released' \in Nat
  <2>1. Released \in Nat
    BY ReleasedCovers
  <2>2. ACC_PRECISION * (rate * (seconds + 1)) \in Nat
    <3>1. seconds + 1 \in Nat
      BY <1>3
    <3>2. QED
      BY <1>2, <3>1, MulNat
  <2>3. Released' = IF pool.amount > 0 THEN ACC_PRECISION * (rate * (seconds + 1)) ELSE 0
    BY <1>3 DEF Released
  <2> HIDE DEF rate, seconds
  <2>4. QED
    BY <2>1, <2>2, <2>3
<1> DEFINE r == Released'
           f == ACC_PRECISION * emitted'
<1>14. f \in Nat
  BY <1>2, <1>11, MulNat
<1>15. k + r <= (f + (b + fee)) + 0
  <2>1. r \in Nat /\ (k + r) + e <= (k + Released) + f /\ Released \in Nat
    BY <1>12, <1>13
  <2> HIDE DEF k, e, b, fee, r, f
  <2>2. QED
    BY <1>6, <1>8, <1>9, <1>14, <2>1
<1>16. QED
  BY <1>3, <1>5, <1>7, <1>10, <1>11, <1>15 DEF HInv

LEMMA HInvInit == Init /\ HistoryInit => HInv
<1> SUFFICES ASSUME Init, HistoryInit PROVE HInv
  OBVIOUS
<1>1. /\ paid = 0 /\ emitted = 0 /\ now = StartTime /\ pool = NoPool
      /\ StartTime \in Nat \ {0} /\ ACC_PRECISION \in Nat \ {0}
      /\ \A u \in Users : user[u] = NoUser
  BY StakingAssumption DEF Init, HistoryInit
<1>2. \A u \in Users : Keeping[u] = 0
  BY <1>1 DEF Keeping, Kept, NoUser, FreshUser, NoPool
<1>3. SumFunctionOnSet(Keeping, Users) = 0
  BY <1>2, SumZero, StakingAssumption
<1>4. Released = 0 /\ Credit = 0
  BY <1>1 DEF Released, Credit, NoPool
<1>5. /\ ACC_PRECISION * 0 = 0 /\ now - StartTime = 0
      /\ (ACC_PRECISION - 1) * (Cardinality(Users) * 0) = 0
  <2>1. Cardinality(Users) \in Nat
    BY FS_CardinalityType, StakingAssumption
  <2>2. QED
    BY <1>1, <2>1
<1>6. QED
  BY <1>1, <1>3, <1>4, <1>5 DEF HInv

OneRate == \A r1, r2 \in Rates : r1 = r2

(* One step of the program together with its history.                      *)
LEMMA HInvStep ==
  ASSUME OneRate, SInv, SInv', HInv, Next, HistoryNext
  PROVE  HInv'
<1>1. IInv /\ IInv' /\ TypeOK /\ TypeOK'
  BY DEF SInv, IInv
<1>2. emitted' = IF now' > now /\ pool.amount > 0
                 THEN emitted + state.token_per_second ELSE emitted
  BY DEF HistoryNext
<1>3. paid \in Nat /\ now \in Nat
  BY <1>1 DEF HInv, TypeOK
<1>4. ASSUME NEW u \in Users, Harvest(u), paid' = paid + Owed(u)
      PROVE  HInv'
  <2>1. Settles(u) /\ user'[u].reward_amount = 0
    BY <1>1, <1>4, HarvestSettles
  <2>2. emitted' = emitted
    BY <1>2, <1>3, <2>1 DEF Settles
  <2>3. Owed(u) \in Nat
    BY OwedIsKept
  <2>4. Owed(u) + user'[u].reward_amount = Owed(u)
    BY <2>1, <2>3
  <2>5. QED
    BY <1>4, <2>1, <2>2, <2>3, <2>4, SettlesHistory
<1>5. ASSUME \A u \in Users : ~Harvest(u), paid' = paid
      PROVE  HInv'
  <2>1. ASSUME NEW u \in Users, SettlingStep(u)
        PROVE  HInv'
    <3>1. Settles(u)
      BY <2>1 DEF SettlingStep
    <3>2. user'[u].reward_amount = user[u].reward_amount + Pending(u)
      <4>1. CASE \E amount \in 0 .. user[u].amount : UnStake(u, amount)
        <5>1. KeepsReward(u, UnStakePercentage(u))
          BY <1>1, <4>1, UnStakeSettles DEF TypeOK, FarmPoolUserAccount
        <5>2. QED
          BY <5>1 DEF KeepsReward
      <4>2. QED
        BY <1>5, <2>1, <4>1 DEF SettlingStep, KeepsReward
    <3>3. Owed(u) \in Nat
      BY OwedIsKept
    <3>4. 0 + user'[u].reward_amount = Owed(u) /\ paid' = paid + 0
      BY <1>3, <1>5, <3>2, <3>3 DEF Owed
    <3>5. emitted' = emitted
      BY <1>2, <1>3, <3>1 DEF Settles
    <3>6. QED
      BY <3>1, <3>4, <3>5, SettlesHistory
  <2>2. ASSUME NEW u \in Users, Opens(u)
        PROVE  HInv'
    <3>1. /\ pool'.acc_reward_per_share = pool.acc_reward_per_share
          /\ \A w \in Users : /\ user'[w].amount = user[w].amount
                              /\ user'[w].reward_debt = user[w].reward_debt
                              /\ user'[w].reward_amount = user[w].reward_amount
      BY <2>2 DEF SInv, UnopenedIsEmpty, Opens, PoolKept, NoUser, FreshUser
    <3>2. Keeping' = Keeping /\ Fractions' = Fractions
      BY <3>1, SameKeeping
    <3>3. now' = now /\ emitted' = emitted
      BY <1>2, <1>3, <2>2 DEF Opens
    <3>4. Released' = Released
      BY <2>2, <3>3 DEF Released, Opens, PoolKept
    <3>5. Credit' = Credit
      BY <2>2, <3>2, <3>3 DEF Credit, Opens, PoolKept
    <3>6. QED
      BY <1>5, <3>2, <3>3, <3>4, <3>5, SumTypes, KeepsHistory
  <2>3. CASE Resets
    <3>1. pool.amount = 0 /\ user' = user /\ now' = now /\ pool'.amount = 0
      BY <2>3 DEF Resets, SInv, ClosedIsEmpty
    <3>2. \A u \in Users : user[u].amount = 0 /\ user[u].reward_debt = 0
      BY <1>1, <3>1, EmptyPool DEF SInv
    <3>3. pool.acc_reward_per_share \in Nat /\ pool'.acc_reward_per_share \in Nat
      BY <1>1 DEF TypeOK, FarmPoolAccount
    <3>4. 0 * pool.acc_reward_per_share = 0 /\ 0 * pool'.acc_reward_per_share = 0
      BY <3>3
    <3>5. \A u \in Users : Kept(u)' = Kept(u)
      BY <3>1, <3>2, <3>4 DEF Kept
    <3>6. Keeping' = Keeping
      BY <3>5 DEF Keeping
    <3>7. \A u \in Users : Fractions[u] = 0
      <4>1. 0 \div ACC_PRECISION = 0 /\ ACC_PRECISION * 0 = 0
        BY StakingAssumption
      <4>2. QED
        BY <3>2, <3>4, <4>1 DEF Fractions, Fraction, Rem
    <3>8. SumFunctionOnSet(Fractions, Users) = 0
      BY <3>7, SumZero, StakingAssumption
    <3>9. Credit <= Credit'
      <4>1. Credit = 0 /\ Credit' \in Nat
        BY <3>8, SumTypesNext DEF Credit
      <4> DEFINE c == Credit'
      <4>2. c \in Nat
        BY <4>1
      <4>3. 0 <= c
        <5> HIDE DEF c
        <5>1. QED
          BY <4>2
      <4>4. QED
        BY <4>1, <4>3
    <3>10. Released' = Released /\ emitted' = emitted
      BY <1>2, <1>3, <3>1 DEF Released
    <3>11. QED
      BY <1>5, <3>1, <3>6, <3>9, <3>10, KeepsHistory
  <2>4. CASE Keeps /\ now' = now
    <3>1. Keeping' = Keeping /\ Fractions' = Fractions
      BY <2>4, SameKeeping DEF Keeps, PoolKept
    <3>2. state'.token_per_second = state.token_per_second
      BY <1>1 DEF TypeOK, StateAccount, OneRate
    <3>3. emitted' = emitted
      BY <1>2, <1>3, <2>4
    <3>4. Released' = Released
      BY <2>4, <3>2 DEF Released, Keeps, PoolKept
    <3>5. Credit' = Credit
      BY <2>4, <3>1 DEF Credit, Keeps, PoolKept
    <3>6. QED
      BY <1>5, <2>4, <3>1, <3>3, <3>4, <3>5, SumTypes, KeepsHistory
  <2>5. CASE Keeps /\ now' = now + 1 /\ UNCHANGED <<state, pool>>
    <3>1. emitted' = IF pool.amount > 0 THEN emitted + state.token_per_second ELSE emitted
      BY <1>2, <1>3, <2>5
    <3>2. QED
      BY <1>5, <2>5, <3>1, TickHistory DEF Keeps
  <2>6. QED
    BY <1>1, <2>1, <2>2, <2>3, <2>4, <2>5, StepShapes DEF Keeps
<1>6. QED
  BY <1>4, <1>5 DEF HistoryNext

LEMMA HInvStutter ==
  ASSUME SInv, SInv', HInv, UNCHANGED <<vars, emitted, paid>>
  PROVE  HInv'
<1>1. Keeping' = Keeping /\ Fractions' = Fractions
  BY SameKeeping DEF vars
<1>2. Released' = Released /\ Credit' = Credit
  BY <1>1 DEF vars, Released, Credit
<1>3. QED
  BY <1>1, <1>2, SumTypes, KeepsHistory DEF vars

LEMMA HistoryInvariant ==
  ASSUME OneRate
  PROVE  HistorySpec => []SInv /\ []HInv
<1>1. Init /\ HistoryInit => SInv /\ HInv
  BY SInvInit, HInvInit
<1>2. SInv /\ HInv /\ [Next /\ HistoryNext]_<<vars, emitted, paid>> => SInv' /\ HInv'
  <2> SUFFICES ASSUME SInv, HInv, [Next /\ HistoryNext]_<<vars, emitted, paid>>
               PROVE  SInv' /\ HInv'
    OBVIOUS
  <2>1. [Next]_vars
    OBVIOUS
  <2>2. SInv'
    BY <2>1, SInvStep
  <2>3. HInv'
    BY <2>2, HInvStep, HInvStutter
  <2>4. QED
    BY <2>2, <2>3
<1>3. QED
  BY <1>1, <1>2, PTL DEF HistorySpec

(* The bound itself: what is owed beyond the last update is covered by     *)
(* what the clock released since.                                          *)
LEMMA BoundFromHInv ==
  ASSUME SInv, HInv
  PROVE  EmissionBound
<1> DEFINE O == SumFunctionOnSet(Owing, Users)
           K == SumFunctionOnSet(Keeping, Users)
           F == SumFunctionOnSet(Fractions, Users)
           x == RewardPerShare
           RemNow == [u \in Users |-> Rem(user[u].amount, AccNow)]
           Earned == [u \in Users |-> ACC_PRECISION * Owing[u] + RemNow[u]]
           R == SumFunctionOnSet(RemNow, Users)
           n == Cardinality(Users) * (now - StartTime)
<1>1. IInv /\ TypeOK /\ PointsAgree /\ StakesBacked
  BY DEF SInv, IInv
<1>2. /\ x \in Nat /\ ACC_PRECISION \in Nat \ {0} /\ now \in Nat
      /\ paid \in Nat /\ emitted \in Nat /\ StartTime <= now /\ StartTime \in Nat
  BY <1>1, RewardPerShareType, StakingAssumption DEF HInv, TypeOK
<1>3. \A u \in Users : /\ Owing[u] \in Nat /\ RemNow[u] \in Nat /\ Keeping[u] \in Nat
                       /\ Stakes[u] \in Nat
                       /\ Earned[u] = RemNow[u] + ACC_PRECISION * Owing[u]
                       /\ Earned[u] = Keeping[u] + x * Stakes[u]
                       /\ Earned[u] \in Nat
  <2> TAKE u \in Users
  <2>1. /\ Owing[u] = Owed(u) /\ Keeping[u] = Kept(u) /\ Stakes[u] = user[u].amount
        /\ RemNow[u] = Rem(user[u].amount, AccNow)
        /\ Earned[u] = ACC_PRECISION * Owing[u] + RemNow[u]
    BY DEF Owing, Keeping, Stakes
  <2>2. /\ Owing[u] \in Nat /\ RemNow[u] \in Nat
        /\ ACC_PRECISION * Owing[u] + RemNow[u] = Keeping[u] + x * Stakes[u]
    BY <2>1, OwedIsKept, StakingAssumption
  <2>3. Keeping[u] \in Nat /\ Stakes[u] \in Nat
    BY <1>1, <2>1, SumTypes, AmountType
  <2>4. ACC_PRECISION * Owing[u] \in Nat
    BY <1>2, <2>2, MulNat
  <2> HIDE DEF x, RemNow, Earned
  <2>5. QED
    BY <2>1, <2>2, <2>3, <2>4
<1> HIDE DEF x, RemNow, Earned, Owing, Keeping, Stakes
<1>4. SumFunctionOnSet(Earned, Users) = R + ACC_PRECISION * O
  BY <1>2, <1>3, SumLinear, StakingAssumption
<1>5. SumFunctionOnSet(Earned, Users) = K + x * pool.amount
  <2>1. SumFunctionOnSet(Earned, Users) = K + x * SumFunctionOnSet(Stakes, Users)
    BY <1>2, <1>3, SumLinear, StakingAssumption
  <2>2. QED
    BY <1>1, <2>1, StakesSum
<1>6. R \in Nat /\ O \in Nat /\ K \in Nat
  BY <1>3, SumType, StakingAssumption
<1>7. Released \in Nat /\ x * pool.amount \in Nat /\ x * pool.amount <= Released
  BY ReleasedCovers DEF x
<1>8. Credit <= R
  <2>1. CASE pool.last_reward_time = now
    <3>1. AccNow = pool.acc_reward_per_share
      BY <1>1, <1>2, <2>1 DEF RewardPerShare, AccNow, TypeOK, FarmPoolAccount
    <3>2. \A u \in Users : RemNow[u] = Fractions[u]
      BY <3>1 DEF RemNow, Fractions, Fraction
    <3>3. R = F
      BY <3>2, SumSame, StakingAssumption
    <3>4. QED
      BY <1>6, <2>1, <3>3 DEF Credit
  <2>2. CASE pool.last_reward_time # now
    BY <1>6, <2>2 DEF Credit
  <2>3. QED
    BY <2>1, <2>2
<1>9. Credit \in Nat
  BY SumTypes
<1>10. n \in Nat
  <2>1. now - StartTime \in Nat /\ Cardinality(Users) \in Nat
    BY <1>2, FS_CardinalityType, StakingAssumption
  <2>2. QED
    BY <2>1, MulNat
<1>11. (ACC_PRECISION * paid + K) + Released
         <= (ACC_PRECISION * emitted + (ACC_PRECISION - 1) * n) + Credit
  BY DEF HInv
<1> HIDE DEF O, K, F, R, n
<1> DEFINE p == ACC_PRECISION * paid
           e == ACC_PRECISION * emitted
           o == ACC_PRECISION * O
           m == ACC_PRECISION * n
           m1 == (ACC_PRECISION - 1) * n
<1>12. m1 <= m /\ m1 \in Nat /\ m \in Nat
  <2>1. m = m1 + n
    BY <1>2, <1>10
  <2>2. m1 \in Nat
    BY <1>2, <1>10, MulNat
  <2> HIDE DEF m, m1
  <2>3. QED
    BY <1>10, <2>1, <2>2
<1>13. p \in Nat /\ e \in Nat /\ o \in Nat
  BY <1>2, <1>6, MulNat
<1>14. p + o <= e + m
  <2>1. R + o = K + x * pool.amount
    BY <1>4, <1>5
  <2>2. (p + K) + Released <= (e + m1) + Credit
    BY <1>11
  <2> HIDE DEF p, e, o, m, m1
  <2>3. QED
    BY <1>6, <1>7, <1>8, <1>9, <1>12, <1>13, <2>1, <2>2
<1>15. ACC_PRECISION * (paid + O) <= ACC_PRECISION * (emitted + n)
  <2>1. ACC_PRECISION * (paid + O) = p + o /\ ACC_PRECISION * (emitted + n) = e + m
    BY <1>2, <1>6, <1>10
  <2> HIDE DEF p, e, o, m
  <2>2. QED
    BY <1>14, <2>1
<1>16. paid + O <= emitted + n
  <2>1. paid + O \in Nat /\ emitted + n \in Nat
    BY <1>2, <1>6, <1>10
  <2>2. QED
    BY <1>2, <1>15, <2>1, TimesCancel
<1>17. O = SumFunction([u \in Users |-> Owed(u)])
  BY DEF O, Owing, SumFunction
<1>18. QED
  BY <1>16, <1>17 DEF EmissionBound, n

(* At a rate that does not change, all accounts together never earn more   *)
(* than the clock released to a pool with stakes, but for the roundings of *)
(* the reward debts: less than a token for each account and second.  The   *)
(* hypothesis is needed: a new rate counts from the last `update`, because *)
(* change_tokens_per_second updates a copy of the pool.                    *)
THEOREM EmissionBounded ==
  ASSUME OneRate
  PROVE  HistorySpec => []EmissionBound
<1>1. SInv /\ HInv => EmissionBound
  BY BoundFromHInv
<1>2. QED
  BY <1>1, HistoryInvariant, PTL

-----------------------------------------------------------------------------
(* The client's estimate.                                                  *)

(* The client finds a tier by equality, the program by order: in a valid   *)
(* table that holds the lock's duration both find the same.                *)
LEMMA SameTier ==
  ASSUME TypeOK, ValidConfigs(configs), NEW lock \in Nat,
         \E i \in 1 .. Len(configs) : configs[i].duration = lock
  PROVE  TierPercentage(lock) = ExtraPercentage(lock)
<1> DEFINE n == Len(configs)
           below == {i \in 1 .. n : configs[i].duration <= lock}
           equal == {i \in 1 .. n : configs[i].duration = lock}
           Top(T, i) == i \in T /\ \A j \in T : j <= i
<1>1. configs \in Seq(DurationExtraRewardConfig) /\ n \in Nat
  BY StakingAssumption DEF TypeOK
<1>2. \A i \in 1 .. n : configs[i].duration \in Nat
  <2> TAKE i \in 1 .. n
  <2>1. configs[i] \in DurationExtraRewardConfig
    BY <1>1
  <2>2. QED
    BY <2>1 DEF DurationExtraRewardConfig
<1>3. equal \subseteq below /\ equal # {}
  BY <1>2
<1>4. PICK m \in below : \A j \in below : j <= m
  <2>1. below \in SUBSET (1 .. n) /\ below # {}
    BY <1>3
  <2> HIDE DEF below, n
  <2>2. QED
    BY <1>1, <2>1, GreatestIndex
<1>5. PICK i \in equal : TRUE
  BY <1>3
<1>6. m \in equal
  <2>1. i \in 1 .. n /\ m \in 1 .. n /\ i <= m /\ configs[i].duration = lock
        /\ configs[m].duration <= lock
    BY <1>3, <1>4, <1>5
  <2>2. CASE i = m
    BY <2>1, <2>2
  <2>3. CASE i < m
    <3>1. n > 1
      BY <1>1, <2>1, <2>3
    <3>2. configs[i].duration <= configs[m].duration
      BY <2>1, <2>3, <3>1 DEF ValidConfigs
    <3>3. configs[m].duration = lock
      BY <1>2, <2>1, <3>2
    <3>4. QED
      BY <2>1, <3>3
  <2>4. QED
    BY <1>1, <2>1, <2>2, <2>3
<1>7. \A j \in equal : j <= m
  BY <1>3, <1>4
<1>8. below \subseteq Nat /\ equal \subseteq Nat
  BY <1>1
<1>9. (CHOOSE k \in below : \A j \in below : j <= k) = m
  <2> HIDE DEF below, equal
  <2> DEFINE k == CHOOSE k \in below : \A j \in below : j <= k
  <2>1. k \in below /\ \A j \in below : j <= k
    BY <1>4
  <2>2. k <= m /\ m <= k /\ k \in Nat /\ m \in Nat
    BY <1>4, <1>8, <2>1
  <2> HIDE DEF k
  <2>3. k = m
    BY <2>2
  <2>4. QED
    BY <2>3 DEF k
<1>10. (CHOOSE k \in equal : \A j \in equal : j <= k) = m
  <2> HIDE DEF below, equal
  <2> DEFINE k == CHOOSE k \in equal : \A j \in equal : j <= k
  <2>1. k \in equal /\ \A j \in equal : j <= k
    BY <1>6, <1>7
  <2>2. k <= m /\ m <= k /\ k \in Nat /\ m \in Nat
    BY <1>6, <1>7, <1>8, <2>1
  <2> HIDE DEF k
  <2>3. k = m
    BY <2>2
  <2>4. QED
    BY <2>3 DEF k
<1>11. ExtraPercentage(lock) = configs[m].extra_percentage
  BY <1>3, <1>9 DEF ExtraPercentage
<1>12. TierPercentage(lock) = configs[m].extra_percentage
  BY <1>3, <1>10 DEF TierPercentage
<1>13. QED
  BY <1>11, <1>12

CInv == SInv /\ ValidConfigs(configs)

LEMMA ConfigsStep ==
  ASSUME SInv, ValidConfigs(configs), [Next]_vars
  PROVE  ValidConfigs(configs')
<1>1. (\E c \in RewardConfigs : SetExtraRewardConfigs(c)) \/ configs' = configs
  BY DEF Next, UserNext, AdminNext, Tick, vars, CreateUser, Stake, UnStake, Harvest,
         FundRewardToken, CreatePool, ClosePool, ChangePoolPoint, ChangeTokensPerSecond,
         ChangeEarlyUnlockFee, ChangeProfileLevels
<1>2. ASSUME NEW c \in RewardConfigs, SetExtraRewardConfigs(c)
      PROVE  ValidConfigs(configs')
  BY <1>2 DEF SetExtraRewardConfigs
<1>3. QED
  BY <1>1, <1>2

LEMMA ClientInvariant == Spec => []CInv
<1>1. Init => CInv
  BY SInvInit DEF CInv, Init
<1>2. CInv /\ [Next]_vars => CInv'
  <2> SUFFICES ASSUME CInv, [Next]_vars PROVE CInv'
    OBVIOUS
  <2>1. SInv /\ ValidConfigs(configs)
    BY DEF CInv
  <2>2. SInv' /\ ValidConfigs(configs')
    BY <2>1, SInvStep, ConfigsStep
  <2>3. QED
    BY <2>2 DEF CInv
<1>3. QED
  BY <1>1, <1>2, PTL DEF Spec

(* Without points the client computes the accumulator of the program.      *)
LEMMA ClientAccumulator ==
  ASSUME SInv, pool.amount > 0, pool.point > 0
  PROVE  AccNow = pool.acc_reward_per_share
           + (state.token_per_second * (now - pool.last_reward_time) * ACC_PRECISION)
               \div pool.amount
<1> DEFINE rate == state.token_per_second
           seconds == now - pool.last_reward_time
           X == rate * seconds * ACC_PRECISION
<1>1. IInv /\ TypeOK /\ PointsAgree
  BY DEF SInv, IInv
<1>2. /\ rate \in Nat /\ now \in Nat /\ pool.last_reward_time \in Nat
      /\ pool.amount \in Nat \ {0} /\ pool.point \in Nat \ {0}
      /\ ACC_PRECISION \in Nat \ {0}
  <2>1. state.token_per_second \in Nat
    BY <1>1, StakingAssumption DEF TypeOK, StateAccount
  <2>2. pool.amount \in Nat /\ pool.point \in Nat /\ pool.last_reward_time \in Nat
    BY <1>1 DEF TypeOK, FarmPoolAccount
  <2>3. now \in Nat
    BY <1>1 DEF TypeOK
  <2>4. QED
    BY <2>1, <2>2, <2>3, StakingAssumption
<1>3. seconds \in Nat
  BY <1>2 DEF SInv, UpdatedInPast
<1>4. CASE seconds > 0
  <2>1. RewardPerShare = ((rate * seconds * pool.point * ACC_PRECISION) \div pool.point)
                           \div pool.amount
    BY <1>1, <1>4 DEF RewardPerShare, PointsAgree
  <2> HIDE DEF rate, seconds
  <2>2. rate * seconds * pool.point * ACC_PRECISION = X * pool.point
    BY <1>2, <1>3
  <2>3. X \in Nat
    BY <1>2, <1>3, MulNat
  <2>4. (X * pool.point) \div pool.point = X
    BY <1>2, <2>3, DivCancel
  <2> HIDE DEF X
  <2>5. RewardPerShare = X \div pool.amount
    BY <2>1, <2>2, <2>4
  <2>6. QED
    BY <2>5 DEF AccNow, X, rate, seconds
<1>5. CASE seconds = 0
  <2>1. RewardPerShare = 0
    BY <1>5 DEF RewardPerShare
  <2>2. X = 0
    <3> HIDE DEF rate, seconds
    <3>1. QED
      BY <1>2, <1>5
  <2>3. 0 \div pool.amount = 0
    BY <1>2
  <2> HIDE DEF X
  <2>4. X \div pool.amount = 0
    BY <2>2, <2>3
  <2>5. QED
    BY <2>1, <2>4 DEF AccNow, X, rate, seconds
<1>6. QED
  BY <1>3, <1>4, <1>5

Percentage(u) == ExtraPercentage(user[u].lock_duration)

(* The estimate is what the program owes, the extra reward included.       *)
LEMMA EstimateIs ==
  ASSUME CInv, NEW u \in Users, Estimable(u)
  PROVE  /\ EstimateRewards(u)
              = (user[u].reward_amount + Pending(u))
                  + (user[u].extra_reward + Extra(u, Percentage(u)))
         /\ user[u].reward_amount \in Nat /\ user[u].extra_reward \in Nat
         /\ Pending(u) \in Nat /\ Extra(u, Percentage(u)) \in Nat
         /\ Percentage(u) \in Nat
<1>1. SInv /\ ValidConfigs(configs) /\ IInv /\ TypeOK /\ PointsAgree
  BY DEF CInv, SInv, IInv
<1>2. /\ user[u].lock_duration \in Nat /\ user[u].reward_amount \in Nat
      /\ user[u].extra_reward \in Nat /\ user[u].amount \in Nat
      /\ user[u].reward_debt \in Nat
  BY <1>1 DEF TypeOK, FarmPoolUserAccount
<1>3. TierPercentage(user[u].lock_duration) = Percentage(u)
  BY <1>1, <1>2, SameTier DEF Estimable, Percentage
<1>4. AccNow = pool.acc_reward_per_share
        + (state.token_per_second * (now - pool.last_reward_time) * ACC_PRECISION)
            \div pool.amount
  BY <1>1, ClientAccumulator DEF Estimable
<1>5. EstimateRewards(u)
        = user[u].reward_amount + Pending(u)
            + (user[u].extra_reward + Extra(u, Percentage(u)))
  BY <1>3, <1>4 DEF EstimateRewards, Pending, RewardDebt, Extra
<1>6. Percentage(u) \in Nat
  BY <1>1, <1>2, ExtraPercentageType DEF Percentage
<1>7. Pending(u) \in Nat
  <2>1. user[u].reward_debt <= RewardDebt(user[u].amount)
    BY <1>1, DebtsCovered DEF DebtCovered
  <2>2. RewardDebt(user[u].amount) \in Nat
    BY <1>1, <1>2, RewardDebtType
  <2>3. QED
    BY <1>2, <2>1, <2>2 DEF Pending
<1>8. Extra(u, Percentage(u)) \in Nat
  BY <1>6, <1>7, MulNat, DivNat, StakingAssumption DEF Extra, FULL_100
<1>9. QED
  BY <1>2, <1>5, <1>6, <1>7, <1>8

(* A harvest pays to the token what the client shows for that second.      *)
THEOREM EstimateHarvested == Spec => EstimateIsHarvested
<1>1. CInv /\ [Next]_vars =>
        [\A u \in Users : Estimable(u) /\ Harvest(u) =>
           wallet'[u] - wallet[u] = EstimateRewards(u)]_vars
  <2> SUFFICES ASSUME CInv, NEW u \in Users, Estimable(u), Harvest(u)
               PROVE  wallet'[u] - wallet[u] = EstimateRewards(u)
    OBVIOUS
  <2>1. IInv /\ wallet[u] \in Nat
    BY DEF CInv, SInv, IInv, TypeOK
  <2>2. wallet'[u] = wallet[u] + ((user[u].reward_amount + Pending(u))
                       + (user[u].extra_reward + Extra(u, Percentage(u))))
    BY <2>1, HarvestSettles DEF Percentage
  <2> DEFINE e == (user[u].reward_amount + Pending(u))
                    + (user[u].extra_reward + Extra(u, Percentage(u)))
  <2>3. e \in Nat /\ EstimateRewards(u) = e
    BY EstimateIs
  <2> HIDE DEF e
  <2>4. wallet'[u] = wallet[u] + e
    BY <2>2 DEF e
  <2>5. QED
    BY <2>1, <2>3, <2>4
<1>2. QED
  BY <1>1, ClientInvariant, PTL DEF Spec, EstimateIsHarvested

(* The estimate in the program's terms.                                    *)
Shown(u) ==
  (user[u].reward_amount + Pending(u)) + (user[u].extra_reward + Extra(u, Percentage(u)))

EstimatesShown ==
  \A u \in Users : Estimable(u) =>
    /\ EstimateRewards(u) = Shown(u)
    /\ Shown(u) \in Nat /\ Percentage(u) \in Nat

LEMMA EstimateShown == CInv => EstimatesShown
<1> SUFFICES ASSUME CInv, NEW u \in Users, Estimable(u)
             PROVE  /\ EstimateRewards(u) = Shown(u)
                    /\ Shown(u) \in Nat /\ Percentage(u) \in Nat
  BY DEF EstimatesShown
<1>1. QED
  BY EstimateIs DEF Shown

LEMMA ShownSame ==
  ASSUME NEW u \in Users, AccNow' = AccNow, user'[u] = user[u], configs' = configs
  PROVE  Shown(u)' = Shown(u)
<1>1. Pending(u)' = Pending(u)
  BY DEF Pending, RewardDebt
<1>2. Percentage(u)' = Percentage(u)
  BY DEF Percentage, ExtraPercentage
<1>3. QED
  BY <1>1, <1>2 DEF Shown, Extra

(* While the clock runs and the pool has stakes the accumulator grows.     *)
LEMMA AccTicks ==
  ASSUME SInv, SInv', UNCHANGED <<state, pool>>, now' = now + 1,
         pool.amount > 0, pool.point > 0
  PROVE  AccNow' \in Nat /\ AccNow <= AccNow'
<1> DEFINE rate == state.token_per_second
           seconds == now - pool.last_reward_time
           a == pool.acc_reward_per_share
<1>1. IInv /\ TypeOK
  BY DEF SInv, IInv
<1>2. /\ rate \in Nat /\ now \in Nat /\ pool.last_reward_time \in Nat /\ a \in Nat
      /\ pool.amount \in Nat /\ ACC_PRECISION \in Nat \ {0}
      /\ pool.last_reward_time <= now
  BY <1>1, StakingAssumption
     DEF TypeOK, StateAccount, FarmPoolAccount, SInv, UpdatedInPast
<1>3. seconds \in Nat /\ now' - pool'.last_reward_time = seconds + 1
  BY <1>2
<1>4. AccNow = a + (rate * seconds * ACC_PRECISION) \div pool.amount
  BY ClientAccumulator
<1>5. AccNow' = a + (rate * (seconds + 1) * ACC_PRECISION) \div pool.amount
  <2>1. (pool.amount > 0)' /\ (pool.point > 0)'
    OBVIOUS
  <2>2. (AccNow = pool.acc_reward_per_share
           + (state.token_per_second * (now - pool.last_reward_time) * ACC_PRECISION)
               \div pool.amount)'
    BY <2>1, ClientAccumulator, PTL
  <2>3. QED
    BY <1>3, <2>2
<1> HIDE DEF rate, seconds, a
<1> DEFINE x == rate * seconds * ACC_PRECISION
           y == rate * (seconds + 1) * ACC_PRECISION
<1>6. x \in Nat /\ y \in Nat /\ x <= y
  <2>1. y = x + rate * ACC_PRECISION
    BY <1>2, <1>3
  <2>2. x \in Nat /\ rate * ACC_PRECISION \in Nat
    BY <1>2, <1>3, MulNat
  <2> HIDE DEF x, y
  <2>3. QED
    BY <2>1, <2>2
<1> HIDE DEF x, y
<1>7. /\ x \div pool.amount \in Nat /\ y \div pool.amount \in Nat
      /\ x \div pool.amount <= y \div pool.amount
  BY <1>2, <1>6, DivMonotone, DivNat
<1>8. AccNow = a + x \div pool.amount /\ AccNow' = a + y \div pool.amount
  BY <1>4, <1>5 DEF x, y
<1>9. QED
  BY <1>2, <1>7, <1>8

LEMMA ShownTicks ==
  ASSUME CInv, SInv', UNCHANGED <<state, pool, user, configs>>, now' = now + 1,
         NEW u \in Users, Estimable(u)
  PROVE  Shown(u) <= Shown(u)'
<1> DEFINE n == user[u].amount
           d == user[u].reward_debt
           pct == Percentage(u)
           q == Pending(u)
           A == AccNow'
           q2 == (n * A) \div ACC_PRECISION - d
<1>1. SInv /\ IInv /\ TypeOK /\ PointsAgree
  BY DEF CInv, SInv, IInv
<1>2. /\ n \in Nat /\ d \in Nat /\ user[u].reward_amount \in Nat
      /\ user[u].extra_reward \in Nat
  BY <1>1 DEF TypeOK, FarmPoolUserAccount
<1>3. A \in Nat /\ AccNow \in Nat /\ AccNow <= A
  BY <1>1, AccTicks, AccNowType DEF Estimable
<1>4. q = (n * AccNow) \div ACC_PRECISION - d
  BY DEF Pending, RewardDebt
<1>5. q \in Nat /\ pct \in Nat
  BY EstimateIs
<1> HIDE DEF n, d, A, q, pct
<1>6. (n * AccNow) \div ACC_PRECISION <= (n * A) \div ACC_PRECISION
  BY <1>2, <1>3, ShareMonotone
<1>7. (n * AccNow) \div ACC_PRECISION \in Nat /\ (n * A) \div ACC_PRECISION \in Nat
  BY <1>2, <1>3, ShareType
<1>8. q2 \in Nat /\ q <= q2
  BY <1>2, <1>4, <1>5, <1>6, <1>7
<1>9. Pending(u)' = q2
  BY DEF Pending, RewardDebt, n, d, A
<1>10. Percentage(u)' = pct
  BY DEF Percentage, ExtraPercentage, pct
<1> HIDE DEF q2
<1> DEFINE x == (q * pct) \div FULL_100
           x2 == (q2 * pct) \div FULL_100
<1>11. x \in Nat /\ x2 \in Nat /\ x <= x2
  <2>1. pct * q <= pct * q2
    BY <1>5, <1>8, TimesMonotone
  <2>2. /\ pct * q = q * pct /\ pct * q2 = q2 * pct
        /\ q * pct \in Nat /\ q2 * pct \in Nat
    BY <1>5, <1>8, MulNat
  <2>3. q * pct <= q2 * pct
    BY <2>1, <2>2
  <2>4. QED
    BY <2>2, <2>3, DivMonotone, DivNat, StakingAssumption DEF FULL_100
<1>12. /\ Shown(u) = (user[u].reward_amount + q) + (user[u].extra_reward + x)
       /\ Shown(u)' = (user[u].reward_amount + q2) + (user[u].extra_reward + x2)
  BY <1>9, <1>10 DEF Shown, Extra, q, pct
<1> HIDE DEF x, x2
<1>13. QED
  BY <1>2, <1>5, <1>8, <1>11, <1>12

LEMMA ShownSettled ==
  ASSUME CInv, CInv', NEW u \in Users, Estimable(u), Estimable(u)', Settles(u),
         KeepsReward(u, Percentage(u))
  PROVE  Shown(u)' = Shown(u)
<1>1. SInv /\ IInv /\ TypeOK'
  BY DEF CInv, SInv, IInv
<1>2. Pending(u)' = 0
  BY <1>1, NothingPending
<1>3. Percentage(u)' \in Nat
  <2>1. EstimatesShown'
    BY EstimateShown, PTL
  <2>2. QED
    BY <2>1 DEF EstimatesShown
<1>4. Extra(u, Percentage(u))' = 0
  <2> DEFINE pct == Percentage(u)'
  <2>1. pct \in Nat
    BY <1>3
  <2> HIDE DEF pct
  <2>2. (0 * pct) \div FULL_100 = 0
    <3>1. 0 * pct = 0
      BY <2>1
    <3>2. 0 \div FULL_100 = 0
      BY StakingAssumption DEF FULL_100
    <3>3. QED
      BY <3>1, <3>2
  <2>3. QED
    BY <1>2, <2>2 DEF Extra, pct
<1>5. /\ user'[u].reward_amount = user[u].reward_amount + Pending(u)
      /\ user'[u].extra_reward = user[u].extra_reward + Extra(u, Percentage(u))
      /\ user'[u].reward_amount \in Nat /\ user'[u].extra_reward \in Nat
  BY <1>1 DEF KeepsReward, TypeOK, FarmPoolUserAccount
<1>6. Shown(u)' = (user'[u].reward_amount + 0) + (user'[u].extra_reward + 0)
  BY <1>2, <1>4 DEF Shown
<1>7. QED
  BY <1>5, <1>6 DEF Shown

LEMMA EstimateStep ==
  ASSUME CInv, CInv', [Next]_vars, UNCHANGED <<state, configs>>,
         NEW u \in Users, Estimable(u), Estimable(u)', ~Harvest(u),
         \A amount \in 0 .. user[u].amount : ~UnStake(u, amount)
  PROVE  EstimateRewards(u)' >= EstimateRewards(u)
<1>1. SInv /\ IInv /\ SInv' /\ IInv' /\ TypeOK'
  BY DEF CInv, SInv, IInv
<1>2. Shown(u)' = Shown(u) \/ Shown(u) <= Shown(u)'
  <2>1. ASSUME NEW w \in Users, SettlingStep(w)
        PROVE  Shown(u)' = Shown(u)
    <3>1. Settles(w)
      BY <2>1 DEF SettlingStep
    <3>2. CASE w = u
      BY <2>1, <3>1, <3>2, ShownSettled DEF SettlingStep, Percentage
    <3>3. CASE w # u
      BY <1>1, <3>1, <3>3, AccAfterUpdate, ShownSame DEF Settles
    <3>4. QED
      BY <3>2, <3>3
  <2>2. ASSUME NEW w \in Users, Opens(w)
        PROVE  Shown(u)' = Shown(u)
    <3>1. w # u
      BY <2>2 DEF Opens, Estimable
    <3>2. AccNow' = AccNow
      BY <1>1, <2>2, AccKept DEF Opens
    <3>3. QED
      BY <2>2, <3>1, <3>2, ShownSame DEF Opens
  <2>3. ~Resets
    BY DEF Resets, Estimable
  <2>4. ASSUME Keeps, now' = now
        PROVE  Shown(u)' = Shown(u)
    <3>1. AccNow' = AccNow
      BY <1>1, <2>4, AccKept DEF Keeps
    <3>2. QED
      BY <2>4, <3>1, ShownSame DEF Keeps
  <2>5. ASSUME Keeps, now' = now + 1, UNCHANGED <<state, pool>>
        PROVE  Shown(u) <= Shown(u)'
    BY <1>1, <2>5, ShownTicks DEF Keeps
  <2>6. QED
    BY <1>1, <2>1, <2>2, <2>3, <2>4, <2>5, StepShapes DEF Keeps
<1>3. EstimateRewards(u) = Shown(u) /\ Shown(u) \in Nat
  BY EstimateShown DEF EstimatesShown
<1> DEFINE e == Shown(u)'
<1>4. EstimateRewards(u)' = e /\ e \in Nat
  <2>1. EstimatesShown'
    BY EstimateShown, PTL
  <2>2. QED
    BY <2>1 DEF EstimatesShown
<1>5. e >= Shown(u)
  <2>1. e = Shown(u) \/ Shown(u) <= e
    BY <1>2
  <2> HIDE DEF e
  <2>2. QED
    BY <1>3, <1>4, <2>1
<1>6. QED
  BY <1>3, <1>4, <1>5

(* What the client showed once stays due: only the account's own harvest   *)
(* or withdrawal, or a change of the configuration, lowers the estimate.   *)
THEOREM EstimateKept == Spec => EstimateNeverFalls
<1>1. CInv /\ CInv' /\ [Next]_vars =>
        [UNCHANGED <<state, configs>> =>
           \A u \in Users :
             /\ Estimable(u) /\ Estimable(u)'
             /\ ~Harvest(u)
             /\ \A amount \in 0 .. user[u].amount : ~UnStake(u, amount)
             => EstimateRewards(u)' >= EstimateRewards(u)]_vars
  BY EstimateStep
<1>2. QED
  BY <1>1, ClientInvariant, PTL DEF Spec, EstimateNeverFalls
=============================================================================
