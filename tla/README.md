# Verification of the UNLOC programs

TLA+ models of the on-chain programs of this repository (`programs/`) and of the
TypeScript code that drives them (`client/src/`), TLC configurations that check them on small instances, and proofs checked by TLAPS.
`PROJECT.json` maps every definition to the lines it models and lists the runs,
the faulty variants that each property rejects, the findings, the hazards and the
theorems.

## 1. Inventory

UNLOC lends against NFTs. Four Anchor programs run on Solana. A transaction is
atomic (all writes of a handler or none) and the runtime serialises transactions
that share a writable account, so *interleaving* here means: in which order do the
transactions of independent signers land, and how much time passes between them.
Nothing is lost inside the system. Between the client and the chain things are:
a client reads its accounts one by one, derives the accounts of a transaction from
what it read, and what it sends may land late, fail or expire without its caller
being told.

| part | state | operations | interacts with |
|---|---|---|---|
| **loan**: listings and sub-offers | `Offer`, `SubOffer` accounts, the NFT's token account (delegate, frozen) | create/delete offer, create/update/delete sub-offer | spl-token and Metaplex (approve, freeze, thaw, revoke); reads the *staking* profile level for the quota of sub-offers |
| **loan**: acceptance, repayment, claims | the same, lender, start time | accept_offer, repay_loan, claim_collateral, claim_expired_collateral | token transfers; every one of them first distributes rewards; accept reads *voting* scores |
| **loan**: global state | owner, rates, grace period | create/update_global_state, set_voting, set_staking_pool, set_redeem_reset | read by all |
| **loan**: rewards | reward per share, funded and distributed amounts, reward debts | deposit, withdraw, claim_borrower/lender_rewards | price feeds; claims stake into the *staking* program by CPI |
| **staking** | `StateAccount`, `FarmPoolAccount`, `FarmPoolUserAccount`, tiers, four kinds of vault | create_user, stake, unstake, harvest; pool, rate, point, fee, level, tier and funding administration | token transfers; its score and level are read by *loan* and *voting* |
| **voting** | `GlobalState`, `Voting`, `VotingItem`, `VotingUser` | set_voting, set/del_voting_item, vote, update_global_state | reads the staking score; scores are read by *loan* |
| **buyback-burn** | `GlobalState` (burner, pool, market, Serum program), three vaults | create/update_global_state, buyback, burn; a backend job calls the last two regularly | Raydium swap, spl-token burn |
| **TypeScript client** | what a call has read; transactions on the wire | one function per instruction, `estimateRewards`, queries | RPC reads and transactions; the programs check the accounts it names |
| generated SDKs, vendored SDKs, tests, scripts | none of the protocol's | | |

What is hard, and what makes each part correct:

* **Loan.** Several signers act on the same listing, deadlines pass in between,
  and accounts outlive the account they belong to: `delete_offer` closes the
  listing and leaves its sub-offers, and listing the NFT again recreates the *same*
  address. Correct means: the NFT is frozen exactly as long as it is pledged and
  never stranded; a running loan keeps its terms and is closed only together with
  its collateral; a lender takes collateral only past the deadline of a loan they gave; a
  borrower who pays gets it back.
* **Staking.** A shared accumulator, settled lazily and rounded at each step,
  with accounts that survive the pool they belong to. Correct means: stakes are
  backed one to one, never lost to a failing checked operation, nobody's
  transaction changes what another is owed, rewards do not exceed what was
  emitted, locks do not shorten, levels need a stake.
* **Voting.** Totals kept by hand over accounts that are created, deleted and
  created again while voters' accounts stay for ever. Correct means: dense
  numbers, totals equal to the sum of items, each vote counted at most once.

* **Rewards.** Every handler of a loan first distributes rewards and fails if the
  reward accounts do not add up, or a product overflows, so a wrong order of deposits and
  claims or a setting could stop repayments. Correct means: the accounts always add up,
  what can stop a repayment is known and has a way out, claims follow the calendar.
* **Money.** Rounded shares of interest at rates that may change while a loan runs.
  Correct means: lender, borrower and treasury get what was agreed to within the
  rounding, and nothing is gained by waiting.
* **Client and job.** What was read is old when it is used. Correct means: a
  transaction built from an old read either does what its sender saw or fails, and
  calling again helps.

The full list of hazards, each at its line, is in `PROJECT.json`.

## 2. Modules

| module | models | proofs |
|---|---|---|
| `Loan` | programs/unloc-loan: listings, sub-offers, loans, collateral | `LoanProofs` |
| `Escrow` | abstract specification: an NFT has one holder and at most one pledge | |
| `MCLoan` | `Loan` with the fairness its liveness property assumes | |
| `Staking` | programs/unloc-staking | `StakingProofs`, `StakingRewardsProofs` |
| `StakingClient` | `estimateRewards` of client/src/staking over `Staking` | `StakingRewardsProofs` |
| `MCStaking` | values for the constants of `StakingClient` | |
| `Emission` | `Staking` with a history of its reward stream | `StakingRewardsProofs` |
| `MCEmission` | `Emission` with the values of `MCStaking` | |
| `Voting` | programs/unloc-voting | `VotingProofs` |
| `LoanClient`, `MCLoanClient` | client/src/loan over `Loan`: reads, transactions on the wire | `LoanProofs` |
| `Rewards`, `MCRewards` | programs/unloc-loan: funding, distribution and claims of rewards | `RewardsProofs` |
| `Redemption` | the calendar of the claims (utils.rs) | `RewardsProofs` |
| `Settlement`, `MCSettlement` | programs/unloc-loan: the money of a loan | `SettlementProofs` |
| `Buyback`, `MCBuyback` | programs/unloc-burn and the job of client/src/buyback-burn | `BuybackProofs` |
| `Sums` | lemmas: what a sum over a finite set is | itself |

The loan program is split by what its handlers' parts read: a repayment is
`RepayLoan` in `Loan` (who may, and where the NFT goes), in `Settlement` (what it
costs) and in `Rewards` (the distribution it starts with). Each module keeps its
part of every handler whole, with all of that part's guards.

Conventions. Variables and record fields have the names of the accounts and
fields. A handler is one action; `require`, an account constraint, a failing
checked operation and a failing CPI are guards. An account that does not exist is
a record such as `NoSubOffer`. Operators named after a handler with a suffix
(`DeleteOfferWithoutThaw`) are faulty variants that no action uses; each shows
that a property tells the code from a plausible mistake.

### Loan

`offer` is keyed by (borrower, NFT) and `sub_offer` by listing and number, as the
program derives the addresses. That key is the point of the model: a sub-offer
belongs to an *address*, and a listing that is created again adopts those left
behind. `nft` is the token account that holds each NFT; `LockedVault(b)` is one
frozen with the listing of `b` as delegate. Freezing, thawing and transferring
follow what spl-token and Metaplex allow, as `src/` uses them: a frozen account
can neither send nor approve, and thawing needs the delegate. One `Terms` value stands for
currency, amount and APR. `WalletTransfer` is the holder moving the NFT outside
the program and `Tick` the clock.

Left out here: the amounts paid, with the guard that the payer has the money
(`Settlement`), and the reward distribution that accept, repay and claim_collateral
begin with (`Rewards`). Results about what *can* happen (`LoanEnds`) hold for a
borrower who has the money and as long as the distribution succeeds:
`RepaymentBlockedOnlyByStrayOrRate` says when it does. `unloc-loan` has states (Expired, Fulfilled,
Canceled, LoanPaymentClaimed) that no handler writes; they are not in the model.

Who may take collateral is stated for lender and owner apart, because the code treats
them apart. A lender is recorded by an acceptance, so `LendersWaitForDeadline` can ask for a
loan that did start. The owner's instruction asks for no state and no lender: any sub-offer
of the listing will do, and one never accepted has the start time 0. What README promises
of the owner, `OwnerTakesOnlyExpiredLoans`, is therefore a finding.

### Escrow

What the owner of an NFT is promised: it may be pledged by its holder, stays where
it is while pledged, and the pledge ends by release or forfeit. `Loan` implements
it with `holder <- nft[n].holder` and the pledger read from the `Offer` accounts, so
that the refinement relates the listings to the token accounts: a listing that
stayed open after the NFT had gone, or one that closed with the NFT gone to
nobody's knowledge, would be a step the escrow does not have.

### Staking

One pool, since `create_pool` accepts one mint and derives the pool's address from it.
`user` holds the stake accounts, keyed by authority and seed. `RewardPerShare`,
`Settled`, `RewardDebt`, `Scored` are the methods of the account structs with
their integer divisions. `ACC_PRECISION` (10^11) and `U32_RANGE` (2^32) are
constants, because TLC needs small values for the divisions to round; the proofs
hold for every value. `CanUnStake` and, in `Rewards`, `CanRepay` name all that the
handler requires, so that a property can say that it succeeds. `update` in `change_tokens_per_second`, `create_pool`,
`close_pool` and `change_pool_point` runs over *copies* of the pools passed as
remaining accounts and is never stored; the actions therefore leave the pool's
accumulator alone. `ReadableAsLevels` is the decoding of the instruction data of
`change_early_unlock_fee` (see Findings).

Left out: `change_fee_vault`, events, integer width (all arithmetic on amounts is
checked and fails rather than wraps, but the failure at 2^64 or 2^128 is not a
guard), accounts of the right owner but the wrong mint.

### StakingClient

`estimateRewards` repeats the arithmetic of `calculate_reward_amount` and
`get_extra_reward_percentage` over accounts its caller has fetched. It searches the
tier by equality where the program takes the last one not longer than the lock, and
it does not know points; `Estimable` says when that makes no difference. The
model's clock is the one second for which both compute.

### LoanClient

A call is a record in `call`: the accounts still to be fetched, in the order of the
awaits, and what was read of each. `Fetch` reads one; `Send` puts the transaction on the
`wire` with the accounts derived from that `view`; `Land` executes the instruction of
`Loan` if the account constraints hold *now*, and `Lose` is expiry or failure. Since every
function catches what `rpc()` throws, a wallet whose transaction is still on the
wire is free to call again. `Tries` bounds a wallet's transactions on the wire.
`acceptLoanOfferByVoting` reads the same accounts as `acceptLoanOffer`; the
voting accounts it adds only weigh rewards.

`wsol_vaults` is the one thing the client names that may not exist. For a loan in SOL it
passes the treasury's WSOL vault where the program loads the lender's and the borrower's token
accounts (`OfferVaultsExist`, in acceptance, repayment and claim), and an instruction creates
that vault only *after* loading them. So the client alone never creates one;
`OpenTreasuryVault` is somebody else's repayment or claim that names token accounts of its
own. In other currencies wallets are taken to hold their token accounts (the client creates
missing ones in the same transaction, or asks its user to). `distribute` is taken to
succeed here; when it does is in `Rewards`.

### Rewards and Redemption

`Distributable` and `Distributed` are `distribute_rewards`; every action that calls it
takes any answers of the price feeds. `repay_loan` and `claim_collateral` declare
`global_state` without `mut`: what they distribute reaches the sub-offer and is lost to the
global state, also the time of the distribution. Of the integer widths, `RateFits` keeps the
one a setting can exceed, the product of `reward_rate` and the time since the last recorded
distribution (`MaxU64`); the other products have a factor that stays 0 (`tvl_sol`,
`tvl_usdc`, the reward per share), and sums of UNLOC stay below its supply. Time is in hours, since `validate_redeem_time`
compares nothing finer. `Redemption` has the calendar as closed formulas where the
code subtracts years and months in a loop. The stake of a claim is the counter
`staked`: on the staking side it is the `Stake` action of `Staking`. Sub-offers exist
throughout (creating one starts with `NewSubOffer`, and a deleted one has no rewards).

### Settlement

Amounts are natural numbers, and `Fits` (at most `MaxU64`) guards every checked
operation. `calc_fee` computes in u128, which products of two u64 cannot leave; its
conversion back to u64 is in `OverYearFits`. `SecondsForYear` is a
constant so that small numbers round. The lender and the borrower are one each;
`OutsidePayment` lets the borrower spend the loan or bring money in.

### Buyback

The program's `buyback` sells all of a vault for whatever it brings (minimum 0). What
the external pool asks is read off the accounts the program passes on: its own
market, of the Serum program that market belongs to, and a vault of the token it trades.
What it pays is any amount. The job reads pool and market from the configuration but names
one Serum program, the default of its argument; the program compares all three with the
configuration (`JobMaySwap`). The job's run is two steps, `BuybackFetch` and `BuybackSend`, and a
refused swap is given up until the next run.

### Voting

Votings by number, items by (voting, key), voters by (voting, wallet). A voter's
score is any member of `Scores`: the staking account is read at that moment. The
clock is in the model only to state what the voting window should mean; no action
reads it, because no handler does. `total_score` is added to without a check in
`vote`, but a u128 sum of scores cannot overflow with the tokens there are.

## 3. Runs

All passing runs finish within about three minutes with two workers.

| run | bounds | what it shows |
|---|---|---|
| `loan` | 1 borrower, 2 lenders, one of whom can become owner, 1 NFT, 2 terms, 2 durations (0 and 1), 2 grace periods, 2 profile levels, 2 sub-offers, 4 instants | type; a listing on loan has its loan; terms fixed; loans close with their collateral; lenders wait for the deadline of a loan they gave |
| `loan_custody` | 2 borrowers, one also a lender, 1 NFT that they pass on, 1 sub-offer each, 3 instants | custody, no stranded NFT, refinement of `Escrow`, `LoanEnds` |
| `loan_unpaid` | as `loan_custody` | finding 1 |
| `loan_owner` | 1 borrower, 1 lender, 1 owner, 1 sub-offer, 3 instants | finding 6 |
| `loan_client` | 1 borrower, 1 lender who is also the owner, 2 currencies, 1 sub-offer number, one transaction on the wire for each wallet | a lender lends in the currency read |
| `loan_client_repay` | the same with SOL only, 2 treasury wallets with and without a vault, 1 instant | a repayment gets through |
| `staking` | 1 staker with 2 tokens; points 0 and 1, two rates, three fees, two level tables, two tier tables, all changing; 3 instants | type, points, withdrawal, levels, locks, estimate = harvest |
| `staking_emission` | 2 stakers with 2 and 1 tokens, rate 3, precision 2 and one tier with an extra reward, so that the divisions leave remainders | rewards bounded by emission, backing, debts, what is owed, estimates stay due |
| `voting` | 2 votings, 2 collections, 2 voters, scores 0..2, 2 owners | type, dense numbers, counts, totals, scores |
| `rewards` | 1 loan in SOL, 11 instants around reset hours, month ends, a year end and 29 February, 3 reset hours (0, 5, 24), 2 prices, 2 reward rates of which one overflows over the longer gaps, deposits up to 2, 1 stray token | type, the reward accounts, what blocks a repayment, claims follow the reset |
| `settlement` | 1 loan, 3 terms, 4 sets of rates (among them a zero denominator and a share above 100%), a year of 3 instants, amounts up to 100 | type, waiting, shares, rounding, overflow |
| `buyback` | 1 pool for each currency, 2 markets, 2 Serum programs, 2 wallets, amounts 1 and 2, vaults up to 2, pools up to 3 | type, the pool sold in, both liveness properties |

Configurations beside the listed runs show the remaining findings, each with one
property that TLC refutes: `LoanQuota.cfg` (module `MCLoan`), `StakingPenalty.cfg` and
`StakingFee.cfg` (`MCStaking`), `VotingPeriod.cfg` (`Voting`), `RewardsUnpaid.cfg`
(`MCRewards`), `ClaimFee.cfg` (`MCSettlement`), `LoanClientTreasury.cfg`
(`MCLoanClient`) and `WsolKept.cfg` (`MCBuyback`).

Why these bounds: every property speaks of at most one listing, one NFT and two
actors at a time, except the sums, for which two users or items show whether a
part is counted twice or dropped. Two sub-offers per listing let an accepted one
and another coexist; two borrowers of one NFT let a closed listing's account meet
a later pledge of the same NFT; the clock covers before, at and after a deadline
and its grace period. One transaction on the wire per wallet is enough for a read
to grow stale, because the other wallets act in between; one sub-offer number is
what lets a deleted sub-offer come back in another currency under the same
address. `loan_client_repay` has SOL only because that is the harder currency: a loan in
another goes through the same steps as a SOL loan whose vaults are all open, which the run
reaches; both together would only multiply the states. In `rewards` the instants are chosen in pairs on either side of a reset. In staking, two tokens allow a partial withdrawal and three
instants let a lock of two seconds begin, hold and end. Named bounds that the
code does not have: `MaxTime`, `MaxSubOffers`, `MaxVotings`, `Scores`, `Tries`, `MaxFunded`,
`MaxStray`, `MaxRepaid`, `MaxVault`, `MaxReserve`, and the wallets.

Deadlock is checked for all but the staking and voting runs: an NFT can always be
moved or released, a setting changed. Staking and voting may really stop in a bounded model (the clock at its bound,
every vote cast), so their runs say so.

**Fairness.** Nothing in the programs runs by itself, so `Spec` has no fairness.
`LoanEnds` assumes `PayingBorrowers`: a borrower who is *continuously* able to
repay eventually does. It is weak fairness of `RepayLoan` for each listing, an
assumption about people, and what the run shows is that nobody else's
transaction can keep a willing borrower from ending the loan.

`RepaymentGetsThrough` makes the same claim of the client. `PersistentBorrower`: the
borrower calls `repayLoan` again and again while the loan is open, calls that were
started go on, what is sent lands or expires, and a network asked again and again to
land a repayment that would succeed lands one (strong fairness, because stale
transactions come in between). It has two conditions, and both are needed. The treasury
wallet is not changed for ever, because `repay_loan` refuses a wallet that was read before
a change (`TreasuryStays`). And for a SOL loan the treasury it stays at has a WSOL vault
(`OfferVaultsOpen`), because the client names it and cannot create it; without that
condition the property is `RepaymentSurvivesTreasuryChange`, which fails (finding 9).

`JobFairness` is "backend api will call this function regularly" (main.ts:129, 147).
`UsdcBoughtBack` asks that from some time on the configuration is left alone and is one the
job can use: pool, market and the Serum program it names belong together; `UnlocBurned` only that the job remains the burner.

`EmissionBound` has a dust term, one token for each account and each second in
which rewards accrued: `reward_debt` is rounded *down* when an amount changes, so
an account can gain the fraction it was rounded by. The bound without the term is
false for the code, and the term is the rounding, no more. Extra rewards for locks
are paid from the funded vault in addition and are outside the bound. It is a claim about
one emission rate: `update` is not stored before `change_tokens_per_second` changes
the rate, so the seconds since the last update are paid at the new one.

## 4. Findings

1. `loan_unpaid`: `claim_collateral` checks no state. A lender whose loan was
   repaid keeps a sub-offer account with lender and start time; when the borrower
   closes the listing and lists the NFT again, that lender can take it. README:
   the lender can claim "if the loan is not repaid". `LendersWaitForDeadline`
   is what does hold.
2. `LoanQuota.cfg`: `delete_sub_offer` computes the new `deleted_sub_offer_count`
   and drops it, so a deleted sub-offer never frees a place of the quota.
3. `StakingPenalty.cfg`: withdrawing part of an *expired* stake restarts the lock of
   the rest for its whole duration, and the early unlock fee is due again.
4. `StakingFee.cfg`: `change_early_unlock_fee` shares the accounts struct of
   `change_profile_levels`, which decodes a vector from the instruction data; only
   fees whose low 32 bits are zero get through.
5. `VotingPeriod.cfg`: votes are accepted before the start and after the end.
6. `loan_owner`: `claim_expired_collateral` checks no state either, and no lender. By a
   sub-offer that was never accepted, whose start time is 0, the owner can take the NFT of a
   listing nobody has lent on, and of a running loan before its deadline. README lets the
   platform act when the deadline has passed and the lender does not claim.
7. `ClaimFee.cfg`: the fee for claiming the collateral is the *product* of the two fees
   that a repayment adds. In lamports it soon exceeds what a lender has, or u64, and
   then the claim fails.
8. `RewardsUnpaid.cfg`: the values locked that weigh the rewards are zero for ever,
   so no claim ever pays anything. The theorem `RewardsAreNeverPaid` says so for all
   instances. It also hides a second mistake: the check in `distribute_rewards`
   compares with the vault what is not distributed, while distributed rewards stay in
   the vault until they are claimed. If rewards were distributed, the check would fail.
9. `LoanClientTreasury.cfg`: for SOL `repayLoan` names the treasury's WSOL vault as lender's and
   borrower's token account, and `repay_loan` loads those before it creates the vault. After
   a change to a treasury without that vault no borrower's `repayLoan` gets through, until
   somebody repays or claims naming other accounts.
10. `WsolKept.cfg`: the job names the USDC vault always, so SOL collected is not sold.

Remarks without a run. README speaks of half the tokens being *converted to a
flexible account* on an early unlock, while the code pays them out. A token sent to
the reward vault by a plain transfer stops every handler that distributes, for ever
(`stray` in `Rewards`). So does a reward rate whose product with the time since the last
recorded distribution exceeds u64, until the owner lowers it: repayments and claims of
collateral do not record theirs, so that time can be long. The stake
of a reward claim belongs to the global state, and no handler can withdraw it. In the
client, `closeStakingPool` (staking/index.ts:336) sends a transaction without an
instruction, `getLoanSubOfferMultiple` (loan/index.ts:170) throws, and
`getLoanOffersBy` (loan/index.ts:75) ignores the state Proposed, which is 0.

## 5. Proofs

`tlapm` proves every theorem, for all values of the constants within the
assumptions `LoanAssumption`, `ClientAssumption`, `StakingAssumption`,
`VotingAssumption`, `RewardsAssumption`, `SettlementAssumption` and
`BuybackAssumption`. None of them bounds the number of wallets, NFTs, sub-offers or
users. Every safety and action property of a passing run is the conclusion of a theorem.
Three theorems have a hypothesis of their own, each named below with its reason:
`LevelNeedsStake`, `WithdrawalAlwaysPossible` and `EmissionBounded`; a fourth,
`RedemptionAtReset`, wants reset hours that are hours.

**Sums.** The library states induction over finite sets with an operator parameter,
which the installed provers cannot instantiate. `SubsetInduction` says the same of a
*set* of subsets, by a counterexample of least cardinality. From it follow the
lemmas that the other proofs cite: a sum is determined by its terms, grows with them,
is at least each of them, and changes by one term when one term changes.

**LoanProofs.** `IInv == TypeOK /\ Custody /\ FrozenForItsHolder /\ OnLoanHasLender /\
LendersHaveStarted` is inductive. `Custody` alone is not: that a claim leaves *other* borrowers'
listings alone needs that the frozen account belongs to the listing's own
borrower, which is `FrozenForItsHolder` with the first half of `Custody`. `LendersHaveStarted` (a sub-offer
with a lender has a start time between the model's first instant and now) is what keeps
the deadline in `LendersWait` from being that of a sub-offer never accepted; it holds
across re-listings because a lender and a start are written together and erased together. It is enough
for the three action properties and for `ImplementsEscrow`: with `Custody`, the
borrower whose listing is live is unique, so the `CHOOSE` in the refinement
mapping has one candidate, and each action is a pledge, release, forfeit, move or stutter.

The second half is about the client. `ClientImplementsLoan` proves that the client and
the network add no behaviour: `Fetch`, `Send` and `Lose` stutter, and whatever lands is
an action of `Loan`, although what it was built from may be long out of date. So the
theorems about `Loan` carry over; `ClientKeepsCustody` is the example. It needs
`CIInv == ClientTypeOK /\ CallsWellFormed /\ WireWellFormed`: an update on the wire
carries a currency that was *read*, since `updateLoanSubOffer` fetches before it
sends. `LentAsRead` then follows from the constraints on the accounts: the currency
decides which accounts a lender's transaction names, and those of another fail.
`ClientAssumption` says that terms exist in each currency and that a wallet may have
level 0 (a client that passes no staking account).

**StakingProofs.** `IInv == TypeOK /\ PointsAgree /\ ClosedGivesNothing /\ StakedInPast`.
`ClosedGivesNothing` (a pool that is not open is `NoPool`) carries `PointsAgree`
across closing and creating; `StakedInPast` (no stake time after now) is why a
new stake or a partial withdrawal, which restart the lock at now, never move the
unlock time back. Type correctness includes that every subtraction stays in Nat,
which rests on the guards. `LevelNeedsStake` assumes positive thresholds: a
table with a threshold 0 gives level 1 to an empty account, as the code does. The lemma `GreatestIndex` gives
the `CHOOSE` of the last tier its meaning by well-founded induction on Nat.

**StakingRewardsProofs.** `SInv` adds to that `StakesBacked` and four facts:
`DebtsBelow` (a debt is at most the share at the accumulator of the last *update*,
which `DebtCovered`, at the accumulator of now, does not say, and which is what
survives a rate that is lowered afterwards), `ClosedIsEmpty`, `UnopenedIsEmpty`
and `UpdatedInPast`. `ClosedIsEmpty` with `StakesBacked` is why no stake
outlives the pool it earned in, so that a new pool's accumulator may start at 0.
`WithdrawalAlwaysPossible` then has only the fee to bound, hence its hypothesis
that fees are at most 100 percent; the program takes any.

`OwedNotTouched` and `EstimateKept` compare a step's two sides of the same account.
Rounding is monotone in the accumulator, so nothing but the account's own
transactions and the clock matters. `EstimateHarvested` needs that the tiers are sorted
(`CInv`), since the client searches by equality and the program takes the last
that fits.

`EmissionBounded` is the longest argument. `HInv` counts in units of 1/`ACC_PRECISION`
of a token: what was paid, what each stake has accrued beyond its debt without rounding
(`Keeping`) and what the next update will share out (`Released`) are at most what
was emitted plus, for each account and second, less than one token, plus `Credit`, the
fractions which accounts may gain in the second of the last update. A change of
amount moves a fraction between `Keeping` and `Credit`; the clock turns the credit
into the next second's dust. Its hypothesis `OneRate` is the
bound's own condition (section 3): with two rates the statement is false.

**VotingProofs.** `NumbersDense` is inductive with the type. `ItemsCounted` needs
`NoOrphans` (no items before their voting exists) and that the set of keys is
finite, which a 32-byte key gives. `TotalsAlwaysAgree` and `ScoresComeFromVotes` are
inductive with these: each action changes at most one term of one sum, the voter's
or the item's, by what it changes the total. `DeletionAlwaysSucceeds` is their use:
the checked subtraction and the decrement in `del_voting_item` never fail.

**RewardsProofs.** `IInv == TypeOK /\ NothingDistributed /\ VaultHoldsRemainder /\
DistributedInPast`. `NothingDistributed` (values locked, reward per share and debts are
zero) is what makes `VaultHoldsRemainder` inductive: in a claim the reward is then 0.
`RewardsAreNeverPaid` is its consequence. `DistributeSucceeds` says that
`distribute_rewards` fails exactly if stray tokens came in or the rate does not fit,
`RepaymentBlocked` that a running loan can be repaid otherwise, and `LowerRateUnblocks` that
the owner can undo the second in one step.

`RedemptionAtReset` is about the calendar, at every hour since 1970. The lemmas show that
the year and the month which `convert_unix_to_utc` counts down to exist and are
unique (the year by the least number whose first day lies beyond), that counting the days of
the result gives back the day (`Converted`), and how many days apart two
dates are (`DaysApart`). With those, each branch of `validate_redeem_time` (another
year, another month, another day, the same day) amounts to a reset between the two instants
(`ResetByDays`, `RedeemTime`). `ClaimedInPast` orders the instants. Its hypothesis is
that reset hours are at most 24, which `set_redeem_reset` does not check.

**SettlementProofs.** Most of the work is arithmetic about `\div`: monotonicity for
`WaitingCosts`, and two-sided bounds on nested divisions for `RepaymentAsAgreed`, stated
as lemmas. The invariant is small: `TypeOK` and that no loan started in the future.

**BuybackProofs.** `TypeOK` is inductive. A swap changes one vault of a source and one pool
(`BuybackStep`), and the constraints on the accounts make that the configured one, whatever
the job had read (`SoldWhereConfigured`). `UsableConfigurationServes` is the step that
`UsdcBoughtBack` needs: no constraint refuses a job that read the present configuration.

Model-checked only:

* `LoanEnds`, `RepaymentGetsThrough`, `UsdcBoughtBack`, `UnlocBurned`: liveness under
  fairness. Their safety parts are proved: `CustodyHolds`, `RepaymentBlocked`,
  `ClientImplementsLoan`, `UsableConfigurationServes`.
* `FeeCanBeChanged` (ENABLED) and the other violations, each of which is one behaviour.

## 6. Plan

Done: `Loan` with `Escrow`, `Staking`, `Voting`, `LoanClient`, `Rewards` with
`Redemption`, `Settlement`, `StakingClient`, `Emission`, `Buyback`, and a theorem for each of their
safety and action properties.

Left:

1. `EmissionBound` across changes of the rate: what the program does emit then is
   the new rate times the seconds since the last update, so the history has to count
   updates instead of the clock.
2. The theorems of `Settlement` and `Rewards` over the client, as `ClientImplementsLoan`
   is for `Loan`.
3. What the two halves of a repayment (`RepayLoan` in `Loan` and in `Rewards`) share: that a
   loan is "Accepted" in the one exactly when it is in the other.

## 7. Not modelled

* **Composition of the programs.** A level of `Staking` and points of `Voting` enter
  `Loan` and `Rewards` as any member of a set. They are read once and stored or
  compared, so the composed system has no behaviour beyond that.
* **The rest of the client.** The functions of the voting client and most of the
  staking and reward functions derive addresses and send one instruction: what can be
  sent is what the programs' actions range over. Queries, token accounts (but for the WSOL vaults), images
  and metadata keep no protocol state.
* **Generated code.** `client/src/types` and `solita` are the programs' interfaces in
  other notations, with codecs; most of the repository's TypeScript is of this kind
  or vendored, and it contains no decision of the system to state a property of.
* **Vendored SDKs,** the bindings under
  `programs/unloc-burn/libs`, tests, and scripts.
* **Events, logging, rent, account sizes,** and accounts of the right owner but the
  wrong mint.
