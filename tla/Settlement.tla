----------------------------- MODULE Settlement -----------------------------
(***************************************************************************)
(* The money of a loan in programs/unloc-loan: what acceptance, repayment  *)
(* and the claim of the collateral move between borrower, lender and       *)
(* treasury, while the administrator may change the rates.                 *)
(*                                                                         *)
(* Amounts are u64 and every operation on them is checked: a transaction   *)
(* whose arithmetic leaves 0 .. MaxU64 fails.  SOL and USDC loans move     *)
(* their money by different calls, but the same amounts under the same     *)
(* conditions, so one kind of money stands for both.  Of a loan only the   *)
(* fields its amounts depend on matter here: the rest is in Loan.          *)
(***************************************************************************)
EXTENDS Integers

CONSTANTS
  SubOffers,                   \* the loans of one borrower and one lender
  Terms,                       \* records [amount, apr, duration] of sub-offers
  Rates,                       \* records of the rates of GlobalState
  SecondsForYear, MaxU64,
  InitialBalance,              \* money of borrower and lender at the start
  OutsideBalances,             \* what a borrower may hold after other payments
  MaxRepaid,                   \* bound on what was repaid before a new loan
  MaxTime                      \* bound on the clock

RateFields == [accrued_interest_numerator : Nat, apr_numerator : Nat,
               min_repaid_numerator : Nat, denominator : Nat]

ASSUME SettlementAssumption ==
  /\ Terms \subseteq [amount : Nat, apr : Nat, duration : Nat]
  /\ Rates \subseteq RateFields
  /\ SecondsForYear \in Nat \ {0} /\ MaxU64 \in Nat
  /\ InitialBalance \in Nat /\ OutsideBalances \subseteq Nat /\ MaxRepaid \in Nat
  /\ MaxTime \in Nat

VARIABLES
  now,                         \* Clock.unix_timestamp
  global_state,                \* the rates
  sub_offer,                   \* the money fields of each SubOffer
  balance                      \* lamports, or tokens of the offer's mint

vars == <<now, global_state, sub_offer, balance>>

Parties == {"borrower", "lender", "treasury"}

SubOfferAccount ==
  [state : {"Proposed", "Accepted", "NFTClaimed"}, terms : Terms,
   loan_started_time : Nat, loan_ended_time : Nat, repaid_amount : Nat]

TypeOK ==
  /\ now \in 0 .. MaxTime
  /\ global_state \in Rates
  /\ sub_offer \in [SubOffers -> SubOfferAccount]
  /\ balance \in [Parties -> Nat]

Init ==
  /\ now = 0
  /\ global_state \in Rates
  /\ sub_offer \in [SubOffers ->
       {[state |-> "Proposed", terms |-> t, loan_started_time |-> 0,
         loan_ended_time |-> 0, repaid_amount |-> 0] : t \in Terms}]
  /\ balance = [p \in Parties |-> IF p = "treasury" THEN 0 ELSE InitialBalance]

-----------------------------------------------------------------------------
(* The amounts.                                                            *)

Fits(n) == n <= MaxU64

CalcFee(total, fee_percent, denominator) == (total * fee_percent) \div denominator

(* A share of the principal at a yearly rate over a duration.              *)
OverYear(terms, rate, duration, g) ==
  CalcFee(terms.amount, rate * duration, g.denominator * SecondsForYear)

OverYearFits(terms, rate, duration, g) ==
  /\ g.denominator > 0
  /\ Fits(rate * duration)
  /\ Fits(g.denominator * SecondsForYear)
  /\ Fits(OverYear(terms, rate, duration, g))

(* Faulty variant: the lender earns the added rate as well.                *)
AccruedAmountAddedRate(terms, duration, g) ==
  OverYear(terms, terms.apr + g.apr_numerator, duration, g)

AccruedAmount(terms, duration, g) == OverYear(terms, terms.apr, duration, g)

AccruedUnlocFee(terms, duration, g) ==
  CalcFee(AccruedAmount(terms, duration, g), g.accrued_interest_numerator, g.denominator)

UnlocAprFee(terms, duration, g) == OverYear(terms, g.apr_numerator, duration, g)

MinDuration(terms, g) == (terms.duration * g.min_repaid_numerator) \div g.denominator

(* Faulty variant: early repayment is charged for the whole loan.          *)
RepaidDurationWholeLoan(terms, elapsed, g) ==
  IF elapsed < MinDuration(terms, g) THEN terms.duration ELSE elapsed

RepaidDuration(terms, elapsed, g) ==
  IF elapsed < MinDuration(terms, g) THEN MinDuration(terms, g) ELSE elapsed

(* Faulty variant: the fee is not taken off the lender's interest.         *)
NeededAmountWithFee(terms, elapsed, g) ==
  terms.amount + AccruedAmount(terms, RepaidDuration(terms, elapsed, g), g)

(* What the lender gets of a repayment, and what the treasury gets.        *)
NeededAmount(terms, elapsed, g) ==
  LET duration == RepaidDuration(terms, elapsed, g) IN
  (terms.amount + AccruedAmount(terms, duration, g)) - AccruedUnlocFee(terms, duration, g)

RepayFee(terms, elapsed, g) ==
  LET duration == RepaidDuration(terms, elapsed, g) IN
  AccruedUnlocFee(terms, duration, g) + UnlocAprFee(terms, duration, g)

RepaymentFits(terms, elapsed, g) ==
  LET duration == RepaidDuration(terms, elapsed, g) IN
  /\ g.denominator > 0
  /\ Fits(terms.duration * g.min_repaid_numerator)
  /\ OverYearFits(terms, terms.apr, duration, g)
  /\ OverYearFits(terms, g.apr_numerator, duration, g)
  /\ AccruedUnlocFee(terms, duration, g) <= terms.amount + AccruedAmount(terms, duration, g)
  /\ Fits(terms.amount + AccruedAmount(terms, duration, g))
  /\ Fits(NeededAmount(terms, elapsed, g) + RepayFee(terms, elapsed, g))

(* The fee of a claim is the product of the two fees.                      *)
ClaimFee(terms, elapsed, g) ==
  AccruedUnlocFee(terms, elapsed, g) * UnlocAprFee(terms, elapsed, g)

ClaimFits(terms, elapsed, g) ==
  /\ OverYearFits(terms, terms.apr, elapsed, g)
  /\ OverYearFits(terms, g.apr_numerator, elapsed, g)
  /\ Fits(AccruedUnlocFee(terms, elapsed, g))
  /\ Fits(ClaimFee(terms, elapsed, g))

-----------------------------------------------------------------------------
(* The handlers.                                                           *)

Pay(from, to, amount, b) == [b EXCEPT ![from] = b[from] - amount, ![to] = b[to] + amount]

(* The borrower changes what is asked for.                                 *)
UpdateSubOffer(k, t) ==
  /\ sub_offer[k].state = "Proposed"
  /\ sub_offer' = [sub_offer EXCEPT ![k].terms = t]
  /\ UNCHANGED <<now, global_state, balance>>

(* In any state: only the listing must be open, see Loan.                  *)
AcceptOffer(k) ==
  LET amount == sub_offer[k].terms.amount IN
  /\ sub_offer[k].repaid_amount <= MaxRepaid               \* model bound
  /\ amount <= balance["lender"]
  /\ balance' = Pay("lender", "borrower", amount, balance)
  /\ sub_offer' = [sub_offer EXCEPT ![k].state = "Accepted", ![k].loan_started_time = now]
  /\ UNCHANGED <<now, global_state>>

Elapsed(k) == now - sub_offer[k].loan_started_time

(* Faulty variant: only the lender's part is compared with the balance.    *)
RepayLoanFeeUnchecked(k) ==
  LET terms  == sub_offer[k].terms
      needed == NeededAmount(terms, Elapsed(k), global_state)
      fee    == RepayFee(terms, Elapsed(k), global_state)
  IN
  /\ sub_offer[k].state = "Accepted"
  /\ RepaymentFits(terms, Elapsed(k), global_state)
  /\ needed <= balance["borrower"]
  /\ balance' = Pay("borrower", "treasury", fee, Pay("borrower", "lender", needed, balance))
  /\ sub_offer' = [sub_offer EXCEPT ![k].state = "NFTClaimed", ![k].loan_ended_time = now]
  /\ UNCHANGED <<now, global_state>>

RepayLoan(k) ==
  LET terms  == sub_offer[k].terms
      needed == NeededAmount(terms, Elapsed(k), global_state)
      fee    == RepayFee(terms, Elapsed(k), global_state)
  IN
  /\ sub_offer[k].state = "Accepted"
  /\ RepaymentFits(terms, Elapsed(k), global_state)
  /\ needed + fee <= balance["borrower"]
  /\ Fits(sub_offer[k].repaid_amount + needed)
  /\ balance' = Pay("borrower", "treasury", fee, Pay("borrower", "lender", needed, balance))
  /\ sub_offer' = [sub_offer EXCEPT ![k].state = "NFTClaimed", ![k].loan_ended_time = now,
                                    ![k].repaid_amount = sub_offer[k].repaid_amount + needed]
  /\ UNCHANGED <<now, global_state>>

(* By the lender, who is recorded once the sub-offer was accepted.         *)
ClaimCollateral(k) ==
  LET terms == sub_offer[k].terms
      fee   == ClaimFee(terms, Elapsed(k), global_state)
  IN
  /\ sub_offer[k].state # "Proposed"
  /\ Fits(sub_offer[k].loan_started_time + terms.duration)
  /\ Elapsed(k) > terms.duration
  /\ ClaimFits(terms, Elapsed(k), global_state)
  /\ fee <= balance["lender"]
  /\ balance' = Pay("lender", "treasury", fee, balance)
  /\ sub_offer' = [sub_offer EXCEPT ![k].state = "NFTClaimed", ![k].loan_ended_time = now]
  /\ UNCHANGED <<now, global_state>>

(* No value is checked, and running loans see the new rates.               *)
UpdateGlobalState(g) ==
  /\ global_state' = g
  /\ UNCHANGED <<now, sub_offer, balance>>

(* The borrower spends what was borrowed, or brings money in.              *)
OutsidePayment(amount) ==
  /\ balance' = [balance EXCEPT !["borrower"] = amount]
  /\ UNCHANGED <<now, global_state, sub_offer>>

Tick ==
  /\ now < MaxTime
  /\ now' = now + 1
  /\ UNCHANGED <<global_state, sub_offer, balance>>

Next ==
  \/ \E k \in SubOffers :
       \/ \E t \in Terms : UpdateSubOffer(k, t)
       \/ AcceptOffer(k) \/ RepayLoan(k) \/ ClaimCollateral(k)
  \/ \E g \in Rates : UpdateGlobalState(g)
  \/ \E amount \in OutsideBalances : OutsidePayment(amount)
  \/ Tick

Spec == Init /\ [][Next]_vars

-----------------------------------------------------------------------------
(* Properties.                                                             *)

(* A fee that is no more than the interest it is taken from.               *)
Sane(g) == g.accrued_interest_numerator <= g.denominator

(* README.md:283-289.  What a repayment moves, compared with the formula   *)
(* in exact arithmetic (both sides multiplied by the denominators): the    *)
(* lender gets the principal and the agreed interest less the platform's   *)
(* share of it to within one unit, and the borrower pays at most principal *)
(* and interest at both rates and less than two units below.               *)
RepaidAsAgreed ==
  [][\A k \in SubOffers :
       LET g     == global_state
           terms == sub_offer[k].terms
           time  == RepaidDuration(terms, Elapsed(k), g)
           year  == g.denominator * SecondsForYear
           paid  == (balance["borrower"] - balance'["borrower"] - terms.amount) * year
           got   == (balance'["lender"] - balance["lender"] - terms.amount) * year * g.denominator
           share == terms.amount * terms.apr * time * (g.denominator - g.accrued_interest_numerator)
           both  == terms.amount * (terms.apr + g.apr_numerator) * time
       IN
       sub_offer'[k].repaid_amount # sub_offer[k].repaid_amount /\ Sane(g) =>
         /\ got - share < year * g.denominator /\ share - got < year * g.denominator
         /\ paid <= both /\ both < paid + 2 * year]_vars

(* What a repayment costs the borrower.                                    *)
RepayCost(terms, elapsed, g) == NeededAmount(terms, elapsed, g) + RepayFee(terms, elapsed, g)

(* At given rates a borrower never gains by waiting.                       *)
WaitingNeverCheaper ==
  \A k \in SubOffers :
    sub_offer[k].state = "Accepted" /\ RepaymentFits(sub_offer[k].terms, Elapsed(k) + 1, global_state)
    => RepayCost(sub_offer[k].terms, Elapsed(k), global_state)
         <= RepayCost(sub_offer[k].terms, Elapsed(k) + 1, global_state)

(* The platform's share of the interest is the lender's cost: a new value  *)
(* for it, set while the loan runs, leaves the borrower's repayment alone. *)
ShareOfInterestIsLenders ==
  \A k \in SubOffers, g \in Rates :
    LET terms == sub_offer[k].terms IN
    /\ sub_offer[k].state = "Accepted"
    /\ g = [global_state EXCEPT !.accrued_interest_numerator = g.accrued_interest_numerator]
    /\ RepaymentFits(terms, Elapsed(k), g) /\ RepaymentFits(terms, Elapsed(k), global_state)
    => RepayCost(terms, Elapsed(k), g) = RepayCost(terms, Elapsed(k), global_state)

(* README.md:293: the lender pays "5% from generated 30-day interest ... + *)
(* 1% that UNLOC adds to APR" and then can claim the collateral.           *)
ClaimFeeAsDocumented ==
  [][\A k \in SubOffers :
       LET terms == sub_offer[k].terms IN
       sub_offer[k].state = "Accepted" /\ ClaimCollateral(k) =>
         balance'["treasury"] - balance["treasury"] =
           AccruedUnlocFee(terms, Elapsed(k), global_state) +
             UnlocAprFee(terms, Elapsed(k), global_state)]_vars
=============================================================================
