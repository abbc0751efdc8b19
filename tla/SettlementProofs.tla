-------------------------- MODULE SettlementProofs --------------------------
(***************************************************************************)
(* The money of a loan for every amount, rate and duration.  The proofs    *)
(* rest on what integer division by a positive number does: it rounds      *)
(* down, by less than the divisor (Division), and keeps order              *)
(* (CalcFeeMonotone).                                                      *)
(***************************************************************************)
EXTENDS Settlement, TLAPS

(* No loan started in the future.                                          *)
StartedInPast == \A k \in SubOffers : sub_offer[k].loan_started_time <= now

IInv == TypeOK /\ StartedInPast

USE SettlementAssumption

-----------------------------------------------------------------------------
(* Arithmetic.                                                             *)

LEMMA Division ==
  ASSUME NEW n \in Nat, NEW d \in Nat \ {0}
  PROVE  n \div d \in Nat /\ d * (n \div d) <= n /\ n < d * (n \div d) + d
OBVIOUS

LEMMA TimesIsNat == ASSUME NEW a \in Nat, NEW b \in Nat PROVE a * b \in Nat
OBVIOUS

LEMMA PositiveProduct ==
  ASSUME NEW a \in Nat \ {0}, NEW b \in Nat \ {0} PROVE a * b \in Nat \ {0}
OBVIOUS

LEMMA TimesMonotone ==
  ASSUME NEW n \in Nat, NEW a \in Nat, NEW b \in Nat, a <= b
  PROVE  n * a <= n * b
OBVIOUS

LEMMA DivisionMonotone ==
  ASSUME NEW a \in Nat, NEW b \in Nat, a <= b, NEW d \in Nat \ {0}
  PROVE  a \div d <= b \div d
OBVIOUS

LEMMA CalcFeeIsNat ==
  ASSUME NEW t \in Nat, NEW f \in Nat, NEW d \in Nat \ {0}
  PROVE  CalcFee(t, f, d) \in Nat
BY TimesIsNat, Division DEF CalcFee

LEMMA CalcFeeMonotone ==
  ASSUME NEW t \in Nat, NEW f \in Nat, NEW h \in Nat, f <= h, NEW d \in Nat \ {0}
  PROVE  CalcFee(t, f, d) <= CalcFee(t, h, d)
<1>1. t * f <= t * h BY TimesMonotone
<1>2. t * f \in Nat /\ t * h \in Nat BY TimesIsNat
<1> QED BY <1>1, <1>2, DivisionMonotone DEF CalcFee

-----------------------------------------------------------------------------
(* The amounts of a repayment.                                             *)

LEMMA RateTypes ==
  ASSUME NEW g \in Rates
  PROVE  /\ g.accrued_interest_numerator \in Nat /\ g.apr_numerator \in Nat
         /\ g.min_repaid_numerator \in Nat /\ g.denominator \in Nat
BY DEF RateFields

LEMMA TermsTypes ==
  ASSUME NEW t \in Terms
  PROVE  t.amount \in Nat /\ t.apr \in Nat /\ t.duration \in Nat
OBVIOUS

(* Every amount is a number and grows with the duration.                   *)
LEMMA AmountsGrow ==
  ASSUME NEW t \in Terms, NEW g \in Rates, g.denominator > 0,
         NEW d1 \in Nat, NEW d2 \in Nat, d1 <= d2
  PROVE  /\ AccruedAmount(t, d1, g) \in Nat
         /\ UnlocAprFee(t, d1, g) \in Nat
         /\ AccruedUnlocFee(t, d1, g) \in Nat
         /\ AccruedAmount(t, d1, g) <= AccruedAmount(t, d2, g)
         /\ UnlocAprFee(t, d1, g) <= UnlocAprFee(t, d2, g)
<1> DEFINE year == g.denominator * SecondsForYear
<1>1. /\ t.amount \in Nat /\ t.apr \in Nat /\ g.apr_numerator \in Nat
      /\ g.accrued_interest_numerator \in Nat /\ g.denominator \in Nat \ {0}
  BY RateTypes, TermsTypes
<1>2. year \in Nat \ {0} BY <1>1, PositiveProduct
<1> HIDE DEF year
<1>3. ASSUME NEW r \in Nat
      PROVE  /\ CalcFee(t.amount, r * d1, year) \in Nat
             /\ CalcFee(t.amount, r * d1, year) <= CalcFee(t.amount, r * d2, year)
  <2>1. r * d1 \in Nat /\ r * d2 \in Nat BY TimesIsNat
  <2>2. r * d1 <= r * d2 BY TimesMonotone
  <2> QED BY <1>1, <1>2, <2>1, <2>2, CalcFeeIsNat, CalcFeeMonotone
<1>4. /\ AccruedAmount(t, d1, g) = CalcFee(t.amount, t.apr * d1, year)
      /\ AccruedAmount(t, d2, g) = CalcFee(t.amount, t.apr * d2, year)
      /\ UnlocAprFee(t, d1, g) = CalcFee(t.amount, g.apr_numerator * d1, year)
      /\ UnlocAprFee(t, d2, g) = CalcFee(t.amount, g.apr_numerator * d2, year)
  BY DEF AccruedAmount, UnlocAprFee, OverYear, year
<1>5. AccruedAmount(t, d1, g) \in Nat BY <1>1, <1>3, <1>4
<1>6. AccruedUnlocFee(t, d1, g) \in Nat
  BY <1>1, <1>5, CalcFeeIsNat DEF AccruedUnlocFee
<1> QED BY <1>1, <1>3, <1>4, <1>5, <1>6

LEMMA RepaidDurationGrows ==
  ASSUME NEW t \in Terms, NEW g \in Rates, g.denominator > 0,
         NEW e1 \in Nat, NEW e2 \in Nat, e1 <= e2
  PROVE  /\ RepaidDuration(t, e1, g) \in Nat /\ RepaidDuration(t, e2, g) \in Nat
         /\ RepaidDuration(t, e1, g) <= RepaidDuration(t, e2, g)
<1>1. t.duration * g.min_repaid_numerator \in Nat BY RateTypes, TermsTypes, TimesIsNat
<1>2. MinDuration(t, g) \in Nat
  BY <1>1, RateTypes, Division DEF MinDuration
<1> QED BY <1>2 DEF RepaidDuration

(* The borrower pays principal and interest at both rates: the platform's  *)
(* share of the interest cancels out.                                      *)
LEMMA CostIsBothRates ==
  ASSUME NEW t \in Terms, NEW g \in Rates, g.denominator > 0, NEW e \in Nat
  PROVE  /\ RepayFee(t, e, g) \in Nat
         /\ RepayCost(t, e, g) = t.amount + AccruedAmount(t, RepaidDuration(t, e, g), g)
                                          + UnlocAprFee(t, RepaidDuration(t, e, g), g)
<1> DEFINE d == RepaidDuration(t, e, g)
<1>1. d \in Nat BY RepaidDurationGrows
<1> HIDE DEF d
<1>2. /\ AccruedAmount(t, d, g) \in Nat /\ UnlocAprFee(t, d, g) \in Nat
      /\ AccruedUnlocFee(t, d, g) \in Nat
  BY <1>1, AmountsGrow
<1>3. t.amount \in Nat BY TermsTypes
<1>4. /\ NeededAmount(t, e, g) = (t.amount + AccruedAmount(t, d, g)) - AccruedUnlocFee(t, d, g)
      /\ RepayFee(t, e, g) = AccruedUnlocFee(t, d, g) + UnlocAprFee(t, d, g)
  BY DEF NeededAmount, RepayFee, d
<1>5. RepayCost(t, e, g) = t.amount + AccruedAmount(t, d, g) + UnlocAprFee(t, d, g)
  BY <1>2, <1>3, <1>4 DEF RepayCost
<1> QED BY <1>2, <1>4, <1>5 DEF d

-----------------------------------------------------------------------------
(* Invariance.                                                             *)

LEMMA InitIInv == Init => IInv
BY DEF Init, IInv, TypeOK, StartedInPast, SubOfferAccount, Parties

LEMMA ElapsedIsNat ==
  ASSUME IInv, NEW k \in SubOffers
  PROVE  /\ sub_offer[k] \in SubOfferAccount /\ sub_offer[k].terms \in Terms
         /\ now \in Nat /\ Elapsed(k) \in Nat
BY DEF IInv, TypeOK, StartedInPast, SubOfferAccount, Elapsed

(* What the handlers write keeps the sub-offers' type.                     *)
LEMMA SubOfferUpdate ==
  ASSUME IInv, NEW k \in SubOffers
  PROVE  /\ [sub_offer EXCEPT ![k].state = "Accepted", ![k].loan_started_time = now]
              \in [SubOffers -> SubOfferAccount]
         /\ [sub_offer EXCEPT ![k].state = "NFTClaimed", ![k].loan_ended_time = now]
              \in [SubOffers -> SubOfferAccount]
         /\ \A n \in Nat :
              [sub_offer EXCEPT ![k].state = "NFTClaimed", ![k].loan_ended_time = now,
                                ![k].repaid_amount = sub_offer[k].repaid_amount + n]
                \in [SubOffers -> SubOfferAccount]
<1>1. /\ sub_offer \in [SubOffers -> SubOfferAccount] /\ now \in Nat
      /\ sub_offer[k].repaid_amount \in Nat
  BY DEF IInv, TypeOK, SubOfferAccount
<1>2. ASSUME NEW n \in Nat PROVE sub_offer[k].repaid_amount + n \in Nat
  BY <1>1
<1> QED BY <1>1, <1>2, Zenon DEF SubOfferAccount

(* A payment of what the payer has keeps every balance a number.           *)
LEMMA PayIsTyped ==
  ASSUME NEW b \in [Parties -> Nat], NEW from \in Parties, NEW to \in Parties, from # to,
         NEW n \in Nat, n <= b[from]
  PROVE  /\ Pay(from, to, n, b) \in [Parties -> Nat]
         /\ Pay(from, to, n, b)[from] = b[from] - n
         /\ Pay(from, to, n, b)[to] = b[to] + n
         /\ \A p \in Parties \ {from, to} : Pay(from, to, n, b)[p] = b[p]
BY DEF Pay

LEMMA AcceptOfferIInv ==
  ASSUME IInv, NEW k \in SubOffers, AcceptOffer(k) PROVE IInv'
<1> DEFINE amount == sub_offer[k].terms.amount
<1>1. amount \in Nat BY ElapsedIsNat, TermsTypes
<1>2. /\ amount <= balance["lender"]
      /\ balance' = Pay("lender", "borrower", amount, balance)
      /\ sub_offer' = [sub_offer EXCEPT ![k].state = "Accepted", ![k].loan_started_time = now]
      /\ UNCHANGED <<now, global_state>>
  BY DEF AcceptOffer
<1> HIDE DEF amount
<1>3. balance \in [Parties -> Nat] /\ "lender" \in Parties /\ "borrower" \in Parties
  BY DEF IInv, TypeOK, Parties
<1>4. balance' \in [Parties -> Nat] BY <1>1, <1>2, <1>3, PayIsTyped
<1>5. sub_offer' \in [SubOffers -> SubOfferAccount]
  BY <1>2, SubOfferUpdate
<1>6. TypeOK' BY <1>2, <1>4, <1>5 DEF IInv, TypeOK
<1>7. StartedInPast' BY <1>2 DEF IInv, TypeOK, StartedInPast, SubOfferAccount
<1> QED BY <1>6, <1>7 DEF IInv

(* A repayment moves two amounts, both of which are numbers.               *)
LEMMA RepaymentMoves ==
  ASSUME IInv, NEW k \in SubOffers, RepayLoan(k)
  PROVE  LET t == sub_offer[k].terms
             n == NeededAmount(t, Elapsed(k), global_state)
             f == RepayFee(t, Elapsed(k), global_state)
         IN  /\ n \in Nat /\ f \in Nat
             /\ balance' \in [Parties -> Nat]
             /\ balance'["borrower"] = balance["borrower"] - n - f
             /\ balance'["lender"] = balance["lender"] + n
<1> DEFINE t == sub_offer[k].terms
           d == RepaidDuration(t, Elapsed(k), global_state)
           n == NeededAmount(t, Elapsed(k), global_state)
           f == RepayFee(t, Elapsed(k), global_state)
<1>1. t \in Terms /\ Elapsed(k) \in Nat /\ global_state \in Rates
  BY ElapsedIsNat DEF IInv, TypeOK
<1>2. /\ RepaymentFits(t, Elapsed(k), global_state) /\ n + f <= balance["borrower"]
      /\ balance' = Pay("borrower", "treasury", f, Pay("borrower", "lender", n, balance))
  BY DEF RepayLoan
<1> HIDE DEF t
<1>3. /\ global_state.denominator > 0
      /\ AccruedUnlocFee(t, d, global_state) <= t.amount + AccruedAmount(t, d, global_state)
      /\ n = (t.amount + AccruedAmount(t, d, global_state)) - AccruedUnlocFee(t, d, global_state)
  BY <1>2 DEF RepaymentFits, NeededAmount
<1>4. f \in Nat BY <1>1, <1>3, CostIsBothRates
<1>5. d \in Nat BY <1>1, <1>3, RepaidDurationGrows
<1>6. n \in Nat
  <2> HIDE DEF d
  <2>1. AccruedUnlocFee(t, d, global_state) \in Nat /\ AccruedAmount(t, d, global_state) \in Nat
    BY <1>1, <1>3, <1>5, AmountsGrow
  <2>2. t.amount \in Nat BY <1>1, TermsTypes
  <2> QED BY <1>3, <2>1, <2>2
<1> HIDE DEF d, n, f
<1>7. /\ balance \in [Parties -> Nat]
      /\ "borrower" \in Parties /\ "lender" \in Parties /\ "treasury" \in Parties
      /\ balance["borrower"] \in Nat
  BY DEF IInv, TypeOK, Parties
<1> DEFINE b == Pay("borrower", "lender", n, balance)
<1>8. n <= balance["borrower"] BY <1>2, <1>4, <1>6, <1>7
<1>9. /\ b \in [Parties -> Nat] /\ b["borrower"] = balance["borrower"] - n
      /\ b["lender"] = balance["lender"] + n
  BY <1>6, <1>7, <1>8, PayIsTyped
<1>10. balance' = Pay("borrower", "treasury", f, b) BY <1>2
<1> HIDE DEF b
<1>11. f <= b["borrower"] BY <1>2, <1>4, <1>6, <1>7, <1>9
<1>12. /\ balance' \in [Parties -> Nat] /\ balance'["borrower"] = b["borrower"] - f
       /\ balance'["lender"] = b["lender"]
  BY <1>4, <1>7, <1>9, <1>10, <1>11, PayIsTyped
<1> QED BY <1>4, <1>6, <1>7, <1>9, <1>12 DEF t, n, f

LEMMA RepayLoanIInv ==
  ASSUME IInv, NEW k \in SubOffers, RepayLoan(k) PROVE IInv'
<1> DEFINE n == NeededAmount(sub_offer[k].terms, Elapsed(k), global_state)
<1>1. n \in Nat /\ balance' \in [Parties -> Nat] BY RepaymentMoves
<1>2. /\ sub_offer' = [sub_offer EXCEPT ![k].state = "NFTClaimed", ![k].loan_ended_time = now,
                                        ![k].repaid_amount = sub_offer[k].repaid_amount + n]
      /\ UNCHANGED <<now, global_state>>
  BY DEF RepayLoan
<1> HIDE DEF n
<1>3. sub_offer' \in [SubOffers -> SubOfferAccount]
  BY <1>1, <1>2, SubOfferUpdate
<1>4. TypeOK' BY <1>1, <1>2, <1>3 DEF IInv, TypeOK
<1>5. StartedInPast' BY <1>2 DEF IInv, TypeOK, StartedInPast, SubOfferAccount
<1> QED BY <1>4, <1>5 DEF IInv

LEMMA ClaimCollateralIInv ==
  ASSUME IInv, NEW k \in SubOffers, ClaimCollateral(k) PROVE IInv'
<1> DEFINE t == sub_offer[k].terms
           fee == ClaimFee(t, Elapsed(k), global_state)
<1>1. t \in Terms /\ Elapsed(k) \in Nat /\ global_state \in Rates
  BY ElapsedIsNat DEF IInv, TypeOK
<1>2. /\ ClaimFits(t, Elapsed(k), global_state) /\ fee <= balance["lender"]
      /\ balance' = Pay("lender", "treasury", fee, balance)
      /\ sub_offer' = [sub_offer EXCEPT ![k].state = "NFTClaimed", ![k].loan_ended_time = now]
      /\ UNCHANGED <<now, global_state>>
  BY DEF ClaimCollateral
<1> HIDE DEF t
<1>3. global_state.denominator > 0 BY <1>2 DEF ClaimFits, OverYearFits
<1>4. fee \in Nat
  BY <1>1, <1>3, AmountsGrow, TimesIsNat DEF ClaimFee
<1> HIDE DEF fee
<1>5. balance \in [Parties -> Nat] /\ "lender" \in Parties /\ "treasury" \in Parties
  BY DEF IInv, TypeOK, Parties
<1>6. balance' \in [Parties -> Nat] BY <1>2, <1>4, <1>5, PayIsTyped
<1>7. sub_offer' \in [SubOffers -> SubOfferAccount]
  BY <1>2, SubOfferUpdate
<1>8. TypeOK' BY <1>2, <1>6, <1>7 DEF IInv, TypeOK
<1>9. StartedInPast' BY <1>2 DEF IInv, TypeOK, StartedInPast, SubOfferAccount
<1> QED BY <1>8, <1>9 DEF IInv

LEMMA NextIInv == IInv /\ [Next]_vars => IInv'
<1> SUFFICES ASSUME IInv, [Next]_vars PROVE IInv'
  OBVIOUS
<1>1. ASSUME NEW k \in SubOffers, NEW t \in Terms, UpdateSubOffer(k, t) PROVE IInv'
  BY <1>1 DEF UpdateSubOffer, IInv, TypeOK, StartedInPast, SubOfferAccount
<1>2. ASSUME NEW g \in Rates, UpdateGlobalState(g) PROVE IInv'
  BY <1>2 DEF UpdateGlobalState, IInv, TypeOK, StartedInPast
<1>3. ASSUME NEW amount \in OutsideBalances, OutsidePayment(amount) PROVE IInv'
  BY <1>3 DEF OutsidePayment, IInv, TypeOK, StartedInPast, Parties
<1>4. CASE Tick
  BY <1>4 DEF Tick, IInv, TypeOK, StartedInPast, SubOfferAccount
<1>5. CASE UNCHANGED vars
  BY <1>5 DEF vars, IInv, TypeOK, StartedInPast
<1> QED
  BY <1>1, <1>2, <1>3, <1>4, <1>5, AcceptOfferIInv, RepayLoanIInv, ClaimCollateralIInv DEF Next

LEMMA Invariance == Spec => []IInv
BY InitIInv, NextIInv, PTL DEF Spec

-----------------------------------------------------------------------------
(* No transaction leaves a balance below zero.                             *)
THEOREM TypeCorrect == Spec => []TypeOK
<1>1. IInv => TypeOK BY DEF IInv
<1> QED BY <1>1, Invariance, PTL

(* Waiting never makes a repayment cheaper, at rates that stay the same.   *)
THEOREM WaitingCosts == Spec => []WaitingNeverCheaper
<1>1. IInv => WaitingNeverCheaper
  <2> SUFFICES ASSUME IInv, NEW k \in SubOffers,
                      RepaymentFits(sub_offer[k].terms, Elapsed(k) + 1, global_state)
               PROVE  RepayCost(sub_offer[k].terms, Elapsed(k), global_state)
                        <= RepayCost(sub_offer[k].terms, Elapsed(k) + 1, global_state)
    BY DEF WaitingNeverCheaper
  <2> DEFINE t == sub_offer[k].terms
             e == Elapsed(k)
             g == global_state
             d1 == RepaidDuration(t, e, g)
             d2 == RepaidDuration(t, e + 1, g)
  <2>1. t \in Terms /\ e \in Nat /\ g \in Rates /\ g.denominator > 0
    BY ElapsedIsNat DEF IInv, TypeOK, RepaymentFits
  <2> HIDE DEF t, e, g
  <2>2. d1 \in Nat /\ d2 \in Nat /\ d1 <= d2 BY <2>1, RepaidDurationGrows
  <2>3. /\ RepayCost(t, e, g) = t.amount + AccruedAmount(t, d1, g) + UnlocAprFee(t, d1, g)
        /\ RepayCost(t, e + 1, g) = t.amount + AccruedAmount(t, d2, g) + UnlocAprFee(t, d2, g)
    BY <2>1, CostIsBothRates
  <2> HIDE DEF d1, d2
  <2>4. /\ AccruedAmount(t, d1, g) \in Nat /\ AccruedAmount(t, d2, g) \in Nat
        /\ UnlocAprFee(t, d1, g) \in Nat /\ UnlocAprFee(t, d2, g) \in Nat
        /\ AccruedAmount(t, d1, g) <= AccruedAmount(t, d2, g)
        /\ UnlocAprFee(t, d1, g) <= UnlocAprFee(t, d2, g)
    BY <2>1, <2>2, AmountsGrow
  <2>5. t.amount \in Nat BY <2>1, TermsTypes
  <2>6. RepayCost(t, e, g) <= RepayCost(t, e + 1, g) BY <2>3, <2>4, <2>5
  <2> QED BY <2>6 DEF t, e, g
<1> QED BY <1>1, Invariance, PTL

(* The platform's share of the interest never reaches the borrower, even   *)
(* when it changes while the loan runs.                                    *)
THEOREM ShareIsLenders == Spec => []ShareOfInterestIsLenders
<1>1. IInv => ShareOfInterestIsLenders
  <2> SUFFICES ASSUME IInv, NEW k \in SubOffers, NEW h \in Rates,
                      h = [global_state EXCEPT
                             !.accrued_interest_numerator = h.accrued_interest_numerator],
                      RepaymentFits(sub_offer[k].terms, Elapsed(k), global_state)
               PROVE  RepayCost(sub_offer[k].terms, Elapsed(k), h)
                        = RepayCost(sub_offer[k].terms, Elapsed(k), global_state)
    BY DEF ShareOfInterestIsLenders
  <2> DEFINE t == sub_offer[k].terms
             e == Elapsed(k)
             g == global_state
  <2>1. t \in Terms /\ e \in Nat /\ g \in Rates /\ g.denominator > 0
    BY ElapsedIsNat DEF IInv, TypeOK, RepaymentFits
  <2>2. /\ h.denominator = g.denominator /\ h.apr_numerator = g.apr_numerator
        /\ h.min_repaid_numerator = g.min_repaid_numerator
    BY <2>1 DEF RateFields
  <2> HIDE DEF t, e, g
  <2>3. RepaidDuration(t, e, h) = RepaidDuration(t, e, g)
    BY <2>2 DEF RepaidDuration, MinDuration
  <2>4. ASSUME NEW d
        PROVE  /\ AccruedAmount(t, d, h) = AccruedAmount(t, d, g)
               /\ UnlocAprFee(t, d, h) = UnlocAprFee(t, d, g)
    BY <2>2 DEF AccruedAmount, UnlocAprFee, OverYear
  <2>5. RepayCost(t, e, h) = RepayCost(t, e, g)
    BY <2>1, <2>2, <2>3, <2>4, CostIsBothRates
  <2> QED BY <2>5 DEF t, e, g
<1> QED BY <1>1, Invariance, PTL

-----------------------------------------------------------------------------
(* The split of a repayment.  With N the interest times its denominator Y, *)
(* A what is left of it after rounding and f the share a / d of A, both    *)
(* remainders are below their divisors, and (A - f) Y d differs from       *)
(* N (d - a) by one remainder times the other divisor either way.          *)

LEMMA SplitOfInterest ==
  ASSUME NEW N \in Nat, NEW Y \in Nat \ {0}, NEW a \in Nat, NEW d \in Nat \ {0}, a <= d,
         NEW A \in Nat, Y * A <= N, N < Y * A + Y,
         NEW f \in Nat, d * f <= A * a, A * a < d * f + d
  PROVE  /\ (A - f) * Y * d - N * (d - a) < Y * d
         /\ N * (d - a) - (A - f) * Y * d < Y * d
<1> DEFINE r == N - Y * A
           q == A * a - d * f
<1>1. /\ r \in Nat /\ r < Y /\ N = Y * A + r
      /\ q \in Nat /\ q < d /\ A * a = d * f + q
  <2>1. Y * A \in Nat /\ A * a \in Nat /\ d * f \in Nat BY TimesIsNat
  <2> QED BY <2>1
<1> HIDE DEF r, q
<1>2. (A - f) * Y * d - N * (d - a) = Y * q - r * (d - a)
  <2>1. (A - f) * Y * d = A * Y * d - Y * (d * f) OBVIOUS
  <2>2. Y * (d * f) = Y * (A * a) - Y * q BY <1>1
  <2>3. N * (d - a) = (Y * A) * (d - a) + r * (d - a) BY <1>1
  <2>4. (Y * A) * (d - a) = A * Y * d - Y * (A * a) OBVIOUS
  <2>5. /\ A * Y * d \in Nat /\ Y * (A * a) \in Nat /\ Y * q \in Nat /\ r * (d - a) \in Nat
    BY <1>1, TimesIsNat
  <2> HIDE DEF r, q
  <2> QED BY <2>1, <2>2, <2>3, <2>4, <2>5
<1>3. Y * q \in Nat /\ Y * q < Y * d BY <1>1, TimesIsNat
<1>4. r * (d - a) \in Nat /\ r * (d - a) < Y * d
  <2>1. r * (d - a) <= r * d BY <1>1, TimesMonotone
  <2>2. r * d < Y * d BY <1>1
  <2> QED BY <1>1, <2>1, <2>2, TimesIsNat
<1>5. Y * d \in Nat BY TimesIsNat
<1>6. /\ (A - f) * Y * d \in Int /\ N * (d - a) \in Int OBVIOUS
<1> QED BY <1>2, <1>3, <1>4, <1>5, <1>6

(* Only a repayment changes what was repaid.                               *)
LEMMA RepaidByRepayment ==
  ASSUME IInv, [Next]_vars, NEW k \in SubOffers,
         sub_offer'[k].repaid_amount # sub_offer[k].repaid_amount
  PROVE  RepayLoan(k)
<1> USE DEF IInv, TypeOK, SubOfferAccount
<1>1. CASE UNCHANGED vars BY <1>1 DEF vars
<1>2. ASSUME NEW j \in SubOffers, NEW t \in Terms, UpdateSubOffer(j, t) PROVE FALSE
  BY <1>2 DEF UpdateSubOffer
<1>3. ASSUME NEW j \in SubOffers, AcceptOffer(j) PROVE FALSE
  BY <1>3 DEF AcceptOffer
<1>4. ASSUME NEW j \in SubOffers, ClaimCollateral(j) PROVE FALSE
  BY <1>4 DEF ClaimCollateral
<1>5. ASSUME NEW j \in SubOffers, RepayLoan(j) PROVE RepayLoan(k)
  <2>1. CASE j = k BY <1>5, <2>1
  <2>2. CASE j # k
    <3> DEFINE n == NeededAmount(sub_offer[j].terms, Elapsed(j), global_state)
    <3>1. sub_offer' = [sub_offer EXCEPT ![j].state = "NFTClaimed", ![j].loan_ended_time = now,
                                         ![j].repaid_amount = sub_offer[j].repaid_amount + n]
      BY <1>5 DEF RepayLoan
    <3> HIDE DEF n
    <3> QED BY <2>2, <3>1
  <2> QED BY <2>1, <2>2
<1>6. ASSUME \/ \E g \in Rates : UpdateGlobalState(g)
             \/ \E amount \in OutsideBalances : OutsidePayment(amount)
             \/ Tick
      PROVE  FALSE
  BY <1>6 DEF UpdateGlobalState, OutsidePayment, Tick
<1> QED BY <1>1, <1>2, <1>3, <1>4, <1>5, <1>6 DEF Next

(* A repayment gives the lender the agreed interest less the platform's    *)
(* share to within one unit, and takes less than two units too little from *)
(* the borrower, never too much: for every amount, rate and duration.      *)
THEOREM RepaymentAsAgreed == Spec => RepaidAsAgreed
<1> DEFINE Agreed(k) ==
       LET g     == global_state
           terms == sub_offer[k].terms
           time  == RepaidDuration(terms, Elapsed(k), g)
           year  == g.denominator * SecondsForYear
           paid  == (balance["borrower"] - balance'["borrower"] - terms.amount) * year
           got   == (balance'["lender"] - balance["lender"] - terms.amount) * year * g.denominator
           share == terms.amount * terms.apr * time * (g.denominator - g.accrued_interest_numerator)
           both  == terms.amount * (terms.apr + g.apr_numerator) * time
       IN
       sub_offer'[k].repaid_amount # sub_offer[k].repaid_amount /\ Sane(g) =>
         /\ got - share < year * g.denominator /\ share - got < year * g.denominator
         /\ paid <= both /\ both < paid + 2 * year
<1>1. ASSUME IInv, [Next]_vars, NEW k \in SubOffers PROVE Agreed(k)
  <2> SUFFICES ASSUME sub_offer'[k].repaid_amount # sub_offer[k].repaid_amount,
                      Sane(global_state)
               PROVE  Agreed(k)
    OBVIOUS
  <2> DEFINE t == sub_offer[k].terms
             g == global_state
             time == RepaidDuration(t, Elapsed(k), g)
             Y == g.denominator * SecondsForYear
             A == AccruedAmount(t, time, g)
             f == AccruedUnlocFee(t, time, g)
             u == UnlocAprFee(t, time, g)
             N == t.amount * t.apr * time
             M == t.amount * g.apr_numerator * time
             d == g.denominator
             a == g.accrued_interest_numerator
  <2>1. RepayLoan(k) BY <1>1, RepaidByRepayment
  <2>2. t \in Terms /\ Elapsed(k) \in Nat /\ g \in Rates /\ d > 0
    BY <1>1, <2>1, ElapsedIsNat DEF IInv, TypeOK, RepayLoan, RepaymentFits
  <2>3. /\ t.amount \in Nat /\ t.apr \in Nat /\ g.apr_numerator \in Nat
        /\ d \in Nat \ {0} /\ a \in Nat /\ a <= d
    BY <2>2, RateTypes, TermsTypes DEF Sane
  <2>4. time \in Nat BY <2>2, RepaidDurationGrows
  <2>5. /\ balance'["lender"] - balance["lender"] = NeededAmount(t, Elapsed(k), g)
        /\ balance["borrower"] - balance'["borrower"]
             = NeededAmount(t, Elapsed(k), g) + RepayFee(t, Elapsed(k), g)
    <3>1. balance["lender"] \in Nat /\ balance["borrower"] \in Nat
      BY <1>1 DEF IInv, TypeOK, Parties
    <3> QED BY <1>1, <2>1, <3>1, RepaymentMoves
  <2>6. /\ NeededAmount(t, Elapsed(k), g) = (t.amount + A) - f
        /\ RepayFee(t, Elapsed(k), g) = f + u
    BY DEF NeededAmount, RepayFee
  <2>7. A \in Nat /\ f \in Nat /\ u \in Nat BY <2>2, <2>4, AmountsGrow
  <2>8. A = (t.amount * (t.apr * time)) \div Y /\ u = (t.amount * (g.apr_numerator * time)) \div Y
        /\ f = (A * a) \div d
    BY DEF AccruedAmount, UnlocAprFee, AccruedUnlocFee, OverYear, CalcFee
  <2> HIDE DEF t, time, A, f, u, a, d
  <2>9. Y \in Nat \ {0} BY <2>3, PositiveProduct DEF d
  <2>10. /\ N = t.amount * (t.apr * time) /\ N \in Nat
         /\ M = t.amount * (g.apr_numerator * time) /\ M \in Nat
    <3>1. /\ t.apr * time \in Nat /\ g.apr_numerator * time \in Nat
      BY <2>3, <2>4, TimesIsNat
    <3>2. ASSUME NEW x \in Nat, NEW y \in Nat, NEW z \in Nat
          PROVE  x * y * z = x * (y * z) /\ x * (y * z) \in Nat
      BY TimesIsNat
    <3> QED BY <2>3, <2>4, <3>2
  <2> HIDE DEF Y
  <2>11. Y * A <= N /\ N < Y * A + Y /\ Y * u <= M /\ M < Y * u + Y
    BY <2>8, <2>9, <2>10, Division
  <2>12. d * f <= A * a /\ A * a < d * f + d
    BY <2>3, <2>7, <2>8, TimesIsNat, Division
  <2>13. t.amount * (t.apr + g.apr_numerator) * time = N + M
    BY <2>3, <2>4
  <2> HIDE DEF N, M
  <2>14. /\ (A - f) * Y * d - N * (d - a) < Y * d
         /\ N * (d - a) - (A - f) * Y * d < Y * d
    BY <2>3, <2>7, <2>9, <2>10, <2>11, <2>12, SplitOfInterest
  <2>15. balance'["lender"] - balance["lender"] - t.amount = A - f
    BY <2>3, <2>5, <2>6, <2>7
  <2>16. balance["borrower"] - balance'["borrower"] - t.amount = A + u
    BY <2>3, <2>5, <2>6, <2>7
  <2>17. (A + u) * Y = Y * A + Y * u /\ Y * A \in Nat /\ Y * u \in Nat
    BY <2>7, <2>9, TimesIsNat
  <2>18. (A + u) * Y <= N + M /\ N + M < (A + u) * Y + 2 * Y
    BY <2>9, <2>10, <2>11, <2>17
  <2> QED
    BY <2>13, <2>14, <2>15, <2>16, <2>18, Zenon DEF t, time, N, Y, a, d
<1>2. IInv /\ [Next]_vars => [\A k \in SubOffers : Agreed(k)]_vars
  BY <1>1
<1> QED BY <1>2, Invariance, PTL DEF Spec, RepaidAsAgreed
=============================================================================
