---------------------------- MODULE MCSettlement ----------------------------
(* Small instances of Settlement.  A year has 3 units of time and rates    *)
(* have a denominator of 10, so that every division rounds somewhere; the  *)
(* largest APR leaves the range of the amounts before the clock stops.     *)
EXTENDS Settlement

Rate(accrued, apr, repaid) ==
  [accrued_interest_numerator |-> accrued, apr_numerator |-> apr,
   min_repaid_numerator |-> repaid, denominator |-> 10]

MCRates ==
  {Rate(1, 1, 5), Rate(7, 1, 5), Rate(12, 3, 0), [Rate(1, 1, 5) EXCEPT !.denominator = 0]}

MCTerms ==
  {[amount |-> 20, apr |-> 7, duration |-> 2], [amount |-> 13, apr |-> 12, duration |-> 4],
   [amount |-> 5, apr |-> 30, duration |-> 1]}

MCClaimTerms == {[amount |-> 20, apr |-> 7, duration |-> 2]}
MCClaimRates == {Rate(2, 3, 5)}
=============================================================================
