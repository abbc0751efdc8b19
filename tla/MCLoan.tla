------------------------------- MODULE MCLoan -------------------------------
(***************************************************************************)
(* Loan with the fairness its liveness property assumes.                   *)
(*                                                                         *)
(* Nothing in the program runs by itself, so no action is fair in Spec.    *)
(* PayingBorrowers is an assumption about people: a borrower who is able   *)
(* to repay an open loan eventually sends the transaction.  What is then   *)
(* checked is that nobody else's transactions can keep it from succeeding. *)
(***************************************************************************)
EXTENDS Loan

PayingBorrowers ==
  \A o \in OfferKeys : WF_vars(\E i \in SubNumbers : RepayLoan(o, i))

FairSpec == Spec /\ PayingBorrowers

(* README: "Repaying the borrowed amount ... unlocks the NFT for the       *)
(* original owner".  A listing on loan does not stay on loan for ever when *)
(* its borrower pays, late or not.                                         *)
LoanEnds ==
  \A o \in OfferKeys : offer[o].state = "Accepted" ~> offer[o].state # "Accepted"
=============================================================================
