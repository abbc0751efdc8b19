---------------------------- MODULE MCLoanClient ----------------------------
(***************************************************************************)
(* LoanClient with terms in two currencies, and the fairness of a borrower *)
(* who keeps calling repayLoan over a network that loses transactions.     *)
(***************************************************************************)
EXTENDS LoanClient

USDC == "USDC"
WSOL == "WSOL"
MCMints == {USDC, WSOL}
MCTerms == [mint : MCMints, amount : {1}]
MCOnlySol == {WSOL}
MCSolTerms == [mint : MCOnlySol, amount : {1}]

(* Nothing in the client runs by itself; these are assumptions about one   *)
(* borrower and the network.  The borrower calls repayLoan again and again *)
(* while the loan is open (strong, because calls of other functions come   *)
(* in between); a call that was started goes on; what is sent lands or     *)
(* expires; and a network asked often enough to land a repayment that      *)
(* would succeed lands one.                                                *)
PersistentBorrower ==
  \A o \in OfferKeys :
    /\ SF_allVars(\E i \in SubNumbers : OnLoan(o, i) /\ CallRepayLoan(o, i))
    /\ SF_allVars(\E tx \in wire : tx.fn = "repayLoan" /\ tx.o = o /\ Land(tx))
    /\ WF_allVars(Fetch(o[1]))
    /\ WF_allVars(Send(o[1]))
    /\ WF_allVars(\E tx \in wire : tx.signer = o[1] /\ (Land(tx) \/ Lose(tx)))

PersistentSpec == ClientSpec /\ PersistentBorrower

LoanEnds(o) == offer[o].state = "Accepted" ~> offer[o].state # "Accepted"

TreasuryStays == <>[][treasury_wallet' = treasury_wallet]_allVars

(* The token accounts that repayLoan names for the loan exist.             *)
OfferVaultsOpen(o) ==
  \A i \in SubNumbers :
    OnLoan(o, i) /\ sub_offer[o][i].terms.mint = WSOL_MINT =>
      treasury_wallet \in wsol_vaults

(* A borrower who keeps calling repayLoan ends the loan, although reads    *)
(* grow stale, transactions get lost and failures are swallowed, on two    *)
(* conditions: the administrator does not change the treasury wallet for   *)
(* ever, because repay_loan refuses a treasury read before the change; and *)
(* for a loan in SOL the treasury it stays at has a WSOL vault, because    *)
(* repayLoan names that vault and cannot create it.                        *)
RepaymentGetsThrough ==
  \A o \in OfferKeys :
    TreasuryStays /\ <>[]OfferVaultsOpen(o) => LoanEnds(o)

(* README: "Borrower repays borrowed SOL/SPL and get his NFT again".  The  *)
(* same without the condition on the vault: a change of the treasury while *)
(* a loan runs delays its repayment and does not prevent it.               *)
RepaymentSurvivesTreasuryChange ==
  \A o \in OfferKeys : TreasuryStays => LoanEnds(o)
=============================================================================
