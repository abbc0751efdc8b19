----------------------------- MODULE LoanClient -----------------------------
(***************************************************************************)
(* The loan functions of client/src/loan/index.ts over the loan program.   *)
(*                                                                         *)
(* A function reads the accounts it needs one await at a time, derives     *)
(* from them the accounts it names in the transaction, and sends it.       *)
(* Between two reads, and between sending and landing, anybody else's      *)
(* transaction may land.  Every function catches what rpc() throws, so its *)
(* caller learns neither of a failure nor of a timeout: after sending, the *)
(* wallet is free to call again while the first transaction is still on    *)
(* the wire, where it may land late or never.                              *)
(*                                                                         *)
(* The program refuses a transaction whose accounts are not those it has   *)
(* on record, or do not exist; these account constraints are the guards    *)
(* added here to the instructions of Loan.  Wallets hold token accounts in *)
(* every other currency; for SOL the client names the treasury's WSOL      *)
(* vault in their place, which only repay_loan and claim_collateral can    *)
(* create, once every account named beside it has been loaded.             *)
(***************************************************************************)
EXTENDS Loan, Sequences

CONSTANTS
  Mints, WSOL_MINT,      \* the currencies lent, and the one that is SOL
  TreasuryWallets,       \* values of GlobalState.treasury_wallet
  Functions,             \* the functions of the client that wallets call
  Tries                  \* transactions one wallet may have on the wire

(* Amounts and rates do not depend on the currency, and a borrower without *)
(* a staking account has level 0.                                          *)
ASSUME ClientAssumption ==
  /\ Terms \subseteq [mint : Mints, amount : Nat]
  /\ \A t \in Terms, m \in Mints : [t EXCEPT !.mint = m] \in Terms
  /\ 0 \in ProfileLevels

VARIABLES
  treasury_wallet,       \* GlobalState.treasury_wallet
  wsol_vaults,           \* treasury wallets whose WSOL treasury vault exists
  call,                  \* the call each wallet is in
  wire                   \* transactions sent and not yet landed or lost

clientVars == <<treasury_wallet, wsol_vaults, call, wire>>
allVars == <<vars, clientVars>>

(* What a call knows of the accounts it has fetched.                       *)
Unread == [count |-> 0, mint |-> NoUser, lender |-> NoUser, treasury |-> NoUser]

Idle == [fn |-> "none"]

NoArgs == [terms |-> NoUser, duration |-> 0]

ClientInit ==
  /\ Init
  /\ treasury_wallet \in TreasuryWallets
  /\ wsol_vaults = {}
  /\ call = [u \in Users |-> Idle]
  /\ wire = {}

-----------------------------------------------------------------------------
(* Calls.  `todo` lists the accounts still to be fetched, in order.        *)

Begin(u, fn, o, i, args, todo) ==
  /\ fn \in Functions
  /\ call[u] = Idle
  /\ call' = [call EXCEPT ![u] =
                [fn |-> fn, o |-> o, i |-> i, args |-> args, todo |-> todo,
                 view |-> Unread]]
  /\ UNCHANGED <<vars, treasury_wallet, wsol_vaults, wire>>

Exists(account, o, i) ==
  CASE account = "offer"       -> offer[o].state # "None"
    [] account = "subOffer"    -> sub_offer[o][i].state # "None"
    [] account = "globalState" -> TRUE

Fetched(account, view, o, i) ==
  CASE account = "offer"       -> [view EXCEPT !.count = offer[o].sub_offer_count]
    [] account = "subOffer"    -> [view EXCEPT !.mint = sub_offer[o][i].terms.mint,
                                               !.lender = sub_offer[o][i].lender]
    [] account = "globalState" -> [view EXCEPT !.treasury = treasury_wallet]

(* `fetch` of an account that is gone throws, outside the try: the call ends. *)
Fetch(u) ==
  LET c == call[u] IN
  /\ c # Idle /\ c.todo # <<>>
  /\ LET account == Head(c.todo) IN
     call' = [call EXCEPT ![u] =
                IF Exists(account, c.o, c.i)
                THEN [c EXCEPT !.todo = Tail(@),
                               !.view = Fetched(account, c.view, c.o, c.i)]
                ELSE Idle]
  /\ UNCHANGED <<vars, treasury_wallet, wsol_vaults, wire>>

(* Each attempt is a transaction of its own.                               *)
Send(u) ==
  LET c == call[u] IN
  /\ c # Idle /\ c.todo = <<>>
  /\ \E k \in Tries :
       /\ ~\E tx \in wire : tx.signer = u /\ tx.try = k
       /\ wire' = wire \cup {[signer |-> u, try |-> k, fn |-> c.fn, o |-> c.o,
                              i |-> c.i, args |-> c.args, view |-> c.view]}
  /\ call' = [call EXCEPT ![u] = Idle]
  /\ UNCHANGED <<vars, treasury_wallet, wsol_vaults>>

(* createLoanSubOffer derives the new account from the listing's count.    *)
CallCreateLoanSubOffer(o, t, d) ==
  Begin(o[1], "createLoanSubOffer", o, 0, [terms |-> t, duration |-> d], <<"offer">>)

(* The same with the borrower's staking account, which shows a level.      *)
CallCreateLoanSubOfferByStaking(o, t, d) ==
  Begin(o[1], "createLoanSubOfferByStaking", o, 0, [terms |-> t, duration |-> d],
        <<"offer", "globalState">>)

(* updateLoanSubOffer takes amount, duration and APR from its caller and   *)
(* keeps the currency it reads.                                            *)
CallUpdateLoanSubOffer(o, i, t, d) ==
  Begin(o[1], "updateLoanSubOffer", o, i, [terms |-> t, duration |-> d], <<"subOffer">>)

CallDeleteLoanSubOffer(o, i) ==
  Begin(o[1], "deleteLoanSubOffer", o, i, NoArgs, <<"subOffer">>)

(* acceptLoanOffer and acceptLoanOfferByVoting.                            *)
CallAcceptLoanOffer(l, o, i) ==
  Begin(l, "acceptLoanOffer", o, i, NoArgs, <<"subOffer", "offer", "globalState">>)

(* Faulty variant: repayLoan that does not fetch the sub-offer.            *)
CallRepayLoanWithoutSubOffer(o, i) ==
  Begin(o[1], "repayLoan", o, i, NoArgs, <<"globalState", "offer">>)

CallRepayLoan(o, i) ==
  Begin(o[1], "repayLoan", o, i, NoArgs, <<"globalState", "subOffer", "offer">>)

CallClaimLoanCollateral(l, o, i) ==
  Begin(l, "claimLoanCollateral", o, i, NoArgs, <<"globalState", "subOffer", "offer">>)

CallClaimExpiredCollateral(u, o, i) ==
  Begin(u, "claimExpiredCollateral", o, i, NoArgs, <<"globalState", "subOffer", "offer">>)

-----------------------------------------------------------------------------
(* Landing.  `view` was read some time ago: each instruction checks the    *)
(* accounts named from it against those on record.                         *)

(* The token accounts the client chose can be loaded.                      *)
OfferVaultsExist(tx) ==
  tx.view.mint = WSOL_MINT => tx.view.treasury \in wsol_vaults

LandCreateSubOffer(tx, level) ==
  /\ tx.view.count = offer[tx.o].sub_offer_count
  /\ CreateSubOffer(tx.o, level, tx.args.terms, tx.args.duration)

LandUpdateSubOffer(tx) ==
  UpdateSubOffer(tx.o, tx.i, [tx.args.terms EXCEPT !.mint = tx.view.mint], tx.args.duration)

(* Faulty variant: accept_offer without its constraint on offer_mint.      *)
LandAcceptOfferAnyMint(tx) ==
  OfferVaultsExist(tx) /\ AcceptOffer(tx.signer, tx.o, tx.i)

LandAcceptOffer(tx) ==
  /\ AcceptOffer(tx.signer, tx.o, tx.i)
  /\ OfferVaultsExist(tx)
  /\ sub_offer[tx.o][tx.i].terms.mint = tx.view.mint

LandRepayLoan(tx) ==
  /\ RepayLoan(tx.o, tx.i)
  /\ OfferVaultsExist(tx)
  /\ treasury_wallet = tx.view.treasury
  /\ sub_offer[tx.o][tx.i].lender = tx.view.lender
  /\ sub_offer[tx.o][tx.i].terms.mint = tx.view.mint

LandClaimCollateral(tx) ==
  /\ ClaimCollateral(tx.signer, tx.o, tx.i)
  /\ OfferVaultsExist(tx)
  /\ treasury_wallet = tx.view.treasury
  /\ sub_offer[tx.o][tx.i].terms.mint = tx.view.mint

LandClaimExpiredCollateral(tx) ==
  /\ global_state.super_owner = tx.signer
  /\ treasury_wallet = tx.view.treasury
  /\ ClaimExpiredCollateral(tx.o, tx.i)

Instruction(tx) ==
  \/ tx.fn = "createLoanSubOffer" /\ LandCreateSubOffer(tx, 0)
  \/ /\ tx.fn = "createLoanSubOfferByStaking"
     /\ \E level \in ProfileLevels : LandCreateSubOffer(tx, level)
  \/ tx.fn = "updateLoanSubOffer" /\ LandUpdateSubOffer(tx)
  \/ tx.fn = "deleteLoanSubOffer" /\ DeleteSubOffer(tx.o, tx.i)
  \/ tx.fn = "acceptLoanOffer" /\ LandAcceptOffer(tx)
  \/ tx.fn = "repayLoan" /\ LandRepayLoan(tx)
  \/ tx.fn = "claimLoanCollateral" /\ LandClaimCollateral(tx)
  \/ tx.fn = "claimExpiredCollateral" /\ LandClaimExpiredCollateral(tx)

Land(tx) ==
  /\ Instruction(tx)
  /\ wire' = wire \ {tx}
  /\ UNCHANGED <<treasury_wallet, wsol_vaults, call>>

(* A transaction expires, or lands and fails: nothing else changes.        *)
Lose(tx) ==
  /\ wire' = wire \ {tx}
  /\ UNCHANGED <<vars, treasury_wallet, wsol_vaults, call>>

-----------------------------------------------------------------------------
(* Functions that read no account of the program before they send are one  *)
(* step: createLoanOffer, deleteLoanOffer and updateLoanGlobalState.       *)

UpdateLoanGlobalState(u, d, w) ==
  /\ UpdateGlobalState(u, d)
  /\ treasury_wallet' = w
  /\ UNCHANGED <<wsol_vaults, call, wire>>

(* Somebody ends a SOL loan outside this instance naming token accounts of *)
(* their own: the instruction creates the present treasury's vault.        *)
OpenTreasuryVault ==
  /\ wsol_vaults' = wsol_vaults \cup {treasury_wallet}
  /\ UNCHANGED <<vars, treasury_wallet, call, wire>>

Direct ==
  /\ \/ \E b \in Borrowers, n \in NFTs : CreateOffer(b, n)
     \/ \E o \in OfferKeys : DeleteOffer(o)
     \/ \E n \in NFTs, u \in Users : WalletTransfer(n, u)
     \/ Tick
  /\ UNCHANGED clientVars

Call ==
  \/ \E o \in OfferKeys, t \in Terms, d \in Durations :
       \/ CallCreateLoanSubOffer(o, t, d)
       \/ CallCreateLoanSubOfferByStaking(o, t, d)
       \/ \E i \in SubNumbers : CallUpdateLoanSubOffer(o, i, t, d)
  \/ \E o \in OfferKeys, i \in SubNumbers :
       \/ CallDeleteLoanSubOffer(o, i)
       \/ CallRepayLoan(o, i)
       \/ \E l \in Lenders : CallAcceptLoanOffer(l, o, i) \/ CallClaimLoanCollateral(l, o, i)
       \/ \E u \in SuperOwners : CallClaimExpiredCollateral(u, o, i)

ClientNext ==
  \/ Call
  \/ \E u \in Users : Fetch(u) \/ Send(u)
  \/ \E tx \in wire : Land(tx) \/ Lose(tx)
  \/ \E u \in SuperOwners, d \in ExpireDurations, w \in TreasuryWallets :
       UpdateLoanGlobalState(u, d, w)
  \/ OpenTreasuryVault
  \/ Direct

ClientSpec == ClientInit /\ [][ClientNext]_allVars

-----------------------------------------------------------------------------
(* Properties.                                                             *)

OnLoan(o, i) == offer[o].state = "Accepted" /\ sub_offer[o][i].state = "Accepted"

(* acceptLoanOffer reads the currency, chooses the two token accounts by   *)
(* it and sends neither the amount nor the APR.  Whatever the borrower     *)
(* does to the sub-offer, or to the listing, between the read and the      *)
(* landing, the lender never lends in a currency other than the one read.  *)
LentInCurrencyRead ==
  [][\A tx \in wire :
       /\ tx.fn = "acceptLoanOffer" /\ tx \notin wire'
       /\ offer[tx.o].state # "Accepted" /\ offer'[tx.o].state = "Accepted"
       => /\ sub_offer'[tx.o][tx.i].lender = tx.signer
          /\ sub_offer'[tx.o][tx.i].terms.mint = tx.view.mint]_allVars

=============================================================================
