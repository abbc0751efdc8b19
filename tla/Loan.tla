-------------------------------- MODULE Loan --------------------------------
(***************************************************************************)
(* The life cycle of an NFT-backed loan in programs/unloc-loan: a borrower *)
(* lists an NFT (Offer), attaches alternative terms to it (SubOffer), one  *)
(* lender accepts a sub-offer, and the loan ends by repayment or by a      *)
(* claim of the collateral.                                                *)
(*                                                                         *)
(* A Solana transaction is atomic: a handler either commits all its writes *)
(* or none, so each handler is one action and a failed `require`, account  *)
(* constraint or CPI is a guard.  Interleaving is the order in which the   *)
(* transactions of independent signers land.                               *)
(*                                                                         *)
(* Accounts are keyed as the program derives them: an offer by (borrower,  *)
(* nft), a sub-offer by its offer and its number.  An account that does    *)
(* not exist is the record NoOffer or NoSubOffer.  Currency, amount and    *)
(* APR travel together as one opaque member of Terms.  Reward accounting   *)
(* and the fee amounts are not part of this module.                        *)
(***************************************************************************)
EXTENDS Naturals

CONSTANTS
  Borrowers, Lenders,           \* wallets that sign as borrower and as lender
  SuperOwners,                  \* wallets that may be GlobalState.super_owner
  NoUser,                       \* Pubkey::default(), the key nobody signs for
  NFTs,                         \* the mints offered as collateral
  Terms,                        \* (offer_mint, offer_amount, apr_numerator)
  Durations,                    \* values of loan_duration
  ExpireDurations,              \* values of GlobalState.expire_loan_duration
  ProfileLevels,                \* staking levels a borrower can prove
  DEFULT_SUB_OFFER_COUNT, SUB_OFFER_COUNT_PER_LEVEL,
  StartTime, MaxTime,           \* the clock runs over StartTime..MaxTime
  MaxSubOffers                  \* bound on Offer.sub_offer_count

Users == Borrowers \cup Lenders \cup SuperOwners

ASSUME LoanAssumption ==
  /\ NoUser \notin Users
  /\ Durations \subseteq Nat
  /\ ExpireDurations \subseteq Nat
  /\ ProfileLevels \subseteq Nat
  /\ DEFULT_SUB_OFFER_COUNT \in Nat
  /\ SUB_OFFER_COUNT_PER_LEVEL \in Nat
  /\ StartTime \in Nat \ {0}
  /\ MaxTime \in Nat
  /\ StartTime <= MaxTime
  /\ MaxSubOffers \in Nat

VARIABLES
  now,                   \* Clock.unix_timestamp
  global_state,          \* the GlobalState account
  nft,                   \* the token account that holds each NFT
  offer,                 \* Offer accounts
  sub_offer              \* SubOffer accounts

vars == <<now, global_state, nft, offer, sub_offer>>

SubNumbers == 0 .. MaxSubOffers - 1
OfferKeys == Borrowers \X NFTs

-----------------------------------------------------------------------------
(* Account layouts.                                                        *)

GlobalStateAccount ==
  [super_owner : SuperOwners, expire_loan_duration : ExpireDurations]

NoOffer == [state |-> "None", sub_offer_count |-> 0, deleted_sub_offer_count |-> 0]

OfferAccount ==
  [state : {"None", "Proposed", "Accepted", "NFTClaimed"},
   sub_offer_count : 0 .. MaxSubOffers,
   deleted_sub_offer_count : 0 .. MaxSubOffers]

NewSubOffer(t, d) ==
  [state |-> "Proposed", lender |-> NoUser, terms |-> t, loan_duration |-> d,
   loan_started_time |-> 0]

NoSubOffer == [state |-> "None"]

SubOfferAccount ==
  [state : {"Proposed", "Accepted", "NFTClaimed"},
   lender : Lenders \cup {NoUser},
   terms : Terms,
   loan_duration : Durations,
   loan_started_time : {0} \cup StartTime .. MaxTime]

(* The holder's token account.  Only a thawed account can send, approve or *)
(* revoke; a delegate is named by the borrower of the offer PDA it is.     *)
Vault(u) == [holder |-> u, frozen |-> FALSE, delegate |-> NoUser]
LockedVault(b) == [holder |-> b, frozen |-> TRUE, delegate |-> b]

VaultAccount ==
  [holder : Users, frozen : BOOLEAN, delegate : Borrowers \cup {NoUser}]

TypeOK ==
  /\ now \in StartTime .. MaxTime
  /\ global_state \in GlobalStateAccount
  /\ nft \in [NFTs -> VaultAccount]
  /\ offer \in [OfferKeys -> OfferAccount]
  /\ sub_offer \in [OfferKeys -> [SubNumbers -> SubOfferAccount \cup {NoSubOffer}]]

Init ==
  /\ now = StartTime
  /\ global_state \in GlobalStateAccount
  /\ nft \in [NFTs -> {Vault(b) : b \in Borrowers}]
  /\ offer = [o \in OfferKeys |-> NoOffer]
  /\ sub_offer = [o \in OfferKeys |-> [i \in SubNumbers |-> NoSubOffer]]

-----------------------------------------------------------------------------
(* Guards shared by the instructions.                                      *)

AvailableSubOffers(level) ==
  DEFULT_SUB_OFFER_COUNT + level * SUB_OFFER_COUNT_PER_LEVEL

(* Thawing needs the borrower's account, frozen by this listing's PDA.     *)
CanThaw(o) == nft[o[2]] = LockedVault(o[1])

Deadline(o, i) == sub_offer[o][i].loan_started_time + sub_offer[o][i].loan_duration

-----------------------------------------------------------------------------
(* Faulty variants of the instructions below.  No action uses them: each   *)
(* shows that a property tells the code from a plausible mistake.          *)

(* delete_sub_offer taking its number back from the running count *)
DeleteSubOfferUncounting(o, i) ==
  /\ offer[o].state # "None"
  /\ sub_offer[o][i].state \in {"Proposed", "NFTClaimed"}
  /\ sub_offer' = [sub_offer EXCEPT ![o][i] = NoSubOffer]
  /\ offer' = [offer EXCEPT ![o].sub_offer_count = @ - 1]
  /\ UNCHANGED <<now, global_state, nft>>

(* delete_sub_offer without its state constraint *)
DeleteSubOfferAnyState(o, i) ==
  /\ offer[o].state # "None"
  /\ sub_offer[o][i].state # "None"
  /\ sub_offer' = [sub_offer EXCEPT ![o][i] = NoSubOffer]
  /\ UNCHANGED <<now, global_state, nft, offer>>

(* update_sub_offer without its state constraint *)
UpdateSubOfferAnyState(o, i, t, d) ==
  /\ offer[o].state # "None"
  /\ sub_offer[o][i].state # "None"
  /\ sub_offer' = [sub_offer EXCEPT
                     ![o][i] = [@ EXCEPT !.terms = t, !.loan_duration = d]]
  /\ UNCHANGED <<now, global_state, nft, offer>>

(* delete_offer taking the branch without thaw for an open listing *)
DeleteOfferWithoutThaw(o) ==
  /\ offer[o].state \in {"Proposed", "NFTClaimed"}
  /\ offer' = [offer EXCEPT ![o] = NoOffer]
  /\ UNCHANGED <<now, global_state, nft, sub_offer>>

(* repay_loan refused after the deadline *)
RepayLoanInTime(o, i) ==
  /\ offer[o].state = "Accepted"
  /\ sub_offer[o][i].state = "Accepted"
  /\ now <= Deadline(o, i)
  /\ CanThaw(o)
  /\ nft' = [nft EXCEPT ![o[2]] = Vault(o[1])]
  /\ offer' = [offer EXCEPT ![o].state = "NFTClaimed"]
  /\ sub_offer' = [sub_offer EXCEPT ![o][i].state = "NFTClaimed"]
  /\ UNCHANGED <<now, global_state>>

(* accept_offer that opens the loan without recording the lender *)
AcceptOfferNoLender(l, o, i) ==
  /\ offer[o].state = "Proposed"
  /\ sub_offer[o][i].state # "None"
  /\ offer' = [offer EXCEPT ![o].state = "Accepted"]
  /\ sub_offer' = [sub_offer EXCEPT
                     ![o][i] = [@ EXCEPT !.state = "Accepted", !.loan_started_time = now]]
  /\ UNCHANGED <<now, global_state, nft>>

(* the transfer of a claim made without thawing the account first *)
TakeCollateralFrozen(o, i, taker) ==
  /\ CanThaw(o)
  /\ nft' = [nft EXCEPT ![o[2]].holder = taker]
  /\ offer' = [offer EXCEPT ![o].state = "NFTClaimed"]
  /\ sub_offer' = [sub_offer EXCEPT ![o][i].state = "NFTClaimed"]

(* a claim that closes the sub-offer and leaves the listing on loan *)
TakeCollateralKeepOffer(o, i, taker) ==
  /\ CanThaw(o)
  /\ nft' = [nft EXCEPT ![o[2]] = Vault(taker)]
  /\ sub_offer' = [sub_offer EXCEPT ![o][i].state = "NFTClaimed"]
  /\ UNCHANGED offer

(* claim_collateral at the deadline instead of after it *)
ClaimCollateralAtDeadline(l, o, i) ==
  /\ offer[o].state # "None"
  /\ sub_offer[o][i].state # "None"
  /\ sub_offer[o][i].lender = l
  /\ now >= Deadline(o, i)
  /\ CanThaw(o)
  /\ nft' = [nft EXCEPT ![o[2]] = Vault(l)]
  /\ offer' = [offer EXCEPT ![o].state = "NFTClaimed"]
  /\ sub_offer' = [sub_offer EXCEPT ![o][i].state = "NFTClaimed"]
  /\ UNCHANGED <<now, global_state>>

-----------------------------------------------------------------------------
(* Borrower instructions.                                                  *)

(* Lists an NFT: the listing's PDA becomes delegate of the borrower's token *)
(* account and freezes it.  Approving fails on an account already frozen.  *)
CreateOffer(b, n) ==
  LET o == <<b, n>> IN
  /\ offer[o].state = "None"
  /\ nft[n].holder = b
  /\ ~nft[n].frozen
  /\ offer' = [offer EXCEPT ![o] = [NoOffer EXCEPT !.state = "Proposed"]]
  /\ nft' = [nft EXCEPT ![n] = LockedVault(b)]
  /\ UNCHANGED <<now, global_state, sub_offer>>

(* The new account takes the listing's running count as its number.  The   *)
(* listing's state is not looked at; `init` fails if the account exists.   *)
CreateSubOffer(o, level, t, d) ==
  LET i == offer[o].sub_offer_count IN
  /\ offer[o].state # "None"
  /\ i < MaxSubOffers                                    \* model bound
  /\ i - offer[o].deleted_sub_offer_count < AvailableSubOffers(level)
  /\ sub_offer[o][i].state = "None"
  /\ offer' = [offer EXCEPT ![o].sub_offer_count = @ + 1]
  /\ sub_offer' = [sub_offer EXCEPT ![o][i] = NewSubOffer(t, d)]
  /\ UNCHANGED <<now, global_state, nft>>

UpdateSubOffer(o, i, t, d) ==
  /\ offer[o].state # "None"
  /\ sub_offer[o][i].state = "Proposed"
  /\ sub_offer' = [sub_offer EXCEPT
                     ![o][i] = [@ EXCEPT !.terms = t, !.loan_duration = d]]
  /\ UNCHANGED <<now, global_state, nft, offer>>

(* Closes the account.  The handler computes deleted_sub_offer_count + 1   *)
(* and drops the result, so the listing itself is unchanged.               *)
DeleteSubOffer(o, i) ==
  /\ offer[o].state # "None"
  /\ sub_offer[o][i].state \in {"Proposed", "NFTClaimed"}
  /\ sub_offer' = [sub_offer EXCEPT ![o][i] = NoSubOffer]
  /\ UNCHANGED <<now, global_state, nft, offer>>

(* Closes the listing; its sub-offer accounts stay behind.                 *)
DeleteOffer(o) ==
  /\ \/ /\ offer[o].state = "Proposed"
        /\ CanThaw(o)
        /\ nft' = [nft EXCEPT ![o[2]] = Vault(o[1])]
     \/ /\ offer[o].state = "NFTClaimed"
        /\ UNCHANGED nft
  /\ offer' = [offer EXCEPT ![o] = NoOffer]
  /\ UNCHANGED <<now, global_state, sub_offer>>

(* Repayment by the borrower, at any time while the loan is open.          *)
RepayLoan(o, i) ==
  /\ offer[o].state = "Accepted"
  /\ sub_offer[o][i].state = "Accepted"
  /\ CanThaw(o)
  /\ nft' = [nft EXCEPT ![o[2]] = Vault(o[1])]
  /\ offer' = [offer EXCEPT ![o].state = "NFTClaimed"]
  /\ sub_offer' = [sub_offer EXCEPT ![o][i].state = "NFTClaimed"]
  /\ UNCHANGED <<now, global_state>>

-----------------------------------------------------------------------------
(* Lender and administrator instructions.                                  *)

(* The listing must be open; of the sub-offer only state # Canceled is     *)
(* asked, a state no handler ever writes.                                  *)
AcceptOffer(l, o, i) ==
  /\ offer[o].state = "Proposed"
  /\ sub_offer[o][i].state # "None"
  /\ offer' = [offer EXCEPT ![o].state = "Accepted"]
  /\ sub_offer' = [sub_offer EXCEPT
                     ![o][i] = [@ EXCEPT !.state = "Accepted", !.lender = l,
                                         !.loan_started_time = now]]
  /\ UNCHANGED <<now, global_state, nft>>

(* Moves the collateral out of the borrower's account with the listing's   *)
(* signature.  Neither account's state is looked at.                       *)
TakeCollateral(o, i, taker) ==
  /\ CanThaw(o)
  /\ nft' = [nft EXCEPT ![o[2]] = Vault(taker)]
  /\ offer' = [offer EXCEPT ![o].state = "NFTClaimed"]
  /\ sub_offer' = [sub_offer EXCEPT ![o][i].state = "NFTClaimed"]

ClaimCollateral(l, o, i) ==
  /\ offer[o].state # "None"
  /\ sub_offer[o][i].state # "None"
  /\ sub_offer[o][i].lender = l
  /\ now > Deadline(o, i)
  /\ TakeCollateral(o, i, l)
  /\ UNCHANGED <<now, global_state>>

(* Of a sub-offer never accepted the start is 0, so its time is long up.   *)
ClaimExpiredCollateral(o, i) ==
  /\ offer[o].state # "None"
  /\ sub_offer[o][i].state # "None"
  /\ now > Deadline(o, i) + global_state.expire_loan_duration
  /\ TakeCollateral(o, i, global_state.super_owner)
  /\ UNCHANGED <<now, global_state>>

UpdateGlobalState(u, d) ==
  /\ global_state' = [super_owner |-> u, expire_loan_duration |-> d]
  /\ UNCHANGED <<now, nft, offer, sub_offer>>

-----------------------------------------------------------------------------
(* The environment: wallets moving NFTs by themselves, and the clock.      *)

WalletTransfer(n, u) ==
  /\ ~nft[n].frozen
  /\ nft' = [nft EXCEPT ![n] = Vault(u)]
  /\ UNCHANGED <<now, global_state, offer, sub_offer>>

Tick ==
  /\ now < MaxTime
  /\ now' = now + 1
  /\ UNCHANGED <<global_state, nft, offer, sub_offer>>

Next ==
  \/ \E b \in Borrowers, n \in NFTs : CreateOffer(b, n)
  \/ \E o \in OfferKeys, level \in ProfileLevels, t \in Terms, d \in Durations :
       CreateSubOffer(o, level, t, d)
  \/ \E o \in OfferKeys, i \in SubNumbers, t \in Terms, d \in Durations :
       UpdateSubOffer(o, i, t, d)
  \/ \E o \in OfferKeys, i \in SubNumbers : DeleteSubOffer(o, i)
  \/ \E o \in OfferKeys : DeleteOffer(o)
  \/ \E o \in OfferKeys, i \in SubNumbers : RepayLoan(o, i)
  \/ \E l \in Lenders, o \in OfferKeys, i \in SubNumbers : AcceptOffer(l, o, i)
  \/ \E l \in Lenders, o \in OfferKeys, i \in SubNumbers : ClaimCollateral(l, o, i)
  \/ \E o \in OfferKeys, i \in SubNumbers : ClaimExpiredCollateral(o, i)
  \/ \E u \in SuperOwners, d \in ExpireDurations : UpdateGlobalState(u, d)
  \/ \E n \in NFTs, u \in Users : WalletTransfer(n, u)
  \/ Tick

Spec == Init /\ [][Next]_vars

-----------------------------------------------------------------------------
(* Properties.                                                             *)

Live(o) == offer[o].state \in {"Proposed", "Accepted"}

(* Custody: an NFT is frozen under a listing exactly as long as that       *)
(* listing is open or on loan, and then it is in the borrower's account.   *)
(* An open listing without its collateral could be accepted for money and  *)
(* a frozen NFT without an open listing could never be thawed again.       *)
Custody ==
  \A b \in Borrowers, n \in NFTs :
    /\ Live(<<b, n>>) => nft[n] = LockedVault(b)
    /\ nft[n].frozen /\ nft[n].delegate = b => Live(<<b, n>>)

(* A frozen NFT is frozen for the borrower who holds it, so that somebody  *)
(* can thaw it: no sequence of instructions strands it.                    *)
FrozenForItsHolder ==
  \A n \in NFTs : nft[n].frozen => nft[n] = LockedVault(nft[n].holder)

(* A listing that is on loan has an accepted sub-offer with a lender and a *)
(* start time: RepayLoan and ClaimCollateral always find a loan to close.  *)
OnLoanHasLender ==
  \A o \in OfferKeys :
    offer[o].state = "Accepted" =>
      \E i \in SubNumbers :
        /\ sub_offer[o][i].state = "Accepted"
        /\ sub_offer[o][i].lender \in Lenders
        /\ sub_offer[o][i].loan_started_time \in StartTime .. now

(* The terms, the lender and the start time of a running loan never        *)
(* change, whatever the borrower does to the listing's other sub-offers.   *)
TermsFixedWhileOnLoan ==
  [][\A o \in OfferKeys, i \in SubNumbers :
       /\ offer[o].state = "Accepted" /\ offer'[o].state = "Accepted"
       /\ sub_offer[o][i].state = "Accepted"
       => sub_offer'[o][i] = sub_offer[o][i]]_vars

(* A funded sub-offer leaves its Accepted state only in the step that      *)
(* thaws the collateral and closes the listing: no loan is forgotten while *)
(* the NFT stays frozen.                                                   *)
LoanClosesWithCollateral ==
  [][\A o \in OfferKeys, i \in SubNumbers :
       sub_offer[o][i].state = "Accepted" /\ sub_offer'[o][i].state # "Accepted"
       => /\ nft[o[2]].frozen /\ ~nft'[o[2]].frozen
          /\ offer'[o].state = "NFTClaimed"]_vars

(* A lender waits: whoever takes a frozen NFT, the owner aside, funded a   *)
(* sub-offer of that very listing, and more than the duration of that      *)
(* sub-offer has passed since.  What the owner may take is the matter of   *)
(* OwnerTakesOnlyExpiredLoans.                                             *)
LendersWaitForDeadline ==
  [][\A n \in NFTs :
       nft[n].frozen /\ nft'[n].holder # nft[n].holder
                    /\ nft'[n].holder # global_state.super_owner =>
         \E i \in SubNumbers :
           LET o == <<nft[n].holder, n>> IN
           /\ sub_offer[o][i].state # "None"
           /\ sub_offer[o][i].lender = nft'[n].holder
           /\ sub_offer[o][i].loan_started_time \in StartTime .. now
           /\ now > Deadline(o, i)]_vars

(* README, Scenario 2: "After the set deadline expires, if the loan is not *)
(* repaid, the Borrower defaults", and only then may the lender claim or,  *)
(* when the lender does not, the platform.  The owner takes the NFT of an  *)
(* unpaid loan, past its deadline and the grace period.                    *)
OwnerTakesOnlyExpiredLoans ==
  [][\A n \in NFTs :
       nft[n].frozen /\ nft'[n].holder # nft[n].holder
                    /\ nft'[n].holder = global_state.super_owner =>
         \E i \in SubNumbers :
           LET o == <<nft[n].holder, n>> IN
           /\ offer[o].state = "Accepted"
           /\ sub_offer[o][i].state = "Accepted"
           /\ now > Deadline(o, i) + global_state.expire_loan_duration]_vars

(* README, Scenario 2: the lender can claim the collateral when, after the *)
(* deadline, "the loan is not repaid".  A lender who takes an NFT holds an *)
(* open, unpaid, overdue loan on it.                                       *)
LenderTakesOnlyUnpaidCollateral ==
  [][\A n \in NFTs :
       nft[n].frozen /\ nft'[n].holder # nft[n].holder
                    /\ nft'[n].holder # global_state.super_owner =>
         \E i \in SubNumbers :
           LET o == <<nft[n].holder, n>> IN
           /\ offer[o].state = "Accepted"
           /\ sub_offer[o][i].state = "Accepted"
           /\ sub_offer[o][i].lender = nft'[n].holder
           /\ now > Deadline(o, i)]_vars

(* create_sub_offer grants a place by sub_offer_count minus                *)
(* deleted_sub_offer_count: deleting a sub-offer of the present listing    *)
(* gives its place back.                                                   *)
DeletionFreesPlace ==
  [][\A o \in OfferKeys, i \in SubNumbers :
       /\ i < offer[o].sub_offer_count
       /\ sub_offer[o][i].state # "None" /\ sub_offer'[o][i].state = "None"
       => offer'[o].deleted_sub_offer_count = offer[o].deleted_sub_offer_count + 1]_vars

-----------------------------------------------------------------------------
(* Refinement: an NFT is pledged by the borrower whose listing is open or  *)
(* on loan.  The mapping reads the Offer accounts, so that the promise     *)
(* relates them to the token accounts.                                     *)

PledgerOf(n) ==
  IF \E b \in Borrowers : Live(<<b, n>>)
  THEN CHOOSE b \in Borrowers : Live(<<b, n>>)
  ELSE NoUser

E == INSTANCE Escrow WITH
       Holders <- Users, Pledgers <- Borrowers, Items <- NFTs, Nobody <- NoUser,
       holder <- [n \in NFTs |-> nft[n].holder],
       pledger <- [n \in NFTs |-> PledgerOf(n)]

(* Every behaviour of the loan program is a behaviour of the escrow.       *)
EscrowSpec == E!Spec
=============================================================================
