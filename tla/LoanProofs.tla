----------------------------- MODULE LoanProofs -----------------------------
(***************************************************************************)
(* Proofs about Loan, for every set of wallets, NFTs and terms and every   *)
(* bound.  IInv is inductive: custody of the NFT needs to know that a      *)
(* frozen account is frozen for its holder, the open loan needs the types  *)
(* of the accounts, and a lender's wait needs LendersHaveStarted: whoever  *)
(* is on record as lender started the clock of that sub-offer.  The last   *)
(* section lets the client work on the program: CIInv says what a call has *)
(* read and what is on the wire.                                           *)
(***************************************************************************)
EXTENDS LoanClient, TLAPS

LendersHaveStarted ==
  \A o \in OfferKeys, i \in SubNumbers :
    sub_offer[o][i].state # "None" /\ sub_offer[o][i].lender # NoUser =>
      sub_offer[o][i].loan_started_time \in StartTime .. now

IInv ==
  TypeOK /\ Custody /\ FrozenForItsHolder /\ OnLoanHasLender /\ LendersHaveStarted

-----------------------------------------------------------------------------
(* Every action keeps the accounts within their layouts.                   *)
LEMMA VaultTypes ==
  /\ \A u \in Users : Vault(u) \in VaultAccount
  /\ \A b \in Borrowers : LockedVault(b) \in VaultAccount
  BY DEF Vault, LockedVault, VaultAccount, Users

LEMMA TypeInit == Init => TypeOK
<1> SUFFICES ASSUME Init PROVE TypeOK
  OBVIOUS
<1>1. now \in StartTime .. MaxTime
  BY LoanAssumption DEF Init
<1>2. nft \in [NFTs -> VaultAccount]
  <2>1. \A b \in Borrowers : Vault(b) \in VaultAccount
    BY VaultTypes DEF Users
  <2>2. QED
    BY <2>1 DEF Init
<1>3. NoOffer \in OfferAccount
  BY LoanAssumption DEF NoOffer, OfferAccount
<1>4. QED
  BY <1>1, <1>2, <1>3 DEF Init, TypeOK

(* Updating one account by an account of its type keeps the map typed.     *)
LEMMA SubOfferUpdate ==
  ASSUME TypeOK, NEW o \in OfferKeys, NEW i \in SubNumbers,
         NEW s \in SubOfferAccount \cup {NoSubOffer}
  PROVE  [sub_offer EXCEPT ![o][i] = s]
           \in [OfferKeys -> [SubNumbers -> SubOfferAccount \cup {NoSubOffer}]]
  BY DEF TypeOK

LEMMA SubOfferExists ==
  ASSUME TypeOK, NEW o \in OfferKeys, NEW i \in SubNumbers,
         sub_offer[o][i].state # "None"
  PROVE  sub_offer[o][i] \in SubOfferAccount
  BY DEF TypeOK, NoSubOffer

LEMMA OfferTypes ==
  /\ NoOffer \in OfferAccount
  /\ \A x \in OfferAccount, s \in {"None", "Proposed", "Accepted", "NFTClaimed"} :
       [x EXCEPT !.state = s] \in OfferAccount
  BY LoanAssumption DEF NoOffer, OfferAccount

LEMMA SubOfferTypes ==
  ASSUME NEW s \in SubOfferAccount
  PROVE  /\ [s EXCEPT !.state = "NFTClaimed"] \in SubOfferAccount
         /\ \A l \in Lenders, t \in StartTime .. MaxTime :
              [s EXCEPT !.state = "Accepted", !.lender = l,
                        !.loan_started_time = t] \in SubOfferAccount
         /\ \A t \in Terms, d \in Durations :
              [s EXCEPT !.terms = t, !.loan_duration = d] \in SubOfferAccount
  BY DEF SubOfferAccount

(* The two wallets a claim can pay the collateral to.                      *)
LEMMA TakerIsUser == TypeOK => /\ Lenders \subseteq Users
                               /\ global_state.super_owner \in Users
  BY DEF TypeOK, GlobalStateAccount, Users

LEMMA TypeStep == TypeOK /\ [Next]_vars => TypeOK'
<1> SUFFICES ASSUME TypeOK, [Next]_vars PROVE TypeOK'
  OBVIOUS
<1> USE LoanAssumption, VaultTypes, OfferTypes DEF TypeOK
<1>1. ASSUME NEW b \in Borrowers, NEW n \in NFTs, CreateOffer(b, n)
      PROVE  TypeOK'
  BY <1>1 DEF CreateOffer, OfferKeys
<1>2. ASSUME NEW o \in OfferKeys, NEW level \in ProfileLevels,
             NEW t \in Terms, NEW d \in Durations, CreateSubOffer(o, level, t, d)
      PROVE  TypeOK'
  <2> DEFINE i == offer[o].sub_offer_count
  <2>1. i \in SubNumbers
    BY <1>2 DEF CreateSubOffer, OfferAccount, SubNumbers
  <2>2. NewSubOffer(t, d) \in SubOfferAccount
    BY DEF NewSubOffer, SubOfferAccount
  <2>3. [offer[o] EXCEPT !.sub_offer_count = @ + 1] \in OfferAccount
    <3>1. offer[o] \in OfferAccount /\ i < MaxSubOffers
      BY <1>2 DEF CreateSubOffer
    <3>2. i + 1 \in 0 .. MaxSubOffers
      BY <3>1 DEF OfferAccount
    <3>3. QED
      BY <3>1, <3>2 DEF OfferAccount
  <2>4. offer' \in [OfferKeys -> OfferAccount]
    BY <1>2, <2>3 DEF CreateSubOffer
  <2>5. QED
    BY <1>2, <2>1, <2>2, <2>4, SubOfferUpdate DEF CreateSubOffer
<1>3. ASSUME NEW o \in OfferKeys, NEW i \in SubNumbers,
             NEW t \in Terms, NEW d \in Durations, UpdateSubOffer(o, i, t, d)
      PROVE  TypeOK'
  <2>1. [sub_offer[o][i] EXCEPT !.terms = t, !.loan_duration = d] \in SubOfferAccount
    BY <1>3, SubOfferExists, SubOfferTypes DEF UpdateSubOffer
  <2>2. QED
    BY <1>3, <2>1, SubOfferUpdate DEF UpdateSubOffer
<1>4. ASSUME NEW o \in OfferKeys, NEW i \in SubNumbers, DeleteSubOffer(o, i)
      PROVE  TypeOK'
  BY <1>4 DEF DeleteSubOffer
<1>5. ASSUME NEW o \in OfferKeys, DeleteOffer(o)
      PROVE  TypeOK'
  <2>1. offer' \in [OfferKeys -> OfferAccount]
    BY <1>5 DEF DeleteOffer
  <2>2. o[1] \in Users
    BY DEF OfferKeys, Users
  <2>3. nft' \in [NFTs -> VaultAccount]
    BY <1>5, <2>2 DEF DeleteOffer
  <2>4. QED
    BY <1>5, <2>1, <2>3 DEF DeleteOffer
<1>6. ASSUME NEW o \in OfferKeys, NEW i \in SubNumbers, RepayLoan(o, i)
      PROVE  TypeOK'
  <2>1. [sub_offer[o][i] EXCEPT !.state = "NFTClaimed"] \in SubOfferAccount
    BY <1>6, SubOfferExists, SubOfferTypes DEF RepayLoan
  <2>2. nft' \in [NFTs -> VaultAccount]
    BY <1>6 DEF RepayLoan, OfferKeys, Users
  <2>3. offer' \in [OfferKeys -> OfferAccount]
    BY <1>6 DEF RepayLoan
  <2>4. sub_offer' = [sub_offer EXCEPT
                        ![o][i] = [sub_offer[o][i] EXCEPT !.state = "NFTClaimed"]]
    BY <1>6 DEF RepayLoan
  <2>5. UNCHANGED <<now, global_state>>
    BY <1>6 DEF RepayLoan
  <2>6. QED
    BY <2>1, <2>2, <2>3, <2>4, <2>5, SubOfferUpdate
<1>7. ASSUME NEW l \in Lenders, NEW o \in OfferKeys, NEW i \in SubNumbers,
             AcceptOffer(l, o, i)
      PROVE  TypeOK'
  <2>1. [sub_offer[o][i] EXCEPT !.state = "Accepted", !.lender = l,
                                !.loan_started_time = now] \in SubOfferAccount
    BY <1>7, SubOfferExists, SubOfferTypes DEF AcceptOffer
  <2>2. offer' \in [OfferKeys -> OfferAccount]
    BY <1>7 DEF AcceptOffer
  <2>3. QED
    BY <1>7, <2>1, <2>2, SubOfferUpdate DEF AcceptOffer
<1>8. ASSUME NEW taker \in Users, NEW o \in OfferKeys, NEW i \in SubNumbers,
             sub_offer[o][i].state # "None", TakeCollateral(o, i, taker),
             UNCHANGED <<now, global_state>>
      PROVE  TypeOK'
  <2>1. [sub_offer[o][i] EXCEPT !.state = "NFTClaimed"] \in SubOfferAccount
    BY <1>8, SubOfferExists, SubOfferTypes
  <2>2. nft' \in [NFTs -> VaultAccount]
    BY <1>8 DEF TakeCollateral
  <2>3. offer' \in [OfferKeys -> OfferAccount]
    BY <1>8 DEF TakeCollateral
  <2>4. sub_offer' = [sub_offer EXCEPT
                        ![o][i] = [sub_offer[o][i] EXCEPT !.state = "NFTClaimed"]]
    BY <1>8 DEF TakeCollateral
  <2>5. QED
    BY <1>8, <2>1, <2>2, <2>3, <2>4, SubOfferUpdate
<1>9. ASSUME NEW u \in SuperOwners, NEW d \in ExpireDurations, UpdateGlobalState(u, d)
      PROVE  TypeOK'
  BY <1>9 DEF UpdateGlobalState, GlobalStateAccount
<1>10. ASSUME NEW n \in NFTs, NEW u \in Users, WalletTransfer(n, u)
       PROVE  TypeOK'
  BY <1>10 DEF WalletTransfer
<1>11. CASE Tick
  BY <1>11 DEF Tick
<1>12. CASE UNCHANGED vars
  BY <1>12 DEF vars
<1>13. QED
  BY <1>1, <1>2, <1>3, <1>4, <1>5, <1>6, <1>7, <1>8, <1>9, <1>10, <1>11, <1>12,
     TakerIsUser
  DEF Next, ClaimCollateral, ClaimExpiredCollateral

-----------------------------------------------------------------------------
(* Custody.  A transaction either leaves both the token accounts and the   *)
(* set of live listings alone, or ends the listing that froze the NFT.     *)
LEMMA VaultFields ==
  /\ \A u : Vault(u).frozen = FALSE /\ Vault(u).holder = u
  /\ \A b : /\ LockedVault(b).frozen = TRUE
            /\ LockedVault(b).holder = b
            /\ LockedVault(b).delegate = b
  BY DEF Vault, LockedVault

LEMMA CustodyUntouched ==
  ASSUME Custody, FrozenForItsHolder, UNCHANGED nft,
         \A o \in OfferKeys : Live(o)' <=> Live(o)
  PROVE  Custody' /\ FrozenForItsHolder'
  BY VaultFields DEF Custody, FrozenForItsHolder, OfferKeys

LEMMA CustodyThawed ==
  ASSUME IInv, NEW o \in OfferKeys, NEW u \in Users, CanThaw(o), ~Live(o)',
         nft' = [nft EXCEPT ![o[2]] = Vault(u)],
         \A p \in OfferKeys : p # o => (Live(p)' <=> Live(p))
  PROVE  Custody' /\ FrozenForItsHolder'
<1>1. PICK b \in Borrowers, n \in NFTs : o = <<b, n>>
  BY DEF OfferKeys
<1>2. nft[n] = LockedVault(b) /\ nft'[n] = Vault(u)
  BY <1>1 DEF CanThaw, IInv, TypeOK
<1>3. \A m \in NFTs : m # n => nft'[m] = nft[m]
  BY <1>1 DEF IInv, TypeOK
<1>4. \A c \in Borrowers : ~Live(<<c, n>>)'
  <2>1. ASSUME NEW c \in Borrowers, c # b PROVE ~Live(<<c, n>>)
    BY <1>2, <2>1, VaultFields DEF IInv, Custody
  <2>2. QED
    BY <1>1, <2>1 DEF OfferKeys
<1>5. ~nft'[n].frozen
  BY <1>2, VaultFields
<1>6. Custody'
  <2> SUFFICES ASSUME NEW c \in Borrowers, NEW m \in NFTs
               PROVE  /\ Live(<<c, m>>)' => nft'[m] = LockedVault(c)
                      /\ nft'[m].frozen /\ nft'[m].delegate = c => Live(<<c, m>>)'
    BY VaultFields DEF Custody
  <2>1. CASE m = n
    BY <1>4, <1>5, <2>1
  <2>2. CASE m # n
    BY <1>1, <1>3, <2>2 DEF OfferKeys, IInv, Custody
  <2>3. QED
    BY <2>1, <2>2
<1>7. FrozenForItsHolder'
  BY <1>3, <1>5, VaultFields DEF FrozenForItsHolder, IInv
<1>8. QED
  BY <1>6, <1>7

LEMMA CustodyLocked ==
  ASSUME IInv, NEW b \in Borrowers, NEW n \in NFTs, CreateOffer(b, n)
  PROVE  Custody' /\ FrozenForItsHolder'
<1>1. /\ nft'[n] = LockedVault(b)
      /\ \A m \in NFTs : m # n => nft'[m] = nft[m]
  BY DEF CreateOffer, IInv, TypeOK
<1>2. \A p \in OfferKeys : p # <<b, n>> => (Live(p)' <=> Live(p))
  BY DEF CreateOffer, IInv, TypeOK, Live
<1>3. Live(<<b, n>>)'
  BY DEF CreateOffer, IInv, TypeOK, Live, OfferKeys, NoOffer
<1>4. \A c \in Borrowers : ~Live(<<c, n>>)
  BY VaultFields DEF CreateOffer, IInv, Custody
<1>5. Custody'
  <2> SUFFICES ASSUME NEW c \in Borrowers, NEW m \in NFTs
               PROVE  /\ Live(<<c, m>>)' => nft'[m] = LockedVault(c)
                      /\ nft'[m].frozen /\ nft'[m].delegate = c => Live(<<c, m>>)'
    BY VaultFields DEF Custody
  <2>1. CASE m = n
    BY <1>1, <1>2, <1>3, <1>4, <2>1, VaultFields DEF OfferKeys
  <2>2. CASE m # n
    BY <1>1, <1>2, <2>2 DEF OfferKeys, IInv, Custody
  <2>3. QED
    BY <2>1, <2>2
<1>6. FrozenForItsHolder'
  BY <1>1, VaultFields DEF FrozenForItsHolder, IInv
<1>7. QED
  BY <1>5, <1>6

LEMMA CustodyStep == IInv /\ [Next]_vars => Custody' /\ FrozenForItsHolder'
<1> SUFFICES ASSUME IInv, [Next]_vars PROVE Custody' /\ FrozenForItsHolder'
  OBVIOUS
<1> USE DEF IInv, TypeOK
<1>1. ASSUME NEW b \in Borrowers, NEW n \in NFTs, CreateOffer(b, n)
      PROVE  Custody' /\ FrozenForItsHolder'
  BY <1>1, CustodyLocked
<1>2. ASSUME NEW o \in OfferKeys, NEW level \in ProfileLevels,
             NEW t \in Terms, NEW d \in Durations, CreateSubOffer(o, level, t, d)
      PROVE  Custody' /\ FrozenForItsHolder'
  BY <1>2, CustodyUntouched DEF CreateSubOffer, Live
<1>3. ASSUME NEW o \in OfferKeys, NEW i \in SubNumbers,
             NEW t \in Terms, NEW d \in Durations, UpdateSubOffer(o, i, t, d)
      PROVE  Custody' /\ FrozenForItsHolder'
  BY <1>3, CustodyUntouched DEF UpdateSubOffer, Live
<1>4. ASSUME NEW o \in OfferKeys, NEW i \in SubNumbers, DeleteSubOffer(o, i)
      PROVE  Custody' /\ FrozenForItsHolder'
  BY <1>4, CustodyUntouched DEF DeleteSubOffer, Live
<1>5. ASSUME NEW o \in OfferKeys, DeleteOffer(o)
      PROVE  Custody' /\ FrozenForItsHolder'
  <2>1. /\ ~Live(o)'
        /\ \A p \in OfferKeys : p # o => (Live(p)' <=> Live(p))
    BY <1>5 DEF DeleteOffer, Live, NoOffer
  <2>2. CASE offer[o].state = "Proposed"
    <3>1. o[1] \in Users
      BY DEF OfferKeys, Users
    <3>2. CanThaw(o) /\ nft' = [nft EXCEPT ![o[2]] = Vault(o[1])]
      BY <1>5, <2>2 DEF DeleteOffer
    <3>3. QED
      BY <2>1, <3>1, <3>2, CustodyThawed
  <2>3. CASE offer[o].state = "NFTClaimed"
    BY <1>5, <2>1, <2>3, CustodyUntouched DEF DeleteOffer, Live
  <2>4. QED
    BY <1>5, <2>2, <2>3 DEF DeleteOffer
<1>6. ASSUME NEW o \in OfferKeys, NEW i \in SubNumbers, RepayLoan(o, i)
      PROVE  Custody' /\ FrozenForItsHolder'
  <2>1. /\ ~Live(o)'
        /\ \A p \in OfferKeys : p # o => (Live(p)' <=> Live(p))
    BY <1>6 DEF RepayLoan, Live
  <2>2. o[1] \in Users
    BY DEF OfferKeys, Users
  <2>3. CanThaw(o) /\ nft' = [nft EXCEPT ![o[2]] = Vault(o[1])]
    BY <1>6 DEF RepayLoan
  <2>4. QED
    BY <2>1, <2>2, <2>3, CustodyThawed
<1>7. ASSUME NEW l \in Lenders, NEW o \in OfferKeys, NEW i \in SubNumbers,
             AcceptOffer(l, o, i)
      PROVE  Custody' /\ FrozenForItsHolder'
  BY <1>7, CustodyUntouched DEF AcceptOffer, Live
<1>8. ASSUME NEW taker \in Users, NEW o \in OfferKeys, NEW i \in SubNumbers,
             TakeCollateral(o, i, taker)
      PROVE  Custody' /\ FrozenForItsHolder'
  <2>1. /\ ~Live(o)'
        /\ \A p \in OfferKeys : p # o => (Live(p)' <=> Live(p))
    BY <1>8 DEF TakeCollateral, Live
  <2>2. CanThaw(o) /\ nft' = [nft EXCEPT ![o[2]] = Vault(taker)]
    BY <1>8 DEF TakeCollateral
  <2>3. QED
    BY <2>1, <2>2, CustodyThawed
<1>9. ASSUME NEW u \in SuperOwners, NEW d \in ExpireDurations, UpdateGlobalState(u, d)
      PROVE  Custody' /\ FrozenForItsHolder'
  BY <1>9, CustodyUntouched DEF UpdateGlobalState, Live
<1>10. ASSUME NEW n \in NFTs, NEW u \in Users, WalletTransfer(n, u)
       PROVE  Custody' /\ FrozenForItsHolder'
  <2>1. /\ ~nft[n].frozen /\ ~nft'[n].frozen
        /\ \A m \in NFTs : m # n => nft'[m] = nft[m]
        /\ \A p \in OfferKeys : Live(p)' <=> Live(p)
    BY <1>10, VaultFields DEF WalletTransfer, Live
  <2>2. \A c \in Borrowers : ~Live(<<c, n>>)
    BY <2>1, VaultFields DEF Custody
  <2>3. Custody'
    <3> SUFFICES ASSUME NEW c \in Borrowers, NEW m \in NFTs
                 PROVE  /\ Live(<<c, m>>)' => nft'[m] = LockedVault(c)
                        /\ nft'[m].frozen /\ nft'[m].delegate = c => Live(<<c, m>>)'
      BY VaultFields DEF Custody
    <3>1. CASE m = n
      BY <2>1, <2>2, <3>1 DEF OfferKeys
    <3>2. CASE m # n
      BY <2>1, <3>2 DEF OfferKeys, Custody
    <3>3. QED
      BY <3>1, <3>2
  <2>4. FrozenForItsHolder'
    BY <2>1, VaultFields DEF FrozenForItsHolder
  <2>5. QED
    BY <2>3, <2>4
<1>11. CASE Tick
  BY <1>11, CustodyUntouched DEF Tick, Live
<1>12. CASE UNCHANGED vars
  BY <1>12, CustodyUntouched DEF vars, Live
<1>13. QED
  BY <1>1, <1>2, <1>3, <1>4, <1>5, <1>6, <1>7, <1>8, <1>9, <1>10, <1>11, <1>12,
     TakerIsUser
  DEF Next, ClaimCollateral, ClaimExpiredCollateral

-----------------------------------------------------------------------------
(* The open loan.  Besides accept_offer, a transaction that leaves a       *)
(* listing on loan leaves its accepted sub-offers as they are.             *)
LEMMA LoanUntouched ==
  ASSUME IInv, now <= now', now' \in Nat,
         \A o \in OfferKeys : offer'[o].state = "Accepted" =>
           /\ offer[o].state = "Accepted"
           /\ \A i \in SubNumbers :
                sub_offer[o][i].state = "Accepted" => sub_offer'[o][i] = sub_offer[o][i]
  PROVE  OnLoanHasLender'
<1> SUFFICES ASSUME NEW o \in OfferKeys, offer'[o].state = "Accepted"
             PROVE  \E i \in SubNumbers :
                      /\ sub_offer'[o][i].state = "Accepted"
                      /\ sub_offer'[o][i].lender \in Lenders
                      /\ sub_offer'[o][i].loan_started_time \in StartTime .. now'
  BY DEF OnLoanHasLender
<1>1. PICK i \in SubNumbers :
        /\ sub_offer[o][i].state = "Accepted"
        /\ sub_offer[o][i].lender \in Lenders
        /\ sub_offer[o][i].loan_started_time \in StartTime .. now
  BY DEF IInv, OnLoanHasLender
<1>2. sub_offer'[o][i].loan_started_time \in StartTime .. now'
  BY <1>1, LoanAssumption DEF IInv, TypeOK
<1>3. QED
  BY <1>1, <1>2

LEMMA OnLoanStep == IInv /\ [Next]_vars => OnLoanHasLender'
<1> SUFFICES ASSUME IInv, [Next]_vars PROVE OnLoanHasLender'
  OBVIOUS
<1> USE LoanAssumption DEF IInv, TypeOK
<1>0. now \in Nat
  OBVIOUS
<1>1. ASSUME NEW b \in Borrowers, NEW n \in NFTs, CreateOffer(b, n)
      PROVE  OnLoanHasLender'
  BY <1>0, <1>1, LoanUntouched DEF CreateOffer, NoOffer, OfferKeys
<1>2. ASSUME NEW o \in OfferKeys, NEW level \in ProfileLevels,
             NEW t \in Terms, NEW d \in Durations, CreateSubOffer(o, level, t, d)
      PROVE  OnLoanHasLender'
  BY <1>0, <1>2, LoanUntouched DEF CreateSubOffer
<1>3. ASSUME NEW o \in OfferKeys, NEW i \in SubNumbers,
             NEW t \in Terms, NEW d \in Durations, UpdateSubOffer(o, i, t, d)
      PROVE  OnLoanHasLender'
  BY <1>0, <1>3, LoanUntouched DEF UpdateSubOffer
<1>4. ASSUME NEW o \in OfferKeys, NEW i \in SubNumbers, DeleteSubOffer(o, i)
      PROVE  OnLoanHasLender'
  BY <1>0, <1>4, LoanUntouched DEF DeleteSubOffer
<1>5. ASSUME NEW o \in OfferKeys, DeleteOffer(o)
      PROVE  OnLoanHasLender'
  BY <1>0, <1>5, LoanUntouched DEF DeleteOffer, NoOffer
<1>6. ASSUME NEW o \in OfferKeys, NEW i \in SubNumbers, RepayLoan(o, i)
      PROVE  OnLoanHasLender'
  BY <1>0, <1>6, LoanUntouched DEF RepayLoan
<1>7. ASSUME NEW l \in Lenders, NEW o \in OfferKeys, NEW i \in SubNumbers,
             AcceptOffer(l, o, i)
      PROVE  OnLoanHasLender'
  <2> SUFFICES ASSUME NEW p \in OfferKeys, offer'[p].state = "Accepted"
               PROVE  \E j \in SubNumbers :
                        /\ sub_offer'[p][j].state = "Accepted"
                        /\ sub_offer'[p][j].lender \in Lenders
                        /\ sub_offer'[p][j].loan_started_time \in StartTime .. now'
    BY DEF OnLoanHasLender
  <2>1. CASE p = o
    <3>1. sub_offer[o][i] \in SubOfferAccount
      BY <1>7, SubOfferExists DEF AcceptOffer
    <3>2. sub_offer'[o][i] = [sub_offer[o][i] EXCEPT !.state = "Accepted", !.lender = l,
                                                     !.loan_started_time = now]
      BY <1>7 DEF AcceptOffer
    <3>3. /\ sub_offer'[o][i].state = "Accepted"
          /\ sub_offer'[o][i].lender = l
          /\ sub_offer'[o][i].loan_started_time = now
      BY <3>1, <3>2 DEF SubOfferAccount
    <3>4. now' = now /\ now \in StartTime .. now
      BY <1>7 DEF AcceptOffer
    <3>5. QED
      BY <2>1, <3>3, <3>4
  <2>2. CASE p # o
    BY <1>7, <2>2 DEF AcceptOffer, OnLoanHasLender
  <2>3. QED
    BY <2>1, <2>2
<1>8. ASSUME NEW taker \in Users, NEW o \in OfferKeys, NEW i \in SubNumbers,
             TakeCollateral(o, i, taker), UNCHANGED now
      PROVE  OnLoanHasLender'
  BY <1>0, <1>8, LoanUntouched DEF TakeCollateral
<1>9. ASSUME NEW u \in SuperOwners, NEW d \in ExpireDurations, UpdateGlobalState(u, d)
      PROVE  OnLoanHasLender'
  BY <1>0, <1>9, LoanUntouched DEF UpdateGlobalState
<1>10. ASSUME NEW n \in NFTs, NEW u \in Users, WalletTransfer(n, u)
       PROVE  OnLoanHasLender'
  BY <1>0, <1>10, LoanUntouched DEF WalletTransfer
<1>11. CASE Tick
  BY <1>0, <1>11, LoanUntouched DEF Tick
<1>12. CASE UNCHANGED vars
  BY <1>0, <1>12, LoanUntouched DEF vars
<1>13. QED
  BY <1>1, <1>2, <1>3, <1>4, <1>5, <1>6, <1>7, <1>8, <1>9, <1>10, <1>11, <1>12,
     TakerIsUser
  DEF Next, ClaimCollateral, ClaimExpiredCollateral

-----------------------------------------------------------------------------
(* Who lends has started the clock.  A transaction other than accept_offer *)
(* makes nobody a lender and moves no start.                               *)
LEMMA StartsUntouched ==
  ASSUME IInv, now <= now', now' \in Nat,
         \A o \in OfferKeys, i \in SubNumbers :
           \/ sub_offer'[o][i].state = "None"
           \/ sub_offer'[o][i].lender = NoUser
           \/ /\ sub_offer[o][i].state # "None"
              /\ sub_offer'[o][i].lender = sub_offer[o][i].lender
              /\ sub_offer'[o][i].loan_started_time = sub_offer[o][i].loan_started_time
  PROVE  LendersHaveStarted'
<1> SUFFICES ASSUME NEW o \in OfferKeys, NEW i \in SubNumbers,
                    sub_offer'[o][i].state # "None", sub_offer'[o][i].lender # NoUser
             PROVE  sub_offer'[o][i].loan_started_time \in StartTime .. now'
  BY DEF LendersHaveStarted
<1>1. sub_offer[o][i].loan_started_time \in StartTime .. now
  BY DEF IInv, LendersHaveStarted
<1>2. QED
  BY <1>1, LoanAssumption DEF IInv, TypeOK

(* What the two kinds of update do to one sub-offer.                       *)
LEMMA SameLender ==
  ASSUME NEW s \in SubOfferAccount
  PROVE  /\ LET c == [s EXCEPT !.state = "NFTClaimed"] IN
              c.lender = s.lender /\ c.loan_started_time = s.loan_started_time
         /\ \A t \in Terms, d \in Durations :
              LET c == [s EXCEPT !.terms = t, !.loan_duration = d] IN
              c.lender = s.lender /\ c.loan_started_time = s.loan_started_time
  BY DEF SubOfferAccount

LEMMA StartedStep == IInv /\ [Next]_vars => LendersHaveStarted'
<1> SUFFICES ASSUME IInv, [Next]_vars PROVE LendersHaveStarted'
  OBVIOUS
<1> USE LoanAssumption DEF IInv, TypeOK
<1>0. now \in Nat
  OBVIOUS
<1>1. ASSUME UNCHANGED <<now, sub_offer>>
      PROVE  LendersHaveStarted'
  BY <1>0, <1>1, StartsUntouched
<1>2. ASSUME NEW o \in OfferKeys, NEW level \in ProfileLevels,
             NEW t \in Terms, NEW d \in Durations, CreateSubOffer(o, level, t, d)
      PROVE  LendersHaveStarted'
  BY <1>0, <1>2, StartsUntouched DEF CreateSubOffer, NewSubOffer
<1>3. ASSUME NEW o \in OfferKeys, NEW i \in SubNumbers,
             NEW t \in Terms, NEW d \in Durations, UpdateSubOffer(o, i, t, d)
      PROVE  LendersHaveStarted'
  BY <1>0, <1>3, StartsUntouched, SubOfferExists, SameLender DEF UpdateSubOffer
<1>4. ASSUME NEW o \in OfferKeys, NEW i \in SubNumbers, DeleteSubOffer(o, i)
      PROVE  LendersHaveStarted'
  BY <1>0, <1>4, StartsUntouched DEF DeleteSubOffer, NoSubOffer
<1>5. ASSUME NEW o \in OfferKeys, NEW i \in SubNumbers, UNCHANGED now,
             sub_offer[o][i].state # "None",
             sub_offer' = [sub_offer EXCEPT ![o][i].state = "NFTClaimed"]
      PROVE  LendersHaveStarted'
  BY <1>0, <1>5, StartsUntouched, SubOfferExists, SameLender
<1>6. ASSUME NEW l \in Lenders, NEW o \in OfferKeys, NEW i \in SubNumbers,
             AcceptOffer(l, o, i)
      PROVE  LendersHaveStarted'
  <2> DEFINE s == [sub_offer[o][i] EXCEPT !.state = "Accepted", !.lender = l,
                                          !.loan_started_time = now]
  <2>1. sub_offer[o][i] \in SubOfferAccount
    BY <1>6, SubOfferExists DEF AcceptOffer
  <2>2. s.loan_started_time = now /\ now \in StartTime .. now
    BY <2>1 DEF SubOfferAccount
  <2>3. sub_offer' = [sub_offer EXCEPT ![o][i] = s] /\ now' = now
    BY <1>6 DEF AcceptOffer
  <2> HIDE DEF s
  <2>4. QED
    BY <2>2, <2>3 DEF LendersHaveStarted
<1>7. CASE Tick
  BY <1>0, <1>7, StartsUntouched DEF Tick
<1>8. QED
  BY <1>1, <1>2, <1>3, <1>4, <1>5, <1>6, <1>7
  DEF Next, CreateOffer, DeleteOffer, RepayLoan, ClaimCollateral, ClaimExpiredCollateral,
      TakeCollateral, UpdateGlobalState, WalletTransfer, vars

-----------------------------------------------------------------------------
LEMMA InvInit == Init => IInv
<1> SUFFICES ASSUME Init PROVE IInv
  OBVIOUS
<1>1. TypeOK
  BY TypeInit
<1>2. \A o \in OfferKeys : offer[o].state = "None"
  BY DEF Init, NoOffer
<1>3. \A n \in NFTs : ~nft[n].frozen
  BY VaultFields DEF Init
<1>4. LendersHaveStarted
  BY DEF Init, NoSubOffer, LendersHaveStarted
<1>5. QED
  BY <1>1, <1>2, <1>3, <1>4 DEF IInv, Custody, FrozenForItsHolder, OnLoanHasLender,
                                Live, OfferKeys

LEMMA Invariance == Spec => []IInv
<1>1. IInv /\ [Next]_vars => IInv'
  BY TypeStep, CustodyStep, OnLoanStep, StartedStep DEF IInv
<1>2. QED
  BY InvInit, <1>1, PTL DEF Spec

(* The accounts keep their layouts, for all sets of wallets and terms.     *)
THEOREM TypeCorrect == Spec => []TypeOK
<1>1. IInv => TypeOK
  BY DEF IInv
<1>2. QED
  BY Invariance, <1>1, PTL

(* A live listing holds its NFT, and only a live listing does.             *)
THEOREM CustodyHolds == Spec => []Custody
<1>1. IInv => Custody
  BY DEF IInv
<1>2. QED
  BY Invariance, <1>1, PTL

(* No NFT is ever frozen for somebody who does not hold it.                *)
THEOREM NeverStranded == Spec => []FrozenForItsHolder
<1>1. IInv => FrozenForItsHolder
  BY DEF IInv
<1>2. QED
  BY Invariance, <1>1, PTL

(* A listing on loan has a lender to claim it and a loan to repay.         *)
THEOREM LoanHasLender == Spec => []OnLoanHasLender
<1>1. IInv => OnLoanHasLender
  BY DEF IInv
<1>2. QED
  BY Invariance, <1>1, PTL

-----------------------------------------------------------------------------
(* Action properties.                                                      *)

(* No transaction rewrites the terms of a running loan.                    *)
THEOREM TermsFixed == Spec => TermsFixedWhileOnLoan
<1>1. ASSUME IInv, [Next]_vars, NEW o \in OfferKeys, NEW i \in SubNumbers,
             offer[o].state = "Accepted", offer'[o].state = "Accepted",
             sub_offer[o][i].state = "Accepted"
      PROVE  sub_offer'[o][i] = sub_offer[o][i]
  <2> USE <1>1 DEF IInv, TypeOK
  <2>1. CASE \E p \in OfferKeys, level \in ProfileLevels, t \in Terms, d \in Durations :
               CreateSubOffer(p, level, t, d)
    BY <2>1 DEF CreateSubOffer
  <2>2. CASE \E p \in OfferKeys, j \in SubNumbers, t \in Terms, d \in Durations :
               UpdateSubOffer(p, j, t, d)
    BY <2>2 DEF UpdateSubOffer
  <2>3. CASE \E p \in OfferKeys, j \in SubNumbers : DeleteSubOffer(p, j)
    BY <2>3 DEF DeleteSubOffer
  <2>4. CASE \E p \in OfferKeys, j \in SubNumbers : RepayLoan(p, j)
    BY <2>4 DEF RepayLoan
  <2>5. CASE \E l \in Lenders, p \in OfferKeys, j \in SubNumbers : AcceptOffer(l, p, j)
    BY <2>5 DEF AcceptOffer
  <2>6. CASE \E p \in OfferKeys, j \in SubNumbers, u \in Users : TakeCollateral(p, j, u)
    BY <2>6 DEF TakeCollateral
  <2>7. CASE UNCHANGED sub_offer
    BY <2>7
  <2>8. QED
    BY <2>1, <2>2, <2>3, <2>4, <2>5, <2>6, <2>7, TakerIsUser
    DEF Next, CreateOffer, DeleteOffer, ClaimCollateral, ClaimExpiredCollateral,
        UpdateGlobalState, WalletTransfer, Tick, vars
<1>2. IInv /\ [Next]_vars =>
        [\A o \in OfferKeys, i \in SubNumbers :
           /\ offer[o].state = "Accepted" /\ offer'[o].state = "Accepted"
           /\ sub_offer[o][i].state = "Accepted"
           => sub_offer'[o][i] = sub_offer[o][i]]_vars
  BY <1>1
<1>3. QED
  BY Invariance, <1>2, PTL DEF Spec, TermsFixedWhileOnLoan

(* A loan ends only together with the custody of its collateral.           *)
THEOREM LoanCloses == Spec => LoanClosesWithCollateral
<1>1. ASSUME IInv, [Next]_vars, NEW o \in OfferKeys, NEW i \in SubNumbers,
             sub_offer[o][i].state = "Accepted", sub_offer'[o][i].state # "Accepted"
      PROVE  /\ nft[o[2]].frozen /\ ~nft'[o[2]].frozen
             /\ offer'[o].state = "NFTClaimed"
  <2> USE <1>1 DEF IInv, TypeOK
  <2>0. o[2] \in NFTs
    BY DEF OfferKeys
  <2>1. CASE \E p \in OfferKeys, level \in ProfileLevels, t \in Terms, d \in Durations :
               CreateSubOffer(p, level, t, d)
    BY <2>1 DEF CreateSubOffer
  <2>2. CASE \E p \in OfferKeys, j \in SubNumbers, t \in Terms, d \in Durations :
               UpdateSubOffer(p, j, t, d)
    BY <2>2 DEF UpdateSubOffer
  <2>3. CASE \E p \in OfferKeys, j \in SubNumbers : DeleteSubOffer(p, j)
    BY <2>3 DEF DeleteSubOffer
  <2>4. ASSUME NEW p \in OfferKeys, NEW j \in SubNumbers, RepayLoan(p, j)
        PROVE  /\ nft[o[2]].frozen /\ ~nft'[o[2]].frozen
               /\ offer'[o].state = "NFTClaimed"
    <3>1. p = o
      BY <2>4 DEF RepayLoan
    <3>2. QED
      BY <2>0, <2>4, <3>1, VaultFields DEF RepayLoan, CanThaw
  <2>5. CASE \E l \in Lenders, p \in OfferKeys, j \in SubNumbers : AcceptOffer(l, p, j)
    <3>1. PICK l \in Lenders, p \in OfferKeys, j \in SubNumbers : AcceptOffer(l, p, j)
      BY <2>5
    <3>2. sub_offer[p][j] \in SubOfferAccount
      BY <3>1, SubOfferExists DEF AcceptOffer
    <3>3. QED
      BY <3>1, <3>2 DEF AcceptOffer, SubOfferAccount
  <2>6. ASSUME NEW p \in OfferKeys, NEW j \in SubNumbers, NEW u \in Users,
               TakeCollateral(p, j, u)
        PROVE  /\ nft[o[2]].frozen /\ ~nft'[o[2]].frozen
               /\ offer'[o].state = "NFTClaimed"
    <3>1. p = o
      BY <2>6 DEF TakeCollateral
    <3>2. QED
      BY <2>0, <2>6, <3>1, VaultFields DEF TakeCollateral, CanThaw
  <2>7. CASE UNCHANGED sub_offer
    BY <2>7
  <2>8. QED
    BY <2>1, <2>2, <2>3, <2>4, <2>5, <2>6, <2>7, TakerIsUser
    DEF Next, CreateOffer, DeleteOffer, ClaimCollateral, ClaimExpiredCollateral,
        UpdateGlobalState, WalletTransfer, Tick, vars
<1>2. IInv /\ [Next]_vars =>
        [\A o \in OfferKeys, i \in SubNumbers :
           sub_offer[o][i].state = "Accepted" /\ sub_offer'[o][i].state # "Accepted"
           => /\ nft[o[2]].frozen /\ ~nft'[o[2]].frozen
              /\ offer'[o].state = "NFTClaimed"]_vars
  BY <1>1
<1>3. QED
  BY Invariance, <1>2, PTL DEF Spec, LoanClosesWithCollateral

(* A lender takes collateral only past the deadline of what it funded.     *)
THEOREM LendersWait == Spec => LendersWaitForDeadline
<1> DEFINE Entitled(n, taker) ==
      \E i \in SubNumbers :
        LET o == <<nft[n].holder, n>> IN
        /\ sub_offer[o][i].state # "None"
        /\ sub_offer[o][i].lender = taker
        /\ sub_offer[o][i].loan_started_time \in StartTime .. now
        /\ now > Deadline(o, i)
<1>1. ASSUME IInv, [Next]_vars, NEW n \in NFTs,
             nft[n].frozen, nft'[n].holder # nft[n].holder,
             nft'[n].holder # global_state.super_owner
      PROVE  Entitled(n, nft'[n].holder)
  <2> USE <1>1 DEF IInv, TypeOK
  <2>1. ASSUME NEW o \in OfferKeys, NEW i \in SubNumbers, NEW u \in Users,
               TakeCollateral(o, i, u)
        PROVE  o = <<nft[n].holder, n>> /\ nft'[n].holder = u
    BY <2>1, VaultFields DEF TakeCollateral, CanThaw, OfferKeys
  <2>2. CASE \E l \in Lenders, o \in OfferKeys, i \in SubNumbers : ClaimCollateral(l, o, i)
    <3>1. PICK l \in Lenders, o \in OfferKeys, i \in SubNumbers : ClaimCollateral(l, o, i)
      BY <2>2
    <3>2. o = <<nft[n].holder, n>> /\ nft'[n].holder = l
      BY <2>1, <3>1, TakerIsUser DEF ClaimCollateral
    <3>3. sub_offer[o][i].loan_started_time \in StartTime .. now
      BY <3>1, LoanAssumption DEF LendersHaveStarted, ClaimCollateral, Users
    <3>4. QED
      BY <3>1, <3>2, <3>3 DEF ClaimCollateral
  <2>3. CASE \E o \in OfferKeys, i \in SubNumbers : ClaimExpiredCollateral(o, i)
    BY <2>1, <2>3, TakerIsUser DEF ClaimExpiredCollateral
  <2>4. CASE \E b \in Borrowers, m \in NFTs : CreateOffer(b, m)
    BY <2>4, VaultFields DEF CreateOffer
  <2>5. CASE \E o \in OfferKeys : DeleteOffer(o)
    BY <2>5, VaultFields DEF DeleteOffer, CanThaw
  <2>6. CASE \E o \in OfferKeys, i \in SubNumbers : RepayLoan(o, i)
    BY <2>6, VaultFields DEF RepayLoan, CanThaw
  <2>7. CASE \E m \in NFTs, u \in Users : WalletTransfer(m, u)
    BY <2>7 DEF WalletTransfer
  <2>8. CASE UNCHANGED nft
    BY <2>8
  <2>9. QED
    BY <2>2, <2>3, <2>4, <2>5, <2>6, <2>7, <2>8
    DEF Next, CreateSubOffer, UpdateSubOffer, DeleteSubOffer, AcceptOffer,
        UpdateGlobalState, Tick, vars
<1>2. IInv /\ [Next]_vars =>
        [\A n \in NFTs :
           nft[n].frozen /\ nft'[n].holder # nft[n].holder
                        /\ nft'[n].holder # global_state.super_owner =>
             \E i \in SubNumbers :
               LET o == <<nft[n].holder, n>> IN
               /\ sub_offer[o][i].state # "None"
               /\ sub_offer[o][i].lender = nft'[n].holder
               /\ sub_offer[o][i].loan_started_time \in StartTime .. now
               /\ now > Deadline(o, i)]_vars
  BY <1>1
<1>3. QED
  BY Invariance, <1>2, PTL DEF Spec, LendersWaitForDeadline

-----------------------------------------------------------------------------
(* Refinement.  A listing pledges the NFT exactly while it is frozen, so   *)
(* the mapped pledge is read off the token account.                        *)
PledgedByHolder ==
  \A n \in NFTs : PledgerOf(n) = IF nft[n].frozen THEN nft[n].holder ELSE NoUser

LEMMA PledgerIsHolder == IInv => PledgedByHolder
<1> SUFFICES ASSUME IInv, NEW n \in NFTs
             PROVE  PledgerOf(n) = IF nft[n].frozen THEN nft[n].holder ELSE NoUser
  BY DEF PledgedByHolder
<1>1. CASE nft[n].frozen
  <2>1. PICK b \in Borrowers : nft[n] = LockedVault(b)
    <3>1. nft[n] \in VaultAccount /\ nft[n] = LockedVault(nft[n].holder)
      BY <1>1 DEF IInv, TypeOK, FrozenForItsHolder
    <3>2. nft[n].delegate = nft[n].holder /\ nft[n].holder \in Users
      BY <3>1, VaultFields DEF VaultAccount
    <3>3. nft[n].delegate \in Borrowers \cup {NoUser}
      BY <3>1 DEF VaultAccount
    <3>4. QED
      BY <3>1, <3>2, <3>3, LoanAssumption
  <2>2. Live(<<b, n>>)
    BY <1>1, <2>1, VaultFields DEF IInv, Custody
  <2>3. \A c \in Borrowers : Live(<<c, n>>) => c = b
    BY <2>1, VaultFields DEF IInv, Custody
  <2>4. PledgerOf(n) = b
    BY <2>2, <2>3 DEF PledgerOf
  <2>5. QED
    BY <1>1, <2>1, <2>4, VaultFields
<1>2. CASE ~nft[n].frozen
  BY <1>2, VaultFields DEF PledgerOf, IInv, Custody
<1>3. QED
  BY <1>1, <1>2

LEMMA EscrowInit == Init => E!Init
<1> SUFFICES ASSUME Init PROVE E!Init
  OBVIOUS
<1>1. \A n \in NFTs : nft[n].holder \in Borrowers
  BY VaultFields DEF Init
<1>2. \A n \in NFTs : PledgerOf(n) = NoUser
  BY DEF PledgerOf, Live, Init, NoOffer, OfferKeys
<1>3. QED
  BY <1>1, <1>2 DEF E!Init

(* What a transaction does to one token account decides the escrow's step. *)
LEMMA EscrowOneItem ==
  ASSUME PledgedByHolder, PledgedByHolder', NEW n \in NFTs, NEW h, NEW p,
         nft'[n].holder = h,
         p = IF nft'[n].frozen THEN h ELSE NoUser,
         \A m \in NFTs : m # n => nft'[m] = nft[m]
  PROVE  /\ [m \in NFTs |-> nft'[m].holder]
              = [[m \in NFTs |-> nft[m].holder] EXCEPT ![n] = h]
         /\ [m \in NFTs |-> PledgerOf(m)']
              = [[m \in NFTs |-> PledgerOf(m)] EXCEPT ![n] = p]
<1>1. \A m \in NFTs : nft'[m].holder = IF m = n THEN h ELSE nft[m].holder
  OBVIOUS
<1>2. \A m \in NFTs : PledgerOf(m)' = IF m = n THEN p ELSE PledgerOf(m)
  BY DEF PledgedByHolder
<1>3. [m \in NFTs |-> nft'[m].holder]
        = [[m \in NFTs |-> nft[m].holder] EXCEPT ![n] = h]
  BY <1>1
<1>4. [m \in NFTs |-> PledgerOf(m)'] = [[m \in NFTs |-> PledgerOf(m)] EXCEPT ![n] = p]
  BY <1>2
<1>5. QED
  BY <1>3, <1>4

LEMMA EscrowStep ==
  ASSUME IInv, PledgedByHolder, PledgedByHolder', [Next]_vars
  PROVE  [E!Next]_(E!vars)
<1> USE DEF IInv
<1>1. ASSUME NEW b \in Borrowers, NEW n \in NFTs, CreateOffer(b, n)
      PROVE  E!Pledge(n)
  <2>1. /\ nft' = [nft EXCEPT ![n] = LockedVault(b)]
        /\ nft[n].holder = b
        /\ ~nft[n].frozen
    BY <1>1 DEF CreateOffer
  <2>2. /\ [m \in NFTs |-> nft'[m].holder]
             = [[m \in NFTs |-> nft[m].holder] EXCEPT ![n] = b]
        /\ [m \in NFTs |-> PledgerOf(m)'] = [[m \in NFTs |-> PledgerOf(m)] EXCEPT ![n] = b]
    <3>1. /\ nft'[n].holder = b /\ nft'[n].frozen
          /\ \A m \in NFTs : m # n => nft'[m] = nft[m]
      BY <2>1, VaultFields DEF TypeOK
    <3>2. b = IF nft'[n].frozen THEN b ELSE NoUser
      BY <3>1
    <3>3. QED
      BY <3>1, <3>2, EscrowOneItem
  <2>3. PledgerOf(n) = NoUser
    BY <2>1 DEF PledgedByHolder
  <2>4. QED
    BY <2>1, <2>2, <2>3 DEF E!Pledge
<1>2. ASSUME NEW o \in OfferKeys, NEW u \in Users, CanThaw(o),
             nft' = [nft EXCEPT ![o[2]] = Vault(u)]
      PROVE  E!Next
  <2>1. o[2] \in NFTs /\ nft[o[2]].frozen
    BY <1>2, VaultFields DEF CanThaw, OfferKeys
  <2>2. /\ [m \in NFTs |-> nft'[m].holder]
             = [[m \in NFTs |-> nft[m].holder] EXCEPT ![o[2]] = u]
        /\ [m \in NFTs |-> PledgerOf(m)']
             = [[m \in NFTs |-> PledgerOf(m)] EXCEPT ![o[2]] = NoUser]
    <3>1. /\ nft'[o[2]].holder = u /\ ~nft'[o[2]].frozen
          /\ \A m \in NFTs : m # o[2] => nft'[m] = nft[m]
      BY <1>2, <2>1, VaultFields DEF TypeOK
    <3>2. NoUser = IF nft'[o[2]].frozen THEN u ELSE NoUser
      BY <3>1
    <3>3. QED
      BY <2>1, <3>1, <3>2, EscrowOneItem
  <2>3. PledgerOf(o[2]) = nft[o[2]].holder
    BY <2>1 DEF PledgedByHolder
  <2>4. CASE u # nft[o[2]].holder
    BY <1>2, <2>1, <2>2, <2>3, <2>4 DEF E!Forfeit, E!Next
  <2>5. CASE u = nft[o[2]].holder
    <3>1. [m \in NFTs |-> nft'[m].holder] = [m \in NFTs |-> nft[m].holder]
      BY <2>1, <2>2, <2>5
    <3>2. E!Release(o[2])
      BY <2>1, <2>2, <2>3, <3>1 DEF E!Release
    <3>3. QED
      BY <2>1, <3>2 DEF E!Next
  <2>6. QED
    BY <2>4, <2>5
<1>3. ASSUME NEW n \in NFTs, NEW u \in Users, WalletTransfer(n, u)
      PROVE  E!Next
  <2>1. nft' = [nft EXCEPT ![n] = Vault(u)] /\ ~nft[n].frozen
    BY <1>3 DEF WalletTransfer
  <2>2. /\ [m \in NFTs |-> nft'[m].holder]
             = [[m \in NFTs |-> nft[m].holder] EXCEPT ![n] = u]
        /\ [m \in NFTs |-> PledgerOf(m)']
             = [[m \in NFTs |-> PledgerOf(m)] EXCEPT ![n] = NoUser]
    <3>1. /\ nft'[n].holder = u /\ ~nft'[n].frozen
          /\ \A m \in NFTs : m # n => nft'[m] = nft[m]
      BY <2>1, VaultFields DEF TypeOK
    <3>2. NoUser = IF nft'[n].frozen THEN u ELSE NoUser
      BY <3>1
    <3>3. QED
      BY <3>1, <3>2, EscrowOneItem
  <2>3. PledgerOf(n) = NoUser
    BY <2>1 DEF PledgedByHolder
  <2>4. [m \in NFTs |-> PledgerOf(m)'] = [m \in NFTs |-> PledgerOf(m)]
    BY <2>2, <2>3
  <2>5. E!Move(n, u)
    BY <2>2, <2>3, <2>4 DEF E!Move
  <2>6. QED
    BY <2>5 DEF E!Next
<1>4. CASE UNCHANGED nft
  <2>1. \A n \in NFTs : PledgerOf(n)' = PledgerOf(n)
    BY <1>4 DEF PledgedByHolder
  <2>2. UNCHANGED E!vars
    BY <1>4, <2>1 DEF E!vars
  <2>3. QED
    BY <2>2
<1>5. ASSUME NEW o \in OfferKeys
      PROVE  o[1] \in Users
  BY DEF OfferKeys, Users
<1>6. QED
  BY <1>1, <1>2, <1>3, <1>4, <1>5, TakerIsUser
  DEF Next, CreateSubOffer, UpdateSubOffer, DeleteSubOffer, DeleteOffer, RepayLoan,
      AcceptOffer, ClaimCollateral, ClaimExpiredCollateral, TakeCollateral,
      UpdateGlobalState, Tick, vars, E!Next

(* The loan program implements the escrow.                                 *)
THEOREM ImplementsEscrow == Spec => EscrowSpec
<1>1. IInv /\ PledgedByHolder /\ PledgedByHolder' /\ [Next]_vars => [E!Next]_(E!vars)
  BY EscrowStep
<1>2. QED
  BY Invariance, PledgerIsHolder, EscrowInit, <1>1, PTL DEF Spec, EscrowSpec, E!Spec

-----------------------------------------------------------------------------
(* The client.  What a call has read and what it sends was checked when    *)
(* the call began, and only the client's own steps change it; so whatever  *)
(* lands is an instruction of Loan with arguments of Loan.                 *)

Accounts == {"offer", "subOffer", "globalState"}
Creating == {"createLoanSubOffer", "createLoanSubOfferByStaking"}
Lending  == {"acceptLoanOffer", "claimLoanCollateral"}

View == [count : Nat, mint : Mints \cup {NoUser}, lender : Lenders \cup {NoUser},
         treasury : TreasuryWallets \cup {NoUser}]

Arguments == [terms : Terms \cup {NoUser}, duration : Durations \cup {0}]

CallRecord == [fn : Functions, o : OfferKeys, i : Nat, args : Arguments,
               todo : Seq(Accounts), view : View]

Request == [signer : Users, try : Tries, fn : Functions, o : OfferKeys, i : Nat,
            args : Arguments, view : View]

ClientTypeOK ==
  /\ TypeOK
  /\ treasury_wallet \in TreasuryWallets
  /\ wsol_vaults \subseteq TreasuryWallets
  /\ call \in [Users -> CallRecord \cup {Idle}]
  /\ wire \subseteq Request

(* What the caller of a function gave it.                                  *)
WellFormed(u, r) ==
  /\ r.fn \in Creating \cup {"updateLoanSubOffer"} =>
       r.args.terms \in Terms /\ r.args.duration \in Durations
  /\ r.fn \notin Creating => r.i \in SubNumbers
  /\ r.fn \in Lending => u \in Lenders

(* A sub-offer that is to be created is not read before, and               *)
(* updateLoanSubOffer keeps the currency it has read.                      *)
CallsWellFormed ==
  \A u \in Users : call[u] # Idle =>
    /\ WellFormed(u, call[u])
    /\ call[u].fn \in Creating => call[u].todo \in Seq({"offer", "globalState"})
    /\ call[u].fn = "updateLoanSubOffer" =>
         \/ call[u].todo = <<"subOffer">>
         \/ call[u].todo = <<>> /\ call[u].view.mint \in Mints

WireWellFormed ==
  \A tx \in wire :
    /\ WellFormed(tx.signer, tx)
    /\ tx.fn = "updateLoanSubOffer" => tx.view.mint \in Mints

CIInv == ClientTypeOK /\ CallsWellFormed /\ WireWellFormed

(* A transaction that lands is an instruction of the program.              *)
LEMMA LandsInLoan ==
  ASSUME CIInv, NEW tx \in wire, Instruction(tx) PROVE Next
<1>1. tx \in Request /\ WellFormed(tx.signer, tx)
  BY DEF CIInv, ClientTypeOK, WireWellFormed
<1>2. tx.o \in OfferKeys
  BY <1>1 DEF Request
<1>3. ASSUME NEW level \in ProfileLevels, tx.fn \in Creating, LandCreateSubOffer(tx, level)
      PROVE  Next
  BY <1>1, <1>2, <1>3 DEF LandCreateSubOffer, WellFormed, Next
<1>4. CASE tx.fn = "updateLoanSubOffer" /\ LandUpdateSubOffer(tx)
  <2>1. [tx.args.terms EXCEPT !.mint = tx.view.mint] \in Terms
    BY <1>1, <1>4, ClientAssumption DEF CIInv, WireWellFormed, WellFormed
  <2>2. tx.i \in SubNumbers /\ tx.args.duration \in Durations
    BY <1>1, <1>4 DEF WellFormed, Creating
  <2> QED
    BY <1>2, <1>4, <2>1, <2>2 DEF LandUpdateSubOffer, Next
<1>5. CASE tx.fn = "deleteLoanSubOffer" /\ DeleteSubOffer(tx.o, tx.i)
  BY <1>1, <1>2, <1>5 DEF WellFormed, Creating, Next
<1>6. CASE tx.fn = "acceptLoanOffer" /\ LandAcceptOffer(tx)
  BY <1>1, <1>2, <1>6 DEF LandAcceptOffer, WellFormed, Creating, Lending, Next
<1>7. CASE tx.fn = "repayLoan" /\ LandRepayLoan(tx)
  BY <1>1, <1>2, <1>7 DEF LandRepayLoan, WellFormed, Creating, Next
<1>8. CASE tx.fn = "claimLoanCollateral" /\ LandClaimCollateral(tx)
  BY <1>1, <1>2, <1>8 DEF LandClaimCollateral, WellFormed, Creating, Lending, Next
<1>9. CASE tx.fn = "claimExpiredCollateral" /\ LandClaimExpiredCollateral(tx)
  BY <1>1, <1>2, <1>9 DEF LandClaimExpiredCollateral, WellFormed, Creating, Next
<1> QED
  BY <1>3, <1>4, <1>5, <1>6, <1>7, <1>8, <1>9, ClientAssumption DEF Instruction, Creating

(* Each step of the client is a step of the program or none.               *)
LEMMA ClientStepIsLoanStep ==
  CIInv /\ [ClientNext]_allVars => [Next]_vars
<1> SUFFICES ASSUME CIInv, [ClientNext]_allVars PROVE [Next]_vars
  OBVIOUS
<1>1. CASE Call
  BY <1>1 DEF Call, CallCreateLoanSubOffer, CallCreateLoanSubOfferByStaking,
     CallUpdateLoanSubOffer, CallDeleteLoanSubOffer, CallRepayLoan, CallAcceptLoanOffer,
     CallClaimLoanCollateral, CallClaimExpiredCollateral, Begin
<1>2. ASSUME NEW u \in Users, Fetch(u) \/ Send(u) PROVE UNCHANGED vars
  BY <1>2 DEF Fetch, Send
<1>3. ASSUME NEW tx \in wire, Land(tx) PROVE Next
  BY <1>3, LandsInLoan DEF Land
<1>4. ASSUME NEW tx \in wire, Lose(tx) PROVE UNCHANGED vars
  BY <1>4 DEF Lose
<1>5. ASSUME NEW u \in SuperOwners, NEW d \in ExpireDurations, NEW w \in TreasuryWallets,
             UpdateLoanGlobalState(u, d, w)
      PROVE  Next
  BY <1>5 DEF UpdateLoanGlobalState, Next
<1>6. CASE Direct
  BY <1>6 DEF Direct, Next
<1>7. CASE OpenTreasuryVault
  BY <1>7 DEF OpenTreasuryVault
<1>8. CASE UNCHANGED allVars
  BY <1>8 DEF allVars
<1> QED
  BY <1>1, <1>2, <1>3, <1>4, <1>5, <1>6, <1>7, <1>8 DEF ClientNext

LEMMA CIInvInit == ClientInit => CIInv
BY TypeInit DEF ClientInit, CIInv, ClientTypeOK, CallsWellFormed, WireWellFormed

(* A call begins with nothing read and the arguments it was given.         *)
Fits(u, fn, o, i, args, todo) ==
  /\ u \in Users /\ o \in OfferKeys /\ i \in Nat /\ args \in Arguments
  /\ todo \in Seq(Accounts)
  /\ fn \in Creating \cup {"updateLoanSubOffer"} =>
       args.terms \in Terms /\ args.duration \in Durations
  /\ fn \in Creating => todo \in Seq({"offer", "globalState"})
  /\ fn \notin Creating => i \in SubNumbers
  /\ fn \in Lending => u \in Lenders
  /\ fn = "updateLoanSubOffer" => todo = <<"subOffer">>

LEMMA BeginKeeps ==
  ASSUME CIInv, TypeOK', NEW u, NEW fn, NEW o, NEW i, NEW args, NEW todo,
         Begin(u, fn, o, i, args, todo), Fits(u, fn, o, i, args, todo)
  PROVE  CIInv'
<1> DEFINE c == [fn |-> fn, o |-> o, i |-> i, args |-> args, todo |-> todo, view |-> Unread]
<1>1. Unread \in View
  BY DEF Unread, View
<1>2. /\ fn \in Functions
      /\ call' = [call EXCEPT ![u] = c]
      /\ UNCHANGED <<treasury_wallet, wsol_vaults, wire>>
  BY DEF Begin
<1>3. c \in CallRecord
  BY <1>1, <1>2 DEF CallRecord, Fits
<1>4. c.fn = fn /\ c.i = i /\ c.args = args /\ c.todo = todo
  OBVIOUS
<1>5. /\ WellFormed(u, c)
      /\ c.fn \in Creating => c.todo \in Seq({"offer", "globalState"})
      /\ c.fn = "updateLoanSubOffer" => c.todo = <<"subOffer">>
  BY <1>4 DEF WellFormed, Fits
<1> HIDE DEF c
<1>6. ClientTypeOK'
  BY <1>2, <1>3 DEF CIInv, ClientTypeOK, Fits
<1>7. CallsWellFormed'
  BY <1>2, <1>5 DEF CIInv, ClientTypeOK, CallsWellFormed, Fits
<1>8. WireWellFormed'
  BY <1>2 DEF CIInv, WireWellFormed
<1> QED
  BY <1>6, <1>7, <1>8 DEF CIInv

LEMMA CallKeeps == CIInv /\ TypeOK' /\ Call => CIInv'
<1> SUFFICES ASSUME CIInv, TypeOK', Call PROVE CIInv'
  OBVIOUS
<1>1. \A o \in OfferKeys : o[1] \in Users
  BY DEF OfferKeys, Users
<1>2. SubNumbers \subseteq Nat /\ 0 \in Nat /\ Durations \subseteq Nat
  BY LoanAssumption DEF SubNumbers
<1>3. NoArgs \in Arguments
  BY DEF NoArgs, Arguments
<1>4. /\ <<"offer">> \in Seq(Accounts) /\ <<"subOffer">> \in Seq(Accounts)
      /\ <<"offer", "globalState">> \in Seq(Accounts)
      /\ <<"offer">> \in Seq({"offer", "globalState"})
      /\ <<"offer", "globalState">> \in Seq({"offer", "globalState"})
      /\ <<"subOffer", "offer", "globalState">> \in Seq(Accounts)
      /\ <<"globalState", "subOffer", "offer">> \in Seq(Accounts)
  BY DEF Accounts
<1>5. ASSUME NEW o \in OfferKeys, NEW t \in Terms, NEW d \in Durations,
             \/ CallCreateLoanSubOffer(o, t, d)
             \/ CallCreateLoanSubOfferByStaking(o, t, d)
             \/ \E i \in SubNumbers : CallUpdateLoanSubOffer(o, i, t, d)
      PROVE  CIInv'
  <2> DEFINE a == [terms |-> t, duration |-> d]
  <2>1. a \in Arguments /\ a.terms \in Terms /\ a.duration \in Durations
    BY DEF Arguments
  <2> HIDE DEF a
  <2>2. CASE CallCreateLoanSubOffer(o, t, d)
    <3>1. Begin(o[1], "createLoanSubOffer", o, 0, a, <<"offer">>)
      BY <2>2 DEF CallCreateLoanSubOffer, a
    <3>2. Fits(o[1], "createLoanSubOffer", o, 0, a, <<"offer">>)
      BY <1>1, <1>2, <1>4, <2>1 DEF Fits, Creating, Lending
    <3> QED
      BY <3>1, <3>2, BeginKeeps
  <2>3. CASE CallCreateLoanSubOfferByStaking(o, t, d)
    <3>1. Begin(o[1], "createLoanSubOfferByStaking", o, 0, a, <<"offer", "globalState">>)
      BY <2>3 DEF CallCreateLoanSubOfferByStaking, a
    <3>2. Fits(o[1], "createLoanSubOfferByStaking", o, 0, a, <<"offer", "globalState">>)
      BY <1>1, <1>2, <1>4, <2>1 DEF Fits, Creating, Lending
    <3> QED
      BY <3>1, <3>2, BeginKeeps
  <2>4. ASSUME NEW i \in SubNumbers, CallUpdateLoanSubOffer(o, i, t, d) PROVE CIInv'
    <3>1. Begin(o[1], "updateLoanSubOffer", o, i, a, <<"subOffer">>)
      BY <2>4 DEF CallUpdateLoanSubOffer, a
    <3>2. Fits(o[1], "updateLoanSubOffer", o, i, a, <<"subOffer">>)
      BY <1>1, <1>2, <1>4, <2>1 DEF Fits, Creating, Lending
    <3> QED
      BY <3>1, <3>2, BeginKeeps
  <2> QED
    BY <1>5, <2>2, <2>3, <2>4
<1>6. ASSUME NEW o \in OfferKeys, NEW i \in SubNumbers,
             CallDeleteLoanSubOffer(o, i) \/ CallRepayLoan(o, i)
      PROVE  CIInv'
  <2>1. CASE CallDeleteLoanSubOffer(o, i)
    <3>1. Begin(o[1], "deleteLoanSubOffer", o, i, NoArgs, <<"subOffer">>)
      BY <2>1 DEF CallDeleteLoanSubOffer
    <3>2. Fits(o[1], "deleteLoanSubOffer", o, i, NoArgs, <<"subOffer">>)
      BY <1>1, <1>2, <1>3, <1>4 DEF Fits, Creating, Lending
    <3> QED
      BY <3>1, <3>2, BeginKeeps
  <2>2. CASE CallRepayLoan(o, i)
    <3>1. Begin(o[1], "repayLoan", o, i, NoArgs, <<"globalState", "subOffer", "offer">>)
      BY <2>2 DEF CallRepayLoan
    <3>2. Fits(o[1], "repayLoan", o, i, NoArgs, <<"globalState", "subOffer", "offer">>)
      BY <1>1, <1>2, <1>3, <1>4 DEF Fits, Creating, Lending
    <3> QED
      BY <3>1, <3>2, BeginKeeps
  <2> QED
    BY <1>6, <2>1, <2>2
<1>7. ASSUME NEW o \in OfferKeys, NEW i \in SubNumbers, NEW l \in Lenders,
             CallAcceptLoanOffer(l, o, i) \/ CallClaimLoanCollateral(l, o, i)
      PROVE  CIInv'
  <2>1. l \in Users
    BY DEF Users
  <2>2. CASE CallAcceptLoanOffer(l, o, i)
    <3>1. Begin(l, "acceptLoanOffer", o, i, NoArgs, <<"subOffer", "offer", "globalState">>)
      BY <2>2 DEF CallAcceptLoanOffer
    <3>2. Fits(l, "acceptLoanOffer", o, i, NoArgs, <<"subOffer", "offer", "globalState">>)
      BY <1>2, <1>3, <1>4, <2>1 DEF Fits, Creating, Lending
    <3> QED
      BY <3>1, <3>2, BeginKeeps
  <2>3. CASE CallClaimLoanCollateral(l, o, i)
    <3>1. Begin(l, "claimLoanCollateral", o, i, NoArgs, <<"globalState", "subOffer", "offer">>)
      BY <2>3 DEF CallClaimLoanCollateral
    <3>2. Fits(l, "claimLoanCollateral", o, i, NoArgs, <<"globalState", "subOffer", "offer">>)
      BY <1>2, <1>3, <1>4, <2>1 DEF Fits, Creating, Lending
    <3> QED
      BY <3>1, <3>2, BeginKeeps
  <2> QED
    BY <1>7, <2>2, <2>3
<1>8. ASSUME NEW o \in OfferKeys, NEW i \in SubNumbers, NEW u \in SuperOwners,
             CallClaimExpiredCollateral(u, o, i)
      PROVE  CIInv'
  <2>1. u \in Users
    BY DEF Users
  <2>2. Begin(u, "claimExpiredCollateral", o, i, NoArgs, <<"globalState", "subOffer", "offer">>)
    BY <1>8 DEF CallClaimExpiredCollateral
  <2>3. Fits(u, "claimExpiredCollateral", o, i, NoArgs, <<"globalState", "subOffer", "offer">>)
    BY <1>2, <1>3, <1>4, <2>1 DEF Fits, Creating, Lending
  <2> QED
    BY <2>2, <2>3, BeginKeeps
<1> QED
  BY <1>5, <1>6, <1>7, <1>8 DEF Call

(* What an account shows is of the type of the field it is read into.      *)
LEMMA FetchedTypes ==
  ASSUME CIInv, NEW c \in CallRecord, NEW account \in Accounts, Exists(account, c.o, c.i),
         account = "subOffer" => c.i \in SubNumbers
  PROVE  /\ Fetched(account, c.view, c.o, c.i) \in View
         /\ account = "subOffer" => Fetched(account, c.view, c.o, c.i).mint \in Mints
<1>1. c.view \in View /\ c.o \in OfferKeys
  BY DEF CallRecord
<1>2. CASE account = "offer"
  <2>1. offer[c.o].sub_offer_count \in Nat
    BY <1>1, LoanAssumption DEF CIInv, ClientTypeOK, TypeOK, OfferAccount
  <2>2. Fetched(account, c.view, c.o, c.i)
          = [c.view EXCEPT !.count = offer[c.o].sub_offer_count]
    BY <1>2 DEF Fetched
  <2> QED
    BY <1>1, <1>2, <2>1, <2>2 DEF View
<1>3. CASE account = "subOffer"
  <2>1. sub_offer[c.o][c.i] \in SubOfferAccount
    BY <1>1, <1>3, SubOfferExists DEF CIInv, ClientTypeOK, Exists
  <2>2. sub_offer[c.o][c.i].terms.mint \in Mints
        /\ sub_offer[c.o][c.i].lender \in Lenders \cup {NoUser}
    BY <2>1, ClientAssumption DEF SubOfferAccount
  <2>3. Fetched(account, c.view, c.o, c.i)
          = [c.view EXCEPT !.mint = sub_offer[c.o][c.i].terms.mint,
                           !.lender = sub_offer[c.o][c.i].lender]
    BY <1>3 DEF Fetched
  <2> QED
    BY <1>1, <2>2, <2>3 DEF View
<1>4. CASE account = "globalState"
  <2>1. treasury_wallet \in TreasuryWallets
    BY DEF CIInv, ClientTypeOK
  <2>2. Fetched(account, c.view, c.o, c.i) = [c.view EXCEPT !.treasury = treasury_wallet]
    BY <1>4 DEF Fetched
  <2> QED
    BY <1>1, <1>4, <2>1, <2>2 DEF View
<1> QED
  BY <1>2, <1>3, <1>4 DEF Accounts

LEMMA FetchKeeps ==
  ASSUME CIInv, TypeOK', NEW u \in Users, Fetch(u) PROVE CIInv'
<1> DEFINE c == call[u]
           account == Head(c.todo)
           d == [c EXCEPT !.todo = Tail(c.todo),
                          !.view = Fetched(account, c.view, c.o, c.i)]
           n == IF Exists(account, c.o, c.i) THEN d ELSE Idle
<1>1. /\ c # Idle /\ c.todo # <<>>
      /\ call' = [call EXCEPT ![u] = n]
      /\ UNCHANGED <<treasury_wallet, wsol_vaults, wire>>
  BY DEF Fetch
<1>2. /\ c \in CallRecord /\ WellFormed(u, c)
      /\ c.fn \in Creating => c.todo \in Seq({"offer", "globalState"})
      /\ c.fn = "updateLoanSubOffer" => c.todo = <<"subOffer">>
  BY <1>1 DEF CIInv, ClientTypeOK, CallsWellFormed
<1>3. c.todo \in Seq(Accounts)
  BY <1>2 DEF CallRecord
<1> HIDE DEF c
<1>4. /\ account \in Accounts /\ Tail(c.todo) \in Seq(Accounts)
      /\ c.fn \in Creating => /\ account \in {"offer", "globalState"}
                              /\ Tail(c.todo) \in Seq({"offer", "globalState"})
      /\ c.fn = "updateLoanSubOffer" => account = "subOffer" /\ Tail(c.todo) = <<>>
  <2>1. account \in Accounts /\ Tail(c.todo) \in Seq(Accounts)
    BY <1>1, <1>3
  <2>2. ASSUME c.fn \in Creating
        PROVE  account \in {"offer", "globalState"}
               /\ Tail(c.todo) \in Seq({"offer", "globalState"})
    BY <1>1, <1>2, <2>2
  <2>3. ASSUME c.fn = "updateLoanSubOffer" PROVE account = "subOffer" /\ Tail(c.todo) = <<>>
    <3>1. c.todo = <<"subOffer">>
      BY <1>2, <2>3
    <3>2. Head(<<"subOffer">>) = "subOffer" /\ Tail(<<"subOffer">>) = <<>>
      OBVIOUS
    <3> QED
      BY <3>1, <3>2
  <2> QED
    BY <2>1, <2>2, <2>3
<1> HIDE DEF account, d
<1>5. ASSUME Exists(account, c.o, c.i)
      PROVE  /\ d \in CallRecord /\ WellFormed(u, d)
             /\ d.fn \in Creating => d.todo \in Seq({"offer", "globalState"})
             /\ d.fn = "updateLoanSubOffer" => d.todo = <<>> /\ d.view.mint \in Mints
  <2> DEFINE v == Fetched(account, c.view, c.o, c.i)
  <2>1. account = "subOffer" => c.i \in SubNumbers
    BY <1>2, <1>4 DEF WellFormed
  <2>2. v \in View /\ (account = "subOffer" => v.mint \in Mints)
    BY <1>2, <1>4, <1>5, <2>1, FetchedTypes
  <2> HIDE DEF v
  <2>3. d = [c EXCEPT !.todo = Tail(c.todo), !.view = v]
    BY DEF d, v
  <2>4. /\ d \in CallRecord /\ d.fn = c.fn /\ d.i = c.i /\ d.args = c.args
        /\ d.todo = Tail(c.todo) /\ d.view = v
    BY <1>2, <1>4, <2>2, <2>3 DEF CallRecord
  <2> QED
    BY <1>2, <1>4, <2>2, <2>4 DEF WellFormed
<1>6. n = Idle \/ (n = d /\ Exists(account, c.o, c.i))
  OBVIOUS
<1> HIDE DEF n
<1>7. n \in CallRecord \cup {Idle}
  BY <1>5, <1>6
<1>8. ClientTypeOK'
  BY <1>1, <1>7 DEF CIInv, ClientTypeOK
<1>9. CallsWellFormed'
  <2>1. ASSUME NEW w \in Users, w # u PROVE call'[w] = call[w]
    BY <1>1, <2>1 DEF CIInv, ClientTypeOK
  <2>2. call'[u] = n
    BY <1>1 DEF CIInv, ClientTypeOK
  <2> QED
    BY <1>5, <1>6, <2>1, <2>2 DEF CIInv, CallsWellFormed
<1>10. WireWellFormed'
  BY <1>1 DEF CIInv, WireWellFormed
<1> QED
  BY <1>8, <1>9, <1>10 DEF CIInv

(* What is sent is what the call was given and has read.                   *)
LEMMA SendKeeps ==
  ASSUME CIInv, TypeOK', NEW u \in Users, Send(u) PROVE CIInv'
<1> DEFINE c == call[u]
<1>1. PICK k \in Tries :
        wire' = wire \cup {[signer |-> u, try |-> k, fn |-> c.fn, o |-> c.o, i |-> c.i,
                            args |-> c.args, view |-> c.view]}
  BY DEF Send
<1> DEFINE tx == [signer |-> u, try |-> k, fn |-> c.fn, o |-> c.o, i |-> c.i,
                  args |-> c.args, view |-> c.view]
<1>2. /\ c # Idle /\ c.todo = <<>>
      /\ call' = [call EXCEPT ![u] = Idle]
      /\ UNCHANGED <<treasury_wallet, wsol_vaults>>
  BY DEF Send
<1>3. /\ c \in CallRecord /\ WellFormed(u, c)
      /\ c.fn = "updateLoanSubOffer" => c.view.mint \in Mints
  BY <1>2 DEF CIInv, ClientTypeOK, CallsWellFormed
<1> HIDE DEF c
<1>4. /\ tx \in Request /\ tx.signer = u /\ tx.fn = c.fn /\ tx.i = c.i /\ tx.args = c.args
      /\ tx.view = c.view
  BY <1>3 DEF CallRecord, Request
<1>5. wire' = wire \cup {tx}
  BY <1>1
<1> HIDE DEF tx
<1>6. WellFormed(tx.signer, tx) /\ (tx.fn = "updateLoanSubOffer" => tx.view.mint \in Mints)
  BY <1>3, <1>4 DEF WellFormed
<1>7. ClientTypeOK'
  BY <1>2, <1>4, <1>5 DEF CIInv, ClientTypeOK
<1>8. CallsWellFormed'
  BY <1>2 DEF CIInv, ClientTypeOK, CallsWellFormed
<1>9. WireWellFormed'
  BY <1>5, <1>6 DEF CIInv, WireWellFormed
<1> QED
  BY <1>7, <1>8, <1>9 DEF CIInv

(* Landing and losing only shorten the wire.                               *)
LEMMA CIInvStep == CIInv /\ [ClientNext]_allVars => CIInv'
<1> SUFFICES ASSUME CIInv, [ClientNext]_allVars PROVE CIInv'
  OBVIOUS
<1>1. TypeOK'
  BY ClientStepIsLoanStep, TypeStep DEF CIInv, ClientTypeOK
<1>2. CASE Call
  BY <1>1, <1>2, CallKeeps
<1>3. ASSUME NEW u \in Users, Fetch(u) \/ Send(u) PROVE CIInv'
  BY <1>1, <1>3, FetchKeeps, SendKeeps
<1>4. ASSUME wire' \subseteq wire, treasury_wallet' \in TreasuryWallets, call' = call,
             wsol_vaults' \subseteq TreasuryWallets
      PROVE  CIInv'
  BY <1>1, <1>4 DEF CIInv, ClientTypeOK, CallsWellFormed, WireWellFormed
<1>5. ASSUME NEW tx \in wire, Land(tx) \/ Lose(tx) PROVE CIInv'
  BY <1>4, <1>5 DEF Land, Lose, CIInv, ClientTypeOK
<1>6. ASSUME NEW u \in SuperOwners, NEW d \in ExpireDurations, NEW w \in TreasuryWallets,
             UpdateLoanGlobalState(u, d, w)
      PROVE  CIInv'
  BY <1>4, <1>6 DEF UpdateLoanGlobalState, CIInv, ClientTypeOK
<1>7. CASE OpenTreasuryVault
  BY <1>4, <1>7 DEF OpenTreasuryVault, CIInv, ClientTypeOK
<1>8. CASE Direct
  BY <1>4, <1>8 DEF Direct, clientVars, CIInv, ClientTypeOK
<1>9. CASE UNCHANGED allVars
  BY <1>4, <1>9 DEF allVars, clientVars, CIInv, ClientTypeOK
<1> QED
  BY <1>2, <1>3, <1>5, <1>6, <1>7, <1>8, <1>9 DEF ClientNext

LEMMA ClientInvariance == ClientSpec => []CIInv
BY CIInvInit, CIInvStep, PTL DEF ClientSpec

(* Whatever wallets call, read and send, and however transactions land or  *)
(* get lost, the program goes through a behaviour of Loan: every theorem   *)
(* above holds of the accounts with the client at work.                    *)
THEOREM ClientImplementsLoan == ClientSpec => Spec
<1>1. ClientInit => Init
  BY DEF ClientInit
<1>2. QED
  BY <1>1, ClientInvariance, ClientStepIsLoanStep, PTL DEF ClientSpec, Spec

(* In particular the custody of the NFTs.                                  *)
THEOREM ClientKeepsCustody == ClientSpec => []Custody
BY ClientImplementsLoan, CustodyHolds, PTL

(* A lender never lends in another currency than the one read, for any     *)
(* number of wallets, listings, currencies and transactions on the wire.   *)
THEOREM LentAsRead == ClientSpec => LentInCurrencyRead
<1>1. ASSUME CIInv, [ClientNext]_allVars, NEW tx \in wire,
             tx.fn = "acceptLoanOffer", tx \notin wire',
             offer[tx.o].state # "Accepted", offer'[tx.o].state = "Accepted"
      PROVE  /\ sub_offer'[tx.o][tx.i].lender = tx.signer
             /\ sub_offer'[tx.o][tx.i].terms.mint = tx.view.mint
  <2>1. tx \in Request /\ WellFormed(tx.signer, tx)
    BY <1>1 DEF CIInv, ClientTypeOK, WireWellFormed
  <2>2. tx.o \in OfferKeys /\ tx.i \in SubNumbers
    BY <1>1, <2>1 DEF Request, WellFormed, Creating
  <2>3. LandAcceptOffer(tx)
    <3>1. \E t \in wire : Land(t) \/ Lose(t)
      BY <1>1 DEF ClientNext, Call, CallCreateLoanSubOffer, CallCreateLoanSubOfferByStaking,
         CallUpdateLoanSubOffer, CallDeleteLoanSubOffer, CallRepayLoan, CallAcceptLoanOffer,
         CallClaimLoanCollateral, CallClaimExpiredCollateral, Begin, Fetch, Send,
         UpdateLoanGlobalState, OpenTreasuryVault, Direct, clientVars, allVars
    <3>2. PICK t \in wire : Land(t) \/ Lose(t)
      BY <3>1
    <3>3. t = tx
      BY <1>1, <3>2 DEF Land, Lose
    <3>4. ~ Lose(tx)
      BY <1>1 DEF Lose, vars
    <3>5. Instruction(tx)
      BY <3>2, <3>3, <3>4 DEF Land
    <3> QED
      BY <1>1, <3>5 DEF Instruction
  <2>4. /\ sub_offer[tx.o][tx.i] \in SubOfferAccount
        /\ sub_offer[tx.o][tx.i].terms.mint = tx.view.mint
        /\ sub_offer' = [sub_offer EXCEPT ![tx.o][tx.i] =
             [sub_offer[tx.o][tx.i] EXCEPT !.state = "Accepted", !.lender = tx.signer,
                                           !.loan_started_time = now]]
    BY <1>1, <2>2, <2>3, SubOfferExists DEF LandAcceptOffer, AcceptOffer, CIInv, ClientTypeOK
  <2>5. sub_offer'[tx.o][tx.i]
          = [sub_offer[tx.o][tx.i] EXCEPT !.state = "Accepted", !.lender = tx.signer,
                                          !.loan_started_time = now]
    BY <1>1, <2>2, <2>4 DEF CIInv, ClientTypeOK, TypeOK
  <2>6. /\ sub_offer'[tx.o][tx.i].lender = tx.signer
        /\ sub_offer'[tx.o][tx.i].terms = sub_offer[tx.o][tx.i].terms
    <3> DEFINE s == sub_offer[tx.o][tx.i]
               x == sub_offer'[tx.o][tx.i]
               l == tx.signer
    <3>1. s \in SubOfferAccount
      BY <2>4
    <3>2. x = [s EXCEPT !.state = "Accepted", !.lender = l, !.loan_started_time = now]
      BY <2>5
    <3> HIDE DEF s, x, l
    <3>3. x.lender = l /\ x.terms = s.terms
      BY <3>1, <3>2 DEF SubOfferAccount
    <3> QED
      BY <3>3 DEF s, x, l
  <2>7. sub_offer[tx.o][tx.i].terms.mint = tx.view.mint
    BY <2>4
  <2> QED
    BY <2>6, <2>7
<1>2. CIInv /\ [ClientNext]_allVars =>
        [\A tx \in wire :
           /\ tx.fn = "acceptLoanOffer" /\ tx \notin wire'
           /\ offer[tx.o].state # "Accepted" /\ offer'[tx.o].state = "Accepted"
           => /\ sub_offer'[tx.o][tx.i].lender = tx.signer
              /\ sub_offer'[tx.o][tx.i].terms.mint = tx.view.mint]_allVars
  BY <1>1
<1>3. QED
  BY ClientInvariance, <1>2, PTL DEF ClientSpec, LentInCurrencyRead
=============================================================================
