------------------------------- MODULE Voting -------------------------------
(***************************************************************************)
(* The voting program programs/unloc-voting: numbered votings, the items   *)
(* (NFT collections) of each, and one permanent account for each wallet    *)
(* that has voted in it.  The loan program reads the scores to weigh the   *)
(* rewards of a collection.                                                *)
(*                                                                         *)
(* A handler is one atomic action.  A voter's score is the unloc_score of  *)
(* any of its staking accounts at that moment: some member of Scores.      *)
(***************************************************************************)
EXTENDS Naturals, FiniteSets, Functions

CONSTANTS
  SuperOwners,          \* wallets that may be GlobalState.super_owner
  Users,                \* wallets that vote
  Keys,                 \* collections, the `key` of a VotingItem
  Scores,               \* values of FarmPoolUserAccount.unloc_score
  Times,                \* values of the voting timestamps
  MaxVotings,           \* bound on voting numbers
  StartTime, MaxTime    \* bounds of the clock

ASSUME VotingAssumption ==
  /\ Scores \subseteq Nat
  /\ Times \subseteq Nat
  /\ IsFiniteSet(Keys) /\ IsFiniteSet(Users)  \* keys have 32 bytes
  /\ MaxVotings \in Nat \ {0}
  /\ StartTime \in Nat /\ MaxTime \in Nat

VARIABLES
  now,                  \* Clock.unix_timestamp
  global_state,         \* GlobalState
  voting,               \* Voting accounts by voting_number
  voting_item,          \* VotingItem accounts by (voting, key)
  voting_user           \* VotingUser accounts by (voting, wallet)

vars == <<now, global_state, voting, voting_item, voting_user>>

Numbers == 0 .. MaxVotings - 1

None == [exists |-> FALSE]

VotingAccount ==
  [exists : {TRUE}, voting_start_timestamp : Times, voting_end_timestamp : Times,
   total_score : Nat, total_items : Nat]

VotingItem == [exists : {TRUE}, voting_score : Nat]

VotingUser == [exists : {TRUE}, voting_item : Keys, voting_score : Scores]

TypeOK ==
  /\ now \in Nat
  /\ global_state \in [super_owner : SuperOwners, voting_count : Nat]
  /\ voting \in [Numbers -> VotingAccount \cup {None}]
  /\ voting_item \in [Numbers -> [Keys -> VotingItem \cup {None}]]
  /\ voting_user \in [Numbers -> [Users -> VotingUser \cup {None}]]

(* After create_global_state.                                              *)
Init ==
  /\ now = StartTime
  /\ global_state \in [super_owner : SuperOwners, voting_count : {0}]
  /\ voting = [n \in Numbers |-> None]
  /\ voting_item = [n \in Numbers |-> [k \in Keys |-> None]]
  /\ voting_user = [n \in Numbers |-> [u \in Users |-> None]]

-----------------------------------------------------------------------------
(* Faulty variants.  No action uses them: each shows that a property tells *)
(* the code from a plausible mistake.                                      *)

(* a voting number may be the one after the next *)
ValidNumberLoose(n) == n <= global_state.voting_count + 1

(* del_voting_item that keeps the score in the total *)
DelVotingItemKeepScore(s, n, k) ==
  /\ s = global_state.super_owner
  /\ voting[n].exists /\ voting_item[n][k].exists
  /\ voting' = [voting EXCEPT ![n].total_items = @ - 1]
  /\ voting_item' = [voting_item EXCEPT ![n][k] = None]
  /\ UNCHANGED <<now, global_state, voting_user>>

(* vote into an existing VotingUser account, as with init_if_needed *)
VoteAgain(u, n, k, score) ==
  /\ voting[n].exists /\ voting_item[n][k].exists
  /\ voting_user' =
       [voting_user EXCEPT ![n][u] =
          [exists |-> TRUE, voting_item |-> k, voting_score |-> score]]
  /\ voting' = [voting EXCEPT ![n].total_score = @ + score]
  /\ voting_item' = [voting_item EXCEPT ![n][k].voting_score = @ + score]
  /\ UNCHANGED <<now, global_state>>

(* set_voting_item that subtracts where it should add *)
SetVotingItemSubtract(s, n, k) ==
  /\ s = global_state.super_owner
  /\ voting[n].exists /\ ~voting_item[n][k].exists
  /\ voting' = [voting EXCEPT ![n].total_items = @ - 1]
  /\ voting_item' = [voting_item EXCEPT ![n][k] = [exists |-> TRUE, voting_score |-> 0]]
  /\ UNCHANGED <<now, global_state, voting_user>>

(* set_voting_item with init_if_needed: the item may exist already *)
SetVotingItemAgain(s, n, k) ==
  /\ s = global_state.super_owner
  /\ voting[n].exists
  /\ voting' = [voting EXCEPT ![n].total_items = @ + 1]
  /\ voting_item' = [voting_item EXCEPT ![n][k] = [exists |-> TRUE, voting_score |-> 0]]
  /\ UNCHANGED <<now, global_state, voting_user>>

-----------------------------------------------------------------------------
(* Administrator instructions.                                             *)

(* the constraint on voting_number *)
ValidNumber(n) == n <= global_state.voting_count

(* is_zero_account: init_if_needed has just created the account *)
IsZeroAccount(n) == ~voting[n].exists

(* Creates a voting, or gives an existing one a new period.                *)
SetVoting(s, n, start, end) ==
  /\ s = global_state.super_owner
  /\ ValidNumber(n)
  /\ IF IsZeroAccount(n)
     THEN /\ global_state' = [global_state EXCEPT !.voting_count = @ + 1]
          /\ voting' = [voting EXCEPT ![n] =
               [exists |-> TRUE, voting_start_timestamp |-> start,
                voting_end_timestamp |-> end, total_score |-> 0, total_items |-> 0]]
     ELSE /\ voting' = [voting EXCEPT ![n] =
               [@ EXCEPT !.voting_start_timestamp = start, !.voting_end_timestamp = end]]
          /\ UNCHANGED global_state
  /\ UNCHANGED <<now, voting_item, voting_user>>

SetVotingItem(s, n, k) ==
  /\ s = global_state.super_owner
  /\ voting[n].exists /\ ~voting_item[n][k].exists
  /\ voting' = [voting EXCEPT ![n].total_items = @ + 1]
  /\ voting_item' = [voting_item EXCEPT ![n][k] = [exists |-> TRUE, voting_score |-> 0]]
  /\ UNCHANGED <<now, global_state, voting_user>>

(* The votes for the item leave the total; the VotingUser accounts stay.   *)
DelVotingItem(s, n, k) ==
  /\ s = global_state.super_owner
  /\ voting[n].exists /\ voting_item[n][k].exists
  /\ voting_item[n][k].voting_score <= voting[n].total_score
  /\ voting[n].total_items > 0
  /\ voting' = [voting EXCEPT
       ![n] = [voting[n] EXCEPT !.total_score = @ - voting_item[n][k].voting_score,
                                !.total_items = @ - 1]]
  /\ voting_item' = [voting_item EXCEPT ![n][k] = None]
  /\ UNCHANGED <<now, global_state, voting_user>>

UpdateGlobalState(s, new_super_owner) ==
  /\ s = global_state.super_owner
  /\ global_state' = [global_state EXCEPT !.super_owner = new_super_owner]
  /\ UNCHANGED <<now, voting, voting_item, voting_user>>

-----------------------------------------------------------------------------
(* A vote, at any time: the handler has no clock.  `init` of the           *)
(* VotingUser account fails for a wallet that has voted before.            *)
Vote(u, n, k, score) ==
  /\ voting[n].exists /\ voting_item[n][k].exists
  /\ ~voting_user[n][u].exists
  /\ voting_user' =
       [voting_user EXCEPT ![n][u] =
          [exists |-> TRUE, voting_item |-> k, voting_score |-> score]]
  /\ voting' = [voting EXCEPT ![n].total_score = @ + score]
  /\ voting_item' = [voting_item EXCEPT ![n][k].voting_score = @ + score]
  /\ UNCHANGED <<now, global_state>>

Tick ==
  /\ now < MaxTime
  /\ now' = now + 1
  /\ UNCHANGED <<global_state, voting, voting_item, voting_user>>

Next ==
  \/ \E s \in SuperOwners, n \in Numbers, start, end \in Times : SetVoting(s, n, start, end)
  \/ \E s \in SuperOwners, n \in Numbers, k \in Keys :
       SetVotingItem(s, n, k) \/ DelVotingItem(s, n, k)
  \/ \E s, new \in SuperOwners : UpdateGlobalState(s, new)
  \/ \E u \in Users, n \in Numbers, k \in Keys, score \in Scores : Vote(u, n, k, score)
  \/ Tick

Spec == Init /\ [][Next]_vars

-----------------------------------------------------------------------------
(* Properties.                                                             *)

Items(n) == {k \in Keys : voting_item[n][k].exists}

Voters(n, k) ==
  {u \in Users : voting_user[n][u].exists /\ voting_user[n][u].voting_item = k}

(* The votings are exactly the numbers below voting_count: the client      *)
(* finds the current voting by that count, so no number may be skipped.    *)
NumbersDense == \A n \in Numbers : voting[n].exists <=> n < global_state.voting_count

(* total_items counts the items that exist, so that the checked            *)
(* subtraction never keeps an item from being deleted.                     *)
ItemsCounted ==
  \A n \in Numbers :
    voting[n].exists => voting[n].total_items = Cardinality(Items(n))

(* The total of a voting is the sum over its items, whatever is voted,     *)
(* deleted and created again: the shares of the collections add up to 1.   *)
TotalsAgree ==
  \A n \in Numbers :
    voting[n].exists =>
      voting[n].total_score =
        SumFunction([k \in Items(n) |-> voting_item[n][k].voting_score])

(* An item's score comes from the votes on record, each counted at most    *)
(* once.  It is less than their sum only after the item was deleted and    *)
(* created again.                                                          *)
ScoreFromVotes ==
  \A n \in Numbers, k \in Keys : voting_item[n][k].exists =>
    voting_item[n][k].voting_score
      <= SumFunction([u \in Voters(n, k) |-> voting_user[n][u].voting_score])

(* README: "Votes will be held during a period of time".  A vote is cast   *)
(* between the voting's start and its end.                                 *)
VotesDuringPeriod ==
  [][\A n \in Numbers, u \in Users :
       ~voting_user[n][u].exists /\ voting_user'[n][u].exists =>
         /\ voting[n].voting_start_timestamp <= now
         /\ now <= voting[n].voting_end_timestamp]_vars
=============================================================================
