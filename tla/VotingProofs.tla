---------------------------- MODULE VotingProofs ----------------------------
(***************************************************************************)
(* Proofs about Voting, for every number of votings, items and voters and  *)
(* every score.  Two facts make the counts inductive: a voting that does   *)
(* not exist has no items, and Keys is finite, so that an item more or     *)
(* less changes the cardinality by one.                                    *)
(***************************************************************************)
EXTENDS Voting, Sums, FiniteSetTheorems, TLAPS

(* Items are created only under a voting that exists.                      *)
NoOrphans == \A n \in Numbers : ~voting[n].exists => Items(n) = {}

Counted == NoOrphans /\ ItemsCounted

-----------------------------------------------------------------------------
(* Accounts that exist have their layout.                                  *)
LEMMA Existing ==
  ASSUME TypeOK, NEW n \in Numbers
  PROVE  /\ voting[n].exists => voting[n] \in VotingAccount
         /\ \A k \in Keys :
              voting_item[n][k].exists => voting_item[n][k] \in VotingItem
  BY DEF TypeOK, None

LEMMA VotingTypes ==
  ASSUME NEW v \in VotingAccount
  PROVE  /\ v.total_score \in Nat /\ v.total_items \in Nat /\ v.exists
         /\ \A x, y \in Nat :
              /\ [v EXCEPT !.total_score = x] \in VotingAccount
              /\ [v EXCEPT !.total_items = y] \in VotingAccount
              /\ [v EXCEPT !.total_score = x, !.total_items = y] \in VotingAccount
         /\ \A s, e \in Times :
              [v EXCEPT !.voting_start_timestamp = s, !.voting_end_timestamp = e]
                \in VotingAccount
  BY DEF VotingAccount

LEMMA ItemTypes ==
  /\ [exists |-> TRUE, voting_score |-> 0] \in VotingItem
  /\ \A v \in VotingItem : v.voting_score \in Nat /\ v.exists
  /\ \A v \in VotingItem, x \in Nat : [v EXCEPT !.voting_score = x] \in VotingItem
  BY DEF VotingItem

LEMMA UserTypes ==
  \A k \in Keys, s \in Scores :
    [exists |-> TRUE, voting_item |-> k, voting_score |-> s] \in VotingUser
  BY DEF VotingUser

LEMMA ItemUpdate ==
  ASSUME TypeOK, NEW n \in Numbers, NEW k \in Keys, NEW v \in VotingItem \cup {None}
  PROVE  [voting_item EXCEPT ![n][k] = v] \in [Numbers -> [Keys -> VotingItem \cup {None}]]
  BY DEF TypeOK

LEMMA TypeInit == Init => TypeOK
  BY VotingAssumption DEF Init, TypeOK

LEMMA TypeStep == TypeOK /\ [Next]_vars => TypeOK'
<1> SUFFICES ASSUME TypeOK, [Next]_vars PROVE TypeOK'
  OBVIOUS
<1>1. ASSUME NEW s \in SuperOwners, NEW n \in Numbers, NEW start \in Times,
             NEW end \in Times, SetVoting(s, n, start, end)
      PROVE  TypeOK'
  <2>1. CASE voting[n].exists
    <3>1. voting' = [voting EXCEPT ![n] =
            [@ EXCEPT !.voting_start_timestamp = start, !.voting_end_timestamp = end]]
          /\ UNCHANGED <<now, global_state, voting_item, voting_user>>
      BY <1>1, <2>1 DEF SetVoting, IsZeroAccount
    <3>2. QED
      BY <2>1, <3>1, Existing, VotingTypes DEF TypeOK
  <2>2. CASE ~voting[n].exists
    <3> DEFINE v == [exists |-> TRUE, voting_start_timestamp |-> start,
                     voting_end_timestamp |-> end, total_score |-> 0, total_items |-> 0]
    <3>1. v \in VotingAccount
      BY DEF VotingAccount
    <3> HIDE DEF v
    <3>2. /\ voting' = [voting EXCEPT ![n] = v]
          /\ global_state' = [global_state EXCEPT !.voting_count = @ + 1]
          /\ UNCHANGED <<now, voting_item, voting_user>>
      BY <1>1, <2>2 DEF SetVoting, IsZeroAccount, v
    <3>3. global_state' \in [super_owner : SuperOwners, voting_count : Nat]
      BY <3>2 DEF TypeOK
    <3>4. QED
      BY <3>1, <3>2, <3>3 DEF TypeOK
  <2>3. QED
    BY <2>1, <2>2
<1>2. ASSUME NEW s \in SuperOwners, NEW n \in Numbers, NEW k \in Keys,
             SetVotingItem(s, n, k)
      PROVE  TypeOK'
  <2>1. [voting[n] EXCEPT !.total_items = @ + 1] \in VotingAccount
    <3>1. voting[n] \in VotingAccount
      BY <1>2, Existing DEF SetVotingItem
    <3>2. voting[n].total_items \in Nat
      BY <3>1, VotingTypes
    <3>3. voting[n].total_items + 1 \in Nat
      BY <3>2
    <3>4. QED
      BY <3>1, <3>3, VotingTypes
  <2>2. voting' \in [Numbers -> VotingAccount \cup {None}]
    BY <1>2, <2>1 DEF SetVotingItem, TypeOK
  <2>3. voting_item' \in [Numbers -> [Keys -> VotingItem \cup {None}]]
    BY <1>2, ItemUpdate, ItemTypes DEF SetVotingItem
  <2>4. QED
    BY <1>2, <2>2, <2>3 DEF SetVotingItem, TypeOK
<1>3. ASSUME NEW s \in SuperOwners, NEW n \in Numbers, NEW k \in Keys,
             DelVotingItem(s, n, k)
      PROVE  TypeOK'
  <2> DEFINE score == voting[n].total_score - voting_item[n][k].voting_score
             items == voting[n].total_items - 1
  <2>1. voting[n] \in VotingAccount /\ voting_item[n][k] \in VotingItem
    BY <1>3, Existing DEF DelVotingItem
  <2>2. score \in Nat /\ items \in Nat
    <3>1. /\ voting_item[n][k].voting_score <= voting[n].total_score
          /\ voting[n].total_items > 0
      BY <1>3 DEF DelVotingItem
    <3>2. /\ voting[n].total_score \in Nat /\ voting[n].total_items \in Nat
          /\ voting_item[n][k].voting_score \in Nat
      BY <2>1, VotingTypes, ItemTypes
    <3>3. QED
      BY <3>1, <3>2
  <2>3. [voting[n] EXCEPT !.total_score = score, !.total_items = items] \in VotingAccount
    BY <2>1, <2>2, VotingTypes
  <2>4. voting' \in [Numbers -> VotingAccount \cup {None}]
    BY <1>3, <2>3 DEF DelVotingItem, TypeOK
  <2>5. voting_item' \in [Numbers -> [Keys -> VotingItem \cup {None}]]
    BY <1>3, ItemUpdate DEF DelVotingItem
  <2>6. QED
    BY <1>3, <2>4, <2>5 DEF DelVotingItem, TypeOK
<1>4. ASSUME NEW s \in SuperOwners, NEW new \in SuperOwners, UpdateGlobalState(s, new)
      PROVE  TypeOK'
  BY <1>4 DEF UpdateGlobalState, TypeOK
<1>5. ASSUME NEW u \in Users, NEW n \in Numbers, NEW k \in Keys, NEW score \in Scores,
             Vote(u, n, k, score)
      PROVE  TypeOK'
  <2>1. voting[n] \in VotingAccount /\ voting_item[n][k] \in VotingItem
    BY <1>5, Existing DEF Vote
  <2>2. score \in Nat
    BY VotingAssumption
  <2>3. [voting[n] EXCEPT !.total_score = @ + score] \in VotingAccount
    <3>1. voting[n].total_score \in Nat
      BY <2>1, VotingTypes
    <3>2. voting[n].total_score + score \in Nat
      BY <2>2, <3>1
    <3>3. QED
      BY <2>1, <3>2, VotingTypes
  <2>4. [voting_item[n][k] EXCEPT !.voting_score = @ + score] \in VotingItem
    BY <2>1, <2>2, ItemTypes
  <2>5. voting' \in [Numbers -> VotingAccount \cup {None}]
    BY <1>5, <2>3 DEF Vote, TypeOK
  <2>6. voting_item' \in [Numbers -> [Keys -> VotingItem \cup {None}]]
    BY <1>5, <2>4, ItemUpdate DEF Vote
  <2>7. voting_user' \in [Numbers -> [Users -> VotingUser \cup {None}]]
    BY <1>5, UserTypes DEF Vote, TypeOK
  <2>8. QED
    BY <1>5, <2>5, <2>6, <2>7 DEF Vote, TypeOK
<1>6. CASE Tick
  BY <1>6, VotingAssumption DEF Tick, TypeOK
<1>7. CASE UNCHANGED vars
  BY <1>7 DEF vars, TypeOK
<1>8. QED
  BY <1>1, <1>2, <1>3, <1>4, <1>5, <1>6, <1>7 DEF Next

(* The program's accounts stay within their layouts: in particular no      *)
(* total and no count ever goes below zero.                                *)
THEOREM TypeCorrect == Spec => []TypeOK
  BY TypeInit, TypeStep, PTL DEF Spec

-----------------------------------------------------------------------------
(* How each action changes what exists.                                    *)

(* Only set_voting creates a voting.                                       *)
LEMMA VotingsKept ==
  ASSUME TypeOK, [Next]_vars,
         ~\E s \in SuperOwners, n \in Numbers, start, end \in Times :
            SetVoting(s, n, start, end)
  PROVE  /\ global_state'.voting_count = global_state.voting_count
         /\ \A n \in Numbers : voting'[n].exists = voting[n].exists
<1>1. ASSUME NEW s \in SuperOwners, NEW n \in Numbers, NEW k \in Keys,
             SetVotingItem(s, n, k) \/ DelVotingItem(s, n, k)
      PROVE  /\ global_state'.voting_count = global_state.voting_count
             /\ \A m \in Numbers : voting'[m].exists = voting[m].exists
  <2>1. voting[n] \in VotingAccount
    BY <1>1, Existing DEF SetVotingItem, DelVotingItem
  <2>2. PICK x, y : voting' = [voting EXCEPT
                      ![n] = [voting[n] EXCEPT !.total_score = x, !.total_items = y]]
    <3>1. CASE SetVotingItem(s, n, k)
      <4> DEFINE v == voting[n]
      <4>1. [v EXCEPT !.total_items = v.total_items + 1]
              = [v EXCEPT !.total_score = v.total_score, !.total_items = v.total_items + 1]
        BY <2>1 DEF VotingAccount
      <4>2. QED
        BY <3>1, <4>1 DEF SetVotingItem
    <3>2. CASE DelVotingItem(s, n, k)
      BY <3>2 DEF DelVotingItem
    <3>3. QED
      BY <1>1, <3>1, <3>2
  <2>3. \A m \in Numbers : voting'[m].exists = voting[m].exists
    BY <2>1, <2>2 DEF TypeOK, VotingAccount
  <2>4. QED
    BY <1>1, <2>3 DEF SetVotingItem, DelVotingItem
<1>2. ASSUME NEW u \in Users, NEW n \in Numbers, NEW k \in Keys, NEW score \in Scores,
             Vote(u, n, k, score)
      PROVE  /\ global_state'.voting_count = global_state.voting_count
             /\ \A m \in Numbers : voting'[m].exists = voting[m].exists
  <2>1. voting[n] \in VotingAccount
    BY <1>2, Existing DEF Vote
  <2>2. PICK x : voting' = [voting EXCEPT ![n] = [voting[n] EXCEPT !.total_score = x]]
    BY <1>2 DEF Vote
  <2>3. \A m \in Numbers : voting'[m].exists = voting[m].exists
    BY <2>1, <2>2 DEF TypeOK, VotingAccount
  <2>4. QED
    BY <1>2, <2>3 DEF Vote
<1>3. CASE \E s, new \in SuperOwners : UpdateGlobalState(s, new)
  BY <1>3 DEF UpdateGlobalState, TypeOK
<1>4. CASE Tick
  BY <1>4 DEF Tick
<1>5. CASE UNCHANGED vars
  BY <1>5 DEF vars
<1>6. QED
  BY <1>1, <1>2, <1>3, <1>4, <1>5 DEF Next

LEMMA NumbersStep == TypeOK /\ NumbersDense /\ [Next]_vars => NumbersDense'
<1> SUFFICES ASSUME TypeOK, NumbersDense, [Next]_vars PROVE NumbersDense'
  OBVIOUS
<1>1. ASSUME NEW s \in SuperOwners, NEW n \in Numbers, NEW start \in Times,
             NEW end \in Times, SetVoting(s, n, start, end)
      PROVE  NumbersDense'
  <2>1. global_state.voting_count \in Nat /\ n \in Nat
    BY VotingAssumption DEF TypeOK, Numbers
  <2>2. CASE voting[n].exists
    <3>1. voting[n] \in VotingAccount
      BY <2>2, Existing
    <3>2. voting' = [voting EXCEPT ![n] =
            [@ EXCEPT !.voting_start_timestamp = start, !.voting_end_timestamp = end]]
          /\ UNCHANGED global_state
      BY <1>1, <2>2 DEF SetVoting, IsZeroAccount
    <3>3. \A m \in Numbers : voting'[m].exists = voting[m].exists
      BY <3>1, <3>2 DEF TypeOK, VotingAccount
    <3>4. QED
      BY <3>2, <3>3 DEF NumbersDense
  <2>3. CASE ~voting[n].exists
    <3>1. n = global_state.voting_count
      BY <1>1, <2>1, <2>3 DEF SetVoting, ValidNumber, NumbersDense
    <3>2. global_state'.voting_count = n + 1
      BY <1>1, <2>3, <3>1 DEF SetVoting, IsZeroAccount, TypeOK
    <3>3. \A m \in Numbers : voting'[m].exists <=> (m = n \/ voting[m].exists)
      BY <1>1, <2>3 DEF SetVoting, IsZeroAccount, TypeOK
    <3>4. Numbers \subseteq Nat
      BY VotingAssumption DEF Numbers
    <3>5. \A m \in Numbers : m < n + 1 <=> (m = n \/ m < n)
      BY <2>1, <3>4
    <3>6. QED
      BY <3>1, <3>2, <3>3, <3>5 DEF NumbersDense
  <2>4. QED
    BY <2>2, <2>3
<1>2. CASE ~\E s \in SuperOwners, n \in Numbers, start, end \in Times :
              SetVoting(s, n, start, end)
  BY <1>2, VotingsKept DEF NumbersDense
<1>3. QED
  BY <1>1, <1>2

(* The votings are numbered 0, 1, 2, ... without a gap, so the client's    *)
(* "last voting", number voting_count - 1, always exists.                  *)
THEOREM NumbersAreDense == Spec => []NumbersDense
<1>1. Init => NumbersDense
  BY VotingAssumption DEF Init, NumbersDense, None, Numbers
<1>2. QED
  BY <1>1, TypeInit, TypeStep, NumbersStep, PTL DEF Spec

-----------------------------------------------------------------------------
(* Items and their count.                                                  *)

(* The items after an action: one more, one less or the same.              *)
LEMMA ItemsAfter ==
  ASSUME TypeOK, NEW n \in Numbers, NEW k \in Keys, NEW v \in VotingItem \cup {None},
         voting_item' = [voting_item EXCEPT ![n][k] = v]
  PROVE  /\ v.exists => Items(n)' = Items(n) \cup {k}
         /\ ~v.exists => Items(n)' = Items(n) \ {k}
         /\ \A m \in Numbers \ {n} : Items(m)' = Items(m)
  BY DEF Items, TypeOK

LEMMA ItemsFinite == \A n \in Numbers : IsFiniteSet(Items(n)) /\ Cardinality(Items(n)) \in Nat
<1> SUFFICES ASSUME NEW n \in Numbers
             PROVE  IsFiniteSet(Items(n)) /\ Cardinality(Items(n)) \in Nat
  OBVIOUS
<1>1. Items(n) \in SUBSET Keys
  BY DEF Items
<1>2. IsFiniteSet(Items(n))
  BY <1>1, VotingAssumption, FS_Subset
<1>3. QED
  BY <1>2, FS_CardinalityType

LEMMA CountedStep == TypeOK /\ Counted /\ [Next]_vars => Counted'
<1> SUFFICES ASSUME TypeOK, Counted, [Next]_vars PROVE Counted'
  OBVIOUS
<1>1. ASSUME NEW s \in SuperOwners, NEW n \in Numbers, NEW start \in Times,
             NEW end \in Times, SetVoting(s, n, start, end)
      PROVE  Counted'
  <2>1. \A m \in Numbers : Items(m)' = Items(m)
    BY <1>1 DEF SetVoting, Items
  <2>2. CASE voting[n].exists
    <3>1. voting[n] \in VotingAccount
      BY <2>2, Existing
    <3>2. voting' = [voting EXCEPT ![n] =
            [@ EXCEPT !.voting_start_timestamp = start, !.voting_end_timestamp = end]]
      BY <1>1, <2>2 DEF SetVoting, IsZeroAccount
    <3>3. \A m \in Numbers : /\ voting'[m].exists = voting[m].exists
                             /\ voting'[m].total_items = voting[m].total_items
      BY <3>1, <3>2 DEF TypeOK, VotingAccount
    <3>4. QED
      BY <2>1, <3>3 DEF Counted, NoOrphans, ItemsCounted
  <2>3. CASE ~voting[n].exists
    <3>1. Cardinality(Items(n)) = 0
      BY <2>3, FS_EmptySet DEF Counted, NoOrphans
    <3>2. /\ voting'[n].exists /\ voting'[n].total_items = 0
          /\ \A m \in Numbers \ {n} : voting'[m] = voting[m]
      BY <1>1, <2>3 DEF SetVoting, IsZeroAccount, TypeOK
    <3>3. QED
      BY <2>1, <3>1, <3>2 DEF Counted, NoOrphans, ItemsCounted
  <2>4. QED
    BY <2>2, <2>3
<1>2. ASSUME NEW s \in SuperOwners, NEW n \in Numbers, NEW k \in Keys,
             SetVotingItem(s, n, k)
      PROVE  Counted'
  <2>1. voting[n] \in VotingAccount /\ voting[n].exists /\ k \notin Items(n)
    BY <1>2, Existing DEF SetVotingItem, Items
  <2>2. /\ Items(n)' = Items(n) \cup {k}
        /\ \A m \in Numbers \ {n} : Items(m)' = Items(m)
    BY <1>2, ItemsAfter, ItemTypes DEF SetVotingItem
  <2>3. Cardinality(Items(n)') = Cardinality(Items(n)) + 1
    BY <2>1, <2>2, ItemsFinite, FS_AddElement
  <2>4. /\ voting'[n].exists /\ voting'[n].total_items = voting[n].total_items + 1
        /\ \A m \in Numbers \ {n} : voting'[m] = voting[m]
    BY <1>2, <2>1 DEF SetVotingItem, TypeOK, VotingAccount
  <2>5. QED
    BY <2>1, <2>2, <2>3, <2>4 DEF Counted, NoOrphans, ItemsCounted
<1>3. ASSUME NEW s \in SuperOwners, NEW n \in Numbers, NEW k \in Keys,
             DelVotingItem(s, n, k)
      PROVE  Counted'
  <2>1. voting[n] \in VotingAccount /\ voting[n].exists /\ k \in Items(n)
    BY <1>3, Existing DEF DelVotingItem, Items
  <2>2. /\ Items(n)' = Items(n) \ {k}
        /\ \A m \in Numbers \ {n} : Items(m)' = Items(m)
    <3>1. voting_item' = [voting_item EXCEPT ![n][k] = None]
      BY <1>3 DEF DelVotingItem
    <3>2. ~None.exists
      BY DEF None
    <3>3. QED
      BY <3>1, <3>2, ItemsAfter
  <2>3. Cardinality(Items(n)') = Cardinality(Items(n)) - 1
    BY <2>1, <2>2, ItemsFinite, FS_RemoveElement
  <2>4. /\ voting'[n].exists /\ voting'[n].total_items = voting[n].total_items - 1
        /\ \A m \in Numbers \ {n} : voting'[m] = voting[m]
    BY <1>3, <2>1 DEF DelVotingItem, TypeOK, VotingAccount
  <2>5. QED
    BY <2>1, <2>2, <2>3, <2>4 DEF Counted, NoOrphans, ItemsCounted
<1>4. ASSUME NEW u \in Users, NEW n \in Numbers, NEW k \in Keys, NEW score \in Scores,
             Vote(u, n, k, score)
      PROVE  Counted'
  <2>1. /\ voting[n] \in VotingAccount
        /\ voting_item[n][k] \in VotingItem /\ k \in Items(n)
    BY <1>4, Existing DEF Vote, Items
  <2>2. PICK x : voting_item' =
                   [voting_item EXCEPT ![n][k] = [voting_item[n][k] EXCEPT !.voting_score = x]]
    BY <1>4 DEF Vote
  <2>3. \A m \in Numbers : Items(m)' = Items(m)
    BY <2>1, <2>2 DEF Items, TypeOK, VotingItem
  <2>4. PICK y : voting' = [voting EXCEPT ![n] = [voting[n] EXCEPT !.total_score = y]]
    BY <1>4 DEF Vote
  <2>5. \A m \in Numbers : /\ voting'[m].exists = voting[m].exists
                           /\ voting'[m].total_items = voting[m].total_items
    BY <2>1, <2>4 DEF TypeOK, VotingAccount
  <2>6. QED
    BY <2>3, <2>5 DEF Counted, NoOrphans, ItemsCounted
<1>5. CASE UNCHANGED <<voting, voting_item>>
  BY <1>5 DEF Counted, NoOrphans, ItemsCounted, Items
<1>6. QED
  BY <1>1, <1>2, <1>3, <1>4, <1>5 DEF Next, UpdateGlobalState, Tick, vars

(* total_items is the number of items that exist, for any sequence of      *)
(* creations, votes and deletions.                                         *)
THEOREM ItemsAreCounted == Spec => []ItemsCounted
<1>1. Init => Counted
  BY VotingAssumption, FS_EmptySet DEF Init, Counted, NoOrphans, ItemsCounted, Items, None
<1>2. Counted => ItemsCounted
  BY DEF Counted
<1>3. QED
  BY <1>1, <1>2, TypeInit, TypeStep, CountedStep, PTL DEF Spec

-----------------------------------------------------------------------------
(* The total score.                                                        *)

ItemScore(n) == [k \in Items(n) |-> voting_item[n][k].voting_score]

ItemTotal(n) == SumFunctionOnSet(ItemScore(n), Items(n))

(* A voting that does not exist has no items, so a new one starts at zero. *)
Totalled == NoOrphans /\ TotalsAgree

LEMMA TotalIsSum ==
  /\ TotalsAgree <=>
       \A n \in Numbers : voting[n].exists => voting[n].total_score = ItemTotal(n)
  /\ TotalsAgree' <=>
       \A n \in Numbers : voting'[n].exists => voting'[n].total_score = ItemTotal(n)'
<1>1. \A n \in Numbers :
        /\ SumFunction([k \in Items(n) |-> voting_item[n][k].voting_score]) = ItemTotal(n)
        /\ SumFunction([k \in Items(n) |-> voting_item[n][k].voting_score])' = ItemTotal(n)'
  BY DEF SumFunction, ItemTotal, ItemScore
<1>2. QED
  BY <1>1 DEF TotalsAgree

LEMMA ItemScoreType ==
  ASSUME TypeOK, NEW n \in Numbers
  PROVE  /\ \A k \in Items(n) : ItemScore(n)[k] \in Nat
                               /\ ItemScore(n)[k] = voting_item[n][k].voting_score
         /\ ItemTotal(n) \in Nat
<1>1. \A k \in Items(n) : ItemScore(n)[k] = voting_item[n][k].voting_score
  BY DEF ItemScore
<1>2. \A k \in Items(n) : voting_item[n][k] \in VotingItem
  BY Existing DEF Items
<1>3. \A k \in Items(n) : ItemScore(n)[k] \in Nat
  BY <1>1, <1>2, ItemTypes
<1>4. QED
  BY <1>1, <1>3, ItemsFinite, SumType DEF ItemTotal

(* An action that leaves the items of a voting leaves their sum.           *)
LEMMA OtherTotals ==
  ASSUME NEW n \in Numbers, NEW k \in Keys, NEW v,
         TypeOK, voting_item' = [voting_item EXCEPT ![n][k] = v], NEW m \in Numbers \ {n}
  PROVE  ItemTotal(m)' = ItemTotal(m)
  BY DEF TypeOK, ItemTotal, ItemScore, Items

LEMMA TotalledStep == TypeOK /\ TypeOK' /\ Totalled /\ [Next]_vars => TotalsAgree'
<1> SUFFICES ASSUME TypeOK, TypeOK', Totalled, [Next]_vars,
                    NEW m \in Numbers, voting'[m].exists
             PROVE  voting'[m].total_score = ItemTotal(m)'
  BY TotalIsSum
<1> DEFINE Goal == voting'[m].total_score = ItemTotal(m)'
<1>0. voting[m].exists => voting[m].total_score = ItemTotal(m)
  BY TotalIsSum DEF Totalled
<1>1. ASSUME NEW s \in SuperOwners, NEW n \in Numbers, NEW start \in Times,
             NEW end \in Times, SetVoting(s, n, start, end)
      PROVE  Goal
  <2>1. ItemTotal(m)' = ItemTotal(m)
    BY <1>1 DEF SetVoting, ItemTotal, ItemScore, Items
  <2>2. CASE voting[n].exists
    <3>1. voting[n] \in VotingAccount
      BY <2>2, Existing
    <3>2. voting' = [voting EXCEPT ![n] =
            [@ EXCEPT !.voting_start_timestamp = start, !.voting_end_timestamp = end]]
      BY <1>1, <2>2 DEF SetVoting, IsZeroAccount
    <3>3. voting'[m].exists = voting[m].exists /\ voting'[m].total_score = voting[m].total_score
      BY <3>1, <3>2 DEF TypeOK, VotingAccount
    <3>4. QED
      BY <1>0, <2>1, <3>3
  <2>3. CASE ~voting[n].exists
    <3>1. /\ voting'[n].total_score = 0
          /\ \A l \in Numbers \ {n} : voting'[l] = voting[l]
      BY <1>1, <2>3 DEF SetVoting, IsZeroAccount, TypeOK
    <3>2. ItemTotal(n) = 0
      BY <2>3, SumEmpty DEF Totalled, NoOrphans, ItemTotal
    <3>3. QED
      BY <1>0, <2>1, <3>1, <3>2
  <2>4. QED
    BY <2>2, <2>3
<1>2. ASSUME NEW s \in SuperOwners, NEW n \in Numbers, NEW k \in Keys,
             SetVotingItem(s, n, k)
      PROVE  Goal
  <2>1. voting[n] \in VotingAccount /\ voting[n].exists /\ k \notin Items(n)
    BY <1>2, Existing DEF SetVotingItem, Items
  <2>2. /\ voting'[n].total_score = voting[n].total_score
        /\ \A l \in Numbers \ {n} : voting'[l] = voting[l]
    BY <1>2, <2>1 DEF SetVotingItem, TypeOK, VotingAccount
  <2>3. CASE m # n
    BY <1>0, <1>2, <2>2, <2>3, OtherTotals DEF SetVotingItem
  <2>4. CASE m = n
    <3>1. Items(n)' = Items(n) \cup {k}
      BY <1>2, ItemsAfter, ItemTypes DEF SetVotingItem
    <3>2. /\ ItemScore(n)'[k] = 0
          /\ \A j \in Items(n) : ItemScore(n)'[j] = ItemScore(n)[j]
      BY <1>2, <2>1, <3>1 DEF SetVotingItem, TypeOK, ItemScore, Items
    <3>3. IsFiniteSet(Items(n)) /\ IsFiniteSet(Items(n) \cup {k})
      BY ItemsFinite, FS_AddElement
    <3>4. \A j \in Items(n) \cup {k} : ItemScore(n)'[j] \in Nat
      BY <3>2, ItemScoreType
    <3>5. SumFunctionOnSet(ItemScore(n)', Items(n) \cup {k})
            = 0 + SumFunctionOnSet(ItemScore(n)', (Items(n) \cup {k}) \ {k})
      BY <3>2, <3>3, <3>4, SumRemove
    <3>6. (Items(n) \cup {k}) \ {k} = Items(n)
      BY <2>1
    <3>7. SumFunctionOnSet(ItemScore(n)', Items(n)) = ItemTotal(n)
      BY <3>2, <3>3, SumSame DEF ItemTotal
    <3>8. ItemTotal(n)' = SumFunctionOnSet(ItemScore(n)', Items(n) \cup {k})
      BY <3>1 DEF ItemTotal
    <3>9. ItemTotal(n) \in Nat
      BY ItemScoreType
    <3>10. QED
      BY <1>0, <2>1, <2>2, <2>4, <3>5, <3>6, <3>7, <3>8, <3>9
  <2>5. QED
    BY <2>3, <2>4
<1>3. ASSUME NEW s \in SuperOwners, NEW n \in Numbers, NEW k \in Keys,
             DelVotingItem(s, n, k)
      PROVE  Goal
  <2>1. voting[n] \in VotingAccount /\ voting[n].exists /\ k \in Items(n)
    BY <1>3, Existing DEF DelVotingItem, Items
  <2>2. /\ voting'[n].total_score = voting[n].total_score - voting_item[n][k].voting_score
        /\ \A l \in Numbers \ {n} : voting'[l] = voting[l]
    BY <1>3, <2>1 DEF DelVotingItem, TypeOK, VotingAccount
  <2>3. voting_item' = [voting_item EXCEPT ![n][k] = None] /\ ~None.exists
    BY <1>3 DEF DelVotingItem, None
  <2>4. CASE m # n
    BY <1>0, <2>2, <2>3, <2>4, OtherTotals
  <2>5. CASE m = n
    <3>1. Items(n)' = Items(n) \ {k}
      BY <2>3, ItemsAfter
    <3>2. \A j \in Items(n) \ {k} : ItemScore(n)'[j] = ItemScore(n)[j]
      BY <2>3, <3>1 DEF TypeOK, ItemScore, Items
    <3>3. IsFiniteSet(Items(n)) /\ IsFiniteSet(Items(n) \ {k})
      BY ItemsFinite, FS_RemoveElement
    <3>4. ItemTotal(n) = ItemScore(n)[k] + SumFunctionOnSet(ItemScore(n), Items(n) \ {k})
      BY <2>1, <3>3, ItemScoreType, SumRemove DEF ItemTotal
    <3>5. SumFunctionOnSet(ItemScore(n)', Items(n) \ {k})
            = SumFunctionOnSet(ItemScore(n), Items(n) \ {k})
      BY <3>2, <3>3, SumSame
    <3>6. /\ ItemScore(n)[k] = voting_item[n][k].voting_score /\ ItemScore(n)[k] \in Nat
          /\ SumFunctionOnSet(ItemScore(n), Items(n) \ {k}) \in Nat
      BY <2>1, <3>3, ItemScoreType, SumType
    <3>7. ItemTotal(n)' = SumFunctionOnSet(ItemScore(n)', Items(n) \ {k})
      BY <3>1 DEF ItemTotal
    <3>8. QED
      BY <1>0, <2>1, <2>2, <2>5, <3>4, <3>5, <3>6, <3>7
  <2>6. QED
    BY <2>4, <2>5
<1>4. ASSUME NEW u \in Users, NEW n \in Numbers, NEW k \in Keys, NEW score \in Scores,
             Vote(u, n, k, score)
      PROVE  Goal
  <2>1. /\ voting[n] \in VotingAccount /\ voting[n].exists
        /\ voting_item[n][k] \in VotingItem /\ k \in Items(n)
    BY <1>4, Existing DEF Vote, Items
  <2>2. /\ voting'[n].total_score = voting[n].total_score + score
        /\ \A l \in Numbers \ {n} : voting'[l] = voting[l]
    BY <1>4, <2>1 DEF Vote, TypeOK, VotingAccount
  <2> DEFINE v == [voting_item[n][k] EXCEPT
                     !.voting_score = voting_item[n][k].voting_score + score]
  <2>3. /\ voting_item' = [voting_item EXCEPT ![n][k] = v]
        /\ v.exists /\ v.voting_score = voting_item[n][k].voting_score + score
    BY <1>4, <2>1 DEF Vote, VotingItem
  <2> HIDE DEF v
  <2>4. CASE m # n
    BY <1>0, <2>2, <2>3, <2>4, OtherTotals
  <2>5. CASE m = n
    <3>1. Items(n)' = Items(n)
      BY <2>1, <2>3 DEF TypeOK, Items
    <3>2. /\ ItemScore(n)'[k] = ItemScore(n)[k] + score
          /\ \A j \in Items(n) : j # k => ItemScore(n)'[j] = ItemScore(n)[j]
      BY <2>1, <2>3, <3>1 DEF TypeOK, ItemScore, Items
    <3>3. score \in Nat /\ (\A j \in Items(n) : ItemScore(n)[j] \in Nat)
      BY VotingAssumption, ItemScoreType
    <3>4. \A j \in Items(n) : ItemScore(n)'[j] \in Nat
      BY <3>2, <3>3
    <3>5. SumFunctionOnSet(ItemScore(n)', Items(n)) + ItemScore(n)[k]
            = ItemTotal(n) + ItemScore(n)'[k]
      BY <2>1, <3>2, <3>3, <3>4, ItemsFinite, SumChange DEF ItemTotal
    <3>6. SumFunctionOnSet(ItemScore(n)', Items(n)) \in Nat /\ ItemTotal(n) \in Nat
      BY <3>4, ItemsFinite, ItemScoreType, SumType
    <3>7. ItemTotal(n)' = ItemTotal(n) + score
      BY <2>1, <3>1, <3>2, <3>3, <3>5, <3>6 DEF ItemTotal
    <3>8. QED
      BY <1>0, <2>1, <2>2, <2>5, <3>7
  <2>6. QED
    BY <2>4, <2>5
<1>5. CASE UNCHANGED <<voting, voting_item>>
  BY <1>0, <1>5 DEF ItemTotal, ItemScore, Items
<1>6. QED
  BY <1>1, <1>2, <1>3, <1>4, <1>5 DEF Next, UpdateGlobalState, Tick, vars

(* The total of a voting is the sum of the scores of its items, for any    *)
(* number of items and voters and any order of instructions: the shares    *)
(* by which the loan program weighs collections add up to one.             *)
THEOREM TotalsAlwaysAgree == Spec => []TotalsAgree
<1>1. Init => Counted /\ TotalsAgree
  BY VotingAssumption, FS_EmptySet
     DEF Init, Counted, NoOrphans, ItemsCounted, Items, None, TotalsAgree
<1>2. TypeOK /\ TypeOK' /\ Counted /\ TotalsAgree /\ [Next]_vars => TotalsAgree'
  BY TotalledStep DEF Totalled, Counted
<1>3. QED
  BY <1>1, <1>2, TypeInit, TypeStep, CountedStep, PTL DEF Spec

(* The checked subtractions of del_voting_item never fail, so the owner    *)
(* can delete any item at any time: nothing but its existence is needed.   *)
DeletionSucceeds ==
  \A n \in Numbers, k \in Keys :
    voting[n].exists /\ voting_item[n][k].exists =>
      /\ voting_item[n][k].voting_score <= voting[n].total_score
      /\ voting[n].total_items > 0

(* No sequence of votes, deletions and creations makes an item undeletable. *)
THEOREM DeletionAlwaysSucceeds == Spec => []DeletionSucceeds
<1>1. ASSUME TypeOK, ItemsCounted, TotalsAgree PROVE DeletionSucceeds
  <2> SUFFICES ASSUME NEW n \in Numbers, NEW k \in Keys,
                      voting[n].exists, voting_item[n][k].exists
               PROVE  /\ voting_item[n][k].voting_score <= voting[n].total_score
                      /\ voting[n].total_items > 0
    BY DEF DeletionSucceeds
  <2>1. k \in Items(n)
    BY DEF Items
  <2>2. voting_item[n][k].voting_score <= voting[n].total_score
    <3>1. ItemScore(n)[k] <= ItemTotal(n)
      BY <1>1, <2>1, ItemScoreType, ItemsFinite, SumBounds DEF ItemTotal
    <3>2. QED
      BY <1>1, <2>1, <3>1, ItemScoreType, TotalIsSum
  <2>3. voting[n].total_items > 0
    <3>1. Cardinality(Items(n)) # 0 /\ Cardinality(Items(n)) \in Nat
      BY <2>1, ItemsFinite, FS_EmptySet
    <3>2. QED
      BY <1>1, <3>1 DEF ItemsCounted
  <2>4. QED
    BY <2>2, <2>3
<1>2. QED
  BY <1>1, TypeCorrect, ItemsAreCounted, TotalsAlwaysAgree, PTL

-----------------------------------------------------------------------------
(* Scores and the votes on record.                                         *)

VoterScore(n, k) == [u \in Voters(n, k) |-> voting_user[n][u].voting_score]

VoteTotal(n, k) == SumFunctionOnSet(VoterScore(n, k), Voters(n, k))

LEMMA ScoresAreVotes ==
  /\ ScoreFromVotes <=>
       \A n \in Numbers, k \in Keys : voting_item[n][k].exists =>
         voting_item[n][k].voting_score <= VoteTotal(n, k)
  /\ ScoreFromVotes' <=>
       \A n \in Numbers, k \in Keys : voting_item'[n][k].exists =>
         voting_item'[n][k].voting_score <= VoteTotal(n, k)'
<1>1. \A n \in Numbers, k \in Keys :
        /\ SumFunction([u \in Voters(n, k) |-> voting_user[n][u].voting_score])
              = VoteTotal(n, k)
        /\ SumFunction([u \in Voters(n, k) |-> voting_user[n][u].voting_score])'
              = VoteTotal(n, k)'
  BY DEF SumFunction, VoteTotal, VoterScore
<1>2. QED
  BY <1>1 DEF ScoreFromVotes

LEMMA VoteTotalType ==
  ASSUME TypeOK, NEW n \in Numbers, NEW k \in Keys
  PROVE  /\ IsFiniteSet(Voters(n, k))
         /\ \A u \in Voters(n, k) : VoterScore(n, k)[u] \in Nat
         /\ VoteTotal(n, k) \in Nat
<1>1. IsFiniteSet(Voters(n, k))
  <2>1. Voters(n, k) \in SUBSET Users
    BY DEF Voters
  <2>2. QED
    BY <2>1, VotingAssumption, FS_Subset
<1>2. \A u \in Voters(n, k) : VoterScore(n, k)[u] \in Nat
  <2>1. \A u \in Voters(n, k) : voting_user[n][u] \in VotingUser
    BY DEF Voters, TypeOK, None
  <2>2. QED
    BY <2>1, VotingAssumption DEF VoterScore, VotingUser
<1>3. QED
  BY <1>1, <1>2, SumType DEF VoteTotal

LEMMA ScoresStep == TypeOK /\ TypeOK' /\ ScoreFromVotes /\ [Next]_vars => ScoreFromVotes'
<1> SUFFICES ASSUME TypeOK, TypeOK', ScoreFromVotes, [Next]_vars,
                    NEW m \in Numbers, NEW j \in Keys, voting_item'[m][j].exists
             PROVE  voting_item'[m][j].voting_score <= VoteTotal(m, j)'
  BY ScoresAreVotes
<1> DEFINE Goal == voting_item'[m][j].voting_score <= VoteTotal(m, j)'
<1>0. voting_item[m][j].exists => voting_item[m][j].voting_score <= VoteTotal(m, j)
  BY ScoresAreVotes
<1>1. CASE UNCHANGED voting_user /\ (voting_item'[m][j] = voting_item[m][j]
                                     \/ voting_item'[m][j].voting_score = 0)
  <2>1. VoteTotal(m, j)' = VoteTotal(m, j)
    BY <1>1 DEF VoteTotal, VoterScore, Voters
  <2>2. QED
    BY <1>0, <1>1, <2>1, VoteTotalType
<1>2. ASSUME NEW s \in SuperOwners, NEW n \in Numbers, NEW k \in Keys,
             SetVotingItem(s, n, k) \/ DelVotingItem(s, n, k)
      PROVE  Goal
  <2>1. UNCHANGED voting_user
    BY <1>2 DEF SetVotingItem, DelVotingItem
  <2>2. CASE SetVotingItem(s, n, k)
    <3>1. voting_item'[m][j] = voting_item[m][j] \/ voting_item'[m][j].voting_score = 0
      BY <2>2 DEF SetVotingItem, TypeOK
    <3>2. QED
      BY <1>1, <2>1, <3>1
  <2>3. CASE DelVotingItem(s, n, k)
    <3>1. voting_item' = [voting_item EXCEPT ![n][k] = None] /\ ~None.exists
      BY <2>3 DEF DelVotingItem, None
    <3>2. voting_item'[m][j] = voting_item[m][j]
      BY <3>1 DEF TypeOK
    <3>3. QED
      BY <1>1, <2>1, <3>2
  <2>4. QED
    BY <1>2, <2>2, <2>3
<1>3. ASSUME NEW u \in Users, NEW n \in Numbers, NEW k \in Keys, NEW score \in Scores,
             Vote(u, n, k, score)
      PROVE  Goal
  <2> DEFINE ballot == [exists |-> TRUE, voting_item |-> k, voting_score |-> score]
  <2>1. /\ voting_user' = [voting_user EXCEPT ![n][u] = ballot]
        /\ ballot.exists /\ ballot.voting_item = k /\ ballot.voting_score = score
        /\ ~voting_user[n][u].exists
    BY <1>3 DEF Vote
  <2> HIDE DEF ballot
  <2>2. CASE ~(m = n /\ j = k)
    <3>1. voting_item'[m][j] = voting_item[m][j]
      BY <1>3, <2>2 DEF Vote, TypeOK
    <3>2. Voters(m, j)' = Voters(m, j)
      BY <2>1, <2>2 DEF Voters, TypeOK
    <3>3. VoterScore(m, j)' = VoterScore(m, j)
      <4>1. \A w \in Voters(m, j) : voting_user'[m][w] = voting_user[m][w]
        BY <2>1 DEF Voters, TypeOK
      <4>2. QED
        BY <3>2, <4>1 DEF VoterScore
    <3>4. QED
      BY <1>0, <3>1, <3>2, <3>3 DEF VoteTotal
  <2>3. CASE m = n /\ j = k
    <3>1. u \notin Voters(n, k) /\ Voters(n, k)' = Voters(n, k) \cup {u}
      BY <2>1 DEF Voters, TypeOK
    <3>2. /\ VoterScore(n, k)'[u] = score
          /\ \A w \in Voters(n, k) : VoterScore(n, k)'[w] = VoterScore(n, k)[w]
      BY <2>1, <3>1 DEF VoterScore, Voters, TypeOK
    <3>3. IsFiniteSet(Voters(n, k)) /\ IsFiniteSet(Voters(n, k) \cup {u}) /\ score \in Nat
      BY VoteTotalType, FS_AddElement, VotingAssumption
    <3>4. \A w \in Voters(n, k) \cup {u} : VoterScore(n, k)'[w] \in Nat
      BY <3>2, <3>3, VoteTotalType
    <3>5. SumFunctionOnSet(VoterScore(n, k)', Voters(n, k) \cup {u})
            = score + SumFunctionOnSet(VoterScore(n, k)', (Voters(n, k) \cup {u}) \ {u})
      BY <3>2, <3>3, <3>4, SumRemove
    <3>6. (Voters(n, k) \cup {u}) \ {u} = Voters(n, k)
      BY <3>1
    <3>7. SumFunctionOnSet(VoterScore(n, k)', Voters(n, k)) = VoteTotal(n, k)
      BY <3>2, <3>3, SumSame DEF VoteTotal
    <3>8. VoteTotal(n, k)' = score + VoteTotal(n, k)
      BY <3>1, <3>5, <3>6, <3>7 DEF VoteTotal
    <3>9. /\ voting_item[n][k] \in VotingItem /\ voting_item[n][k].exists
          /\ voting_item[n][k].voting_score \in Nat
      BY <1>3, Existing, ItemTypes DEF Vote
    <3>10. voting_item'[n][k].voting_score = voting_item[n][k].voting_score + score
      BY <1>3, <3>9 DEF Vote, TypeOK, VotingItem
    <3>11. QED
      BY <1>0, <2>3, <3>3, <3>8, <3>9, <3>10, VoteTotalType
  <2>4. QED
    BY <2>2, <2>3
<1>4. CASE UNCHANGED <<voting_item, voting_user>>
  BY <1>0, <1>4 DEF VoteTotal, VoterScore, Voters
<1>5. QED
  BY <1>2, <1>3, <1>4 DEF Next, SetVoting, UpdateGlobalState, Tick, vars

(* No item has more score than the votes on record for it give: nobody's   *)
(* vote counts twice, however often items are deleted and created again.   *)
THEOREM ScoresComeFromVotes == Spec => []ScoreFromVotes
<1>1. Init => ScoreFromVotes
  BY DEF Init, ScoreFromVotes, None
<1>2. QED
  BY <1>1, TypeInit, TypeStep, ScoresStep, PTL DEF Spec
=============================================================================
