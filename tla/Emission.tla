------------------------------ MODULE Emission ------------------------------
(***************************************************************************)
(* Staking with the history of its reward stream, which no action reads.   *)
(***************************************************************************)
EXTENDS Staking

VARIABLES
  emitted,       \* reward the clock has released to a pool with stakes
  paid           \* reward harvested, without the extra reward for locks

HistoryInit == emitted = 0 /\ paid = 0

HistoryNext ==
  /\ emitted' = IF now' > now /\ pool.amount > 0
                THEN emitted + state.token_per_second ELSE emitted
  /\ \/ \E u \in Users : Harvest(u) /\ paid' = paid + Owed(u)
     \/ (\A u \in Users : ~Harvest(u)) /\ paid' = paid

HistorySpec ==
  Init /\ HistoryInit /\ [][Next /\ HistoryNext]_<<vars, emitted, paid>>

(* At a rate that is not changed the stakes together never earn more than  *)
(* the pool emitted while it had stakes: every second is shared out once.  *)
(* A stake's reward debt is rounded down when its amount changes, which    *)
(* can give it less than one token for each second in which rewards        *)
(* accrued.                                                                *)
EmissionBound ==
  paid + SumFunction([u \in Users |-> Owed(u)])
    <= emitted + Cardinality(Users) * (now - StartTime)
=============================================================================
