SPECIFICATION Spec
CONSTANTS
  SuperOwners = {owner, other}
  Users = {u1, u2}
  Keys = {k1, k2}
  Scores = {0, 1, 2}
  Times = {1}
  MaxVotings = 2
  StartTime = 1
  MaxTime = 2
INVARIANTS
  TypeOK
  NumbersDense
  ItemsCounted
  TotalsAgree
  ScoreFromVotes
CHECK_DEADLOCK FALSE
