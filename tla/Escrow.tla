------------------------------- MODULE Escrow -------------------------------
(***************************************************************************)
(* What unloc-loan promises the owner of an NFT, without listings, terms   *)
(* or token accounts: an NFT has one holder; its holder may pledge it; a   *)
(* pledged NFT stays where it is until the pledge is released or the NFT   *)
(* is forfeited, and either of these ends the pledge.                      *)
(***************************************************************************)
CONSTANTS Holders, Pledgers, Items, Nobody

VARIABLES holder, pledger    \* pledger[x] = Nobody while x is free

vars == <<holder, pledger>>

Init ==
  /\ holder \in [Items -> Pledgers]
  /\ pledger = [x \in Items |-> Nobody]

Move(x, h) ==
  /\ pledger[x] = Nobody
  /\ holder' = [holder EXCEPT ![x] = h]
  /\ UNCHANGED pledger

Pledge(x) ==
  /\ pledger[x] = Nobody
  /\ holder[x] \in Pledgers
  /\ pledger' = [pledger EXCEPT ![x] = holder[x]]
  /\ UNCHANGED holder

Release(x) ==
  /\ pledger[x] = holder[x]
  /\ pledger' = [pledger EXCEPT ![x] = Nobody]
  /\ UNCHANGED holder

Forfeit(x, h) ==
  /\ pledger[x] = holder[x]
  /\ h # holder[x]
  /\ holder' = [holder EXCEPT ![x] = h]
  /\ pledger' = [pledger EXCEPT ![x] = Nobody]

Next ==
  \E x \in Items :
    \/ Pledge(x)
    \/ Release(x)
    \/ \E h \in Holders : Move(x, h) \/ Forfeit(x, h)

Spec == Init /\ [][Next]_vars
=============================================================================
