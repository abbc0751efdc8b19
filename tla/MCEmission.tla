----------------------------- MODULE MCEmission -----------------------------
(***************************************************************************)
(* Emission with the values of MCStaking.                                  *)
(***************************************************************************)
EXTENDS MCStaking, Emission
=============================================================================
