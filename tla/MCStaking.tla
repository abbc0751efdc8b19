----------------------------- MODULE MCStaking ------------------------------
(***************************************************************************)
(* Values for the constants of Staking.                                    *)
(***************************************************************************)
EXTENDS StakingClient

Tier(d, p) == [duration |-> d, extra_percentage |-> p]

(* Users are 1 and 2; the first can withdraw a part of its stake.          *)
MCWallets == <<2, 1>>
MCWallet == <<2>>

MCLevels == {<<100, 200>>}
MCTiers == {<<Tier(0, 0), Tier(2, 2)>>}
MCLevelsChanging == {<<100, 300>>, <<200>>}
MCTiersChanging == {<<Tier(0, 0), Tier(2, 2)>>, <<Tier(0, 1), Tier(1, 2)>>}
MCOneTier == {<<Tier(1, 1)>>}
=============================================================================
