------------------------------ MODULE MCRewards ------------------------------
(* Small instances of Rewards: one loan in SOL and a calendar of the hours *)
(* around the reset at the ends of days, months and years.                 *)
EXTENDS Rewards

At(y, m, d, h) == 24 * (YearStart(y) + MonthStart(y, m) + d - 1) + h

MCStart == At(2022, 12, 30, 5)

MCInstants ==
  {MCStart, At(2022, 12, 31, 4), At(2022, 12, 31, 5), At(2023, 1, 1, 4), At(2023, 1, 31, 5),
   At(2023, 2, 1, 4), At(2024, 2, 28, 5), At(2024, 2, 29, 4), At(2024, 2, 29, 5),
   At(2024, 3, 1, 4), At(2024, 3, 1, 5)}

MCYearEnds ==
  {MCStart, At(2022, 12, 31, 5), At(2023, 1, 1, 4), At(2023, 1, 1, 5), At(2024, 1, 1, 4)}

MCMints == {SOL, USDC}
MCOfferMint == [k \in SubOffers |-> SOL]
MCOfferAmount == [k \in SubOffers |-> 2]
MCDecimals == [m \in Mints |-> 1]
MCPoints == {[collection |-> 0, total |-> 0], [collection |-> 2, total |-> 2]}

-----------------------------------------------------------------------------
(* README.md:307: "Lender/Borrower gets UNLOC rewards for loaning          *)
(* duration".  A claim that comes after the loan has run for some time     *)
(* since the last distribution, with rewards in the vault, a rate that is  *)
(* not zero and every point on the loan's collection, pays the party whose *)
(* share is not zero.                                                      *)
RewardsForLoaning ==
  [][\A k \in SubOffers, p \in Parties :
       /\ sub_offer[k].state = "Accepted"
       /\ sub_offer[k].collection_point = sub_offer[k].total_point
       /\ sub_offer[k].total_point > 0
       /\ now > global_state.last_distributed_time
       /\ global_state.reward_rate > 0 /\ reward_vault > 0
       /\ IF p = "lender" THEN global_state.lender_rewards_percentage = Denominator
                          ELSE global_state.lender_rewards_percentage = 0
       /\ sub_offer'[k].last_claim[p] # sub_offer[k].last_claim[p]
       => staked' > staked]_vars
=============================================================================
