----------------------------- MODULE MCRewards ------------------------------
(***************************************************************************)
(* Instances of Rewards for TLC.                                           *)
(***************************************************************************)
EXTENDS Rewards, TLC

CONSTANTS p1, p2

MCBlockReward == [k \in Blocks |-> 6 + k]

\* Weights that do not divide the rewards; a later block has one miner less.
MCWindow ==
  [k \in Blocks |-> IF k = 1 THEN <<ShareWeight(1, 2), ShareWeight(2, 1)>>
                             ELSE <<ShareWeight(2, 1)>>]

\* Any two runs may overlap, a timer and a command typed by an operator, except
\* two of reconcile-blocks.
MCMayRun == (p1 :> Commands) @@ (p2 :> (Commands \ {"reconcile"}))
=============================================================================
