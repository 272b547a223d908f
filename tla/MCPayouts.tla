----------------------------- MODULE MCPayouts ------------------------------
(***************************************************************************)
(* Instances of Payouts for TLC.                                           *)
(***************************************************************************)
EXTENDS Payouts, TLC

CONSTANTS p1, p2, k1, k2

\* Each block pays every miner; the first pays them different amounts.
MCReward == (k1 :> [m \in Miners |-> m]) @@ (k2 :> [m \in Miners |-> 1])

Workers == {"create", "sign", "submit", "reconcile"}

\* Any two workers may overlap, also two runs of the same one.
MCWorkers == [p \in Procs |-> Workers]

\* The operator's requests overlap any one worker.
MCOperator == (p1 :> Workers) @@ (p2 :> (Commands \ Workers))

\* Two queues of timers: no command overlaps itself.
MCTimers == (p1 :> {"create", "sign"}) @@ (p2 :> {"submit", "reconcile"})

Symmetry == Permutations(Procs)
=============================================================================
