------------------------------- MODULE MCJobs -------------------------------
(* Constants for TLC: a block and its successor.                             *)
EXTENDS Jobs

MCParents == {"p0", "p1"}
MCHeight == [p \in MCParents |-> IF p = "p0" THEN 0 ELSE 1]
MCWork == [p \in MCParents |-> IF p = "p0" THEN 0 ELSE 1]

=============================================================================
