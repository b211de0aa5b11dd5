--------------------------- MODULE MCRunnerLease ---------------------------
(* Instances of RunnerLease for TLC. *)
EXTENDS RunnerLease, TLC

CONSTANTS r1, r2, r3, main, linked, p1, p2

AnyOne == Permutations(Run) \cup Permutations(Proc)
=============================================================================
