--------------------------- MODULE MCRuntimeLease ---------------------------
(* TLC instance of RuntimeLease. *)
EXTENDS RuntimeLease, TLC

CONSTANTS r1, r2

TwoRuntimes == {r1, r2}
NoRuntimes == {}

\* Runtimes differ only in their identity when all of them may stall and none
\* may be suspended.
Symmetry == Permutations(Runtimes)
=============================================================================
