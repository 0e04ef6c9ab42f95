--------------------------- MODULE MCRejectChecker ---------------------------
(* Instances of RejectChecker for TLC.                                     *)
EXTENDS RejectChecker, TLC

CONSTANTS r1, r2, r3, r4

Requests3 == {r1, r2, r3}
Requests4 == {r1, r2, r3, r4}

\* Requests are interchangeable.
Symmetry == Permutations(Callers)

=============================================================================
