------------------------- MODULE MCThrottlingChecker -------------------------
(* Instances of ThrottlingChecker for TLC.                                 *)
EXTENDS ThrottlingChecker, TLC

CONSTANTS r1, r2, r3

ThreeRequests == {r1, r2, r3}

\* Requests are interchangeable.
Symmetry == Permutations(Requests)

=============================================================================
