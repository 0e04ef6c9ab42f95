-------------------------- MODULE MCCircuitBreaker --------------------------
(* Instances of CircuitBreaker for TLC.                                    *)
EXTENDS CircuitBreaker

CONSTANTS t1, t2

TwoThreads == {t1, t2}

=============================================================================
