------------------------ MODULE BreakerStateMachine ------------------------
(***************************************************************************)
(* What a circuit breaker promises to whoever watches only its state: the  *)
(* diagram at the head of core/circuitbreaker/circuit_breaker.go.  Traffic *)
(* trips a Closed breaker, an Open breaker goes HalfOpen to probe, and a   *)
(* HalfOpen breaker is decided by a probe: back to Open or on to Closed.   *)
(* FairSpec adds that a HalfOpen breaker does get decided.                 *)
(***************************************************************************)

\* Closed, HalfOpen and Open are the three values of the Go type State.
Closed   == "Closed"
HalfOpen == "HalfOpen"
Open     == "Open"
States   == {Closed, HalfOpen, Open}

VARIABLE state

Init == state = Closed

\* "switch to open based on rule"
Trip == state = Closed /\ state' = Open

\* "Probe": the retry timeout elapsed and one request was let through
Probe == state = Open /\ state' = HalfOpen

\* "Probe failed", or the request that carried the probe was blocked elsewhere
ProbeFailed == state = HalfOpen /\ state' = Open

\* "Probe succeed"
ProbeSucceed == state = HalfOpen /\ state' = Closed

Next == Trip \/ Probe \/ ProbeFailed \/ ProbeSucceed

Spec == Init /\ [][Next]_state

\* A breaker does not stay HalfOpen for ever.
FairSpec == Spec /\ WF_state(ProbeFailed \/ ProbeSucceed)

=============================================================================
