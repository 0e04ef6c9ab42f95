--------------------------- MODULE CircuitBreaker ---------------------------
(***************************************************************************)
(* One circuit breaker of core/circuitbreaker under concurrent requests.   *)
(*                                                                         *)
(* Every goroutine of Threads carries one request after another.  A        *)
(* request asks TryPass; once admitted it is either blocked further down   *)
(* the slot chain (another breaker of the resource, a later slot) or it    *)
(* runs and OnRequestComplete evaluates it.  Each atomic load, store, add  *)
(* and compare-and-swap the Go code performs on the breaker's shared words *)
(* is one action, so every interleaving of them is a behaviour.            *)
(*                                                                         *)
(* Abstractions.                                                           *)
(*  - Time is relative: "wait" is how long nextRetryTimestampMs lies in    *)
(*    the future (0 once it is reached).  It is all retryTimeoutArrived    *)
(*    can see.  "due" is the same for the sum a goroutine has computed     *)
(*    from its reading of the clock and not yet stored there.              *)
(*  - curProbeNumber saturates at ProbeNum, which is all that              *)
(*    "curProbeNumber >= probeNumber" tells apart.                         *)
(*  - The statistic has the default single bucket.  The bucket may be      *)
(*    found expired whenever a request asks for it and is then replaced by *)
(*    a fresh one; a goroutine still holding the old bucket adds to        *)
(*    nothing.  Its counters saturate at StatCap: exact for ErrorCount     *)
(*    when StatCap reaches Threshold and MinRequestAmount, a bound for the *)
(*    ratio strategies.  A ring of one bucket always has a bucket to give, *)
(*    so OnRequestComplete never returns for want of a counter; a rule     *)
(*    with StatSlidingWindowBucketCount above 1 is not modelled.           *)
(***************************************************************************)
EXTENDS Naturals

CONSTANTS
  Threads,           \* goroutines that call into the breaker
  NoThread,          \* "no goroutine"
  Strategy,          \* the rule's strategy
  Threshold,         \* rule.Threshold, in units of 1 / Scale for the ratios
  Scale,
  MinRequestAmount,
  RetryTimeout,      \* rule.RetryTimeoutMs, in clock ticks
  ProbeNum,          \* rule.ProbeNum
  StatCap            \* bound on the statistic's counters

ASSUME ThreadsAssumption == NoThread \notin Threads
ASSUME RuleAssumption ==
  /\ Strategy \in {"SlowRequestRatio", "ErrorRatio", "ErrorCount"}
  /\ Threshold \in Nat
  /\ Scale \in Nat \ {0}
  /\ MinRequestAmount \in Nat
  /\ RetryTimeout \in Nat
  /\ ProbeNum \in Nat
  /\ StatCap \in Nat

VARIABLES
  state,       \* circuitBreakerBase.state
  wait,        \* nextRetryTimestampMs - now, or 0
  curProbe,    \* curProbeNumber
  bad, total,  \* the counter of the current bucket
  pc,          \* what each goroutine does next
  failed,      \* the request being completed was slow or in error
  tripping,    \* the sums it read reach the rule's threshold
  hook,        \* its entry carries the exit hook of fromOpenToHalfOpen
  holds,       \* its bucket is still the current one
  due,         \* the timestamp it is about to store - now, or 0
  age,         \* history: ticks since a failure opened the breaker, up to
               \* RetryTimeout
  overtaken,   \* history: how old its reading of the clock was when another
               \* goroutine opened the breaker again
  lost,        \* history: the same of the goroutine that stored the timestamp
  prober,      \* history: who made the last switch from Open to HalfOpen
  probes       \* history: successful probes since that switch, up to ProbeNum

shared  == <<state, wait, curProbe, bad, total>>
locals  == <<pc, failed, tripping, hook, holds, due>>
history == <<age, overtaken, lost, prober, probes>>
vars    == <<shared, locals, history>>

Closed   == "Closed"
HalfOpen == "HalfOpen"
Open     == "Open"
States   == {Closed, HalfOpen, Open}

-----------------------------------------------------------------------------
(* Steps of a goroutine, named for the statement it executes next.          *)

Steps ==
  { "idle", "retryTimeoutArrived", "casOpenToHalfOpen", "admitted", "exitHook",
    "addBad", "addTotal", "sum", "readState", "rereadState",
    "casClosedToOpen", "casHalfOpenToOpen", "resetProbeOnOpen",
    "readClock", "storeNextRetry", "addProbe", "checkProbe", "casHalfOpenToClosed",
    "resetProbeOnClose", "resetBad", "resetTotal" }

GoTo(t, step) == pc' = [pc EXCEPT ![t] = step]

\* The request is over: the goroutine forgets what it knew about it.
Finish(t) ==
  /\ GoTo(t, "idle")
  /\ failed'   = [failed EXCEPT ![t] = FALSE]
  /\ tripping' = [tripping EXCEPT ![t] = FALSE]
  /\ hook'     = [hook EXCEPT ![t] = FALSE]
  /\ holds'    = [holds EXCEPT ![t] = FALSE]
  /\ due'      = [due EXCEPT ![t] = 0]

\* Continue, with nothing but the program counter changed.
Continue(t, step) ==
  /\ GoTo(t, step)
  /\ UNCHANGED <<failed, tripping, hook, holds, due>>

Bump(n, cap) == IF n < cap THEN n + 1 ELSE n

\* One tick less to wait for.
Elapse(n) == IF n > 0 THEN n - 1 ELSE 0

\* Threshold test of the three strategies.  The ratio of no request at all is
\* NaN, which no comparison accepts; of a failure without a request, infinite.
ThresholdReached(b, n) ==
  IF Strategy = "ErrorCount"
  THEN b >= Threshold
  ELSE (b > 0 \/ n > 0) /\ b * Scale >= Threshold * n

Init ==
  /\ state = Closed
  /\ wait = 0
  /\ curProbe = 0
  /\ bad = 0
  /\ total = 0
  /\ pc = [t \in Threads |-> "idle"]
  /\ failed = [t \in Threads |-> FALSE]
  /\ tripping = [t \in Threads |-> FALSE]
  /\ hook = [t \in Threads |-> FALSE]
  /\ holds = [t \in Threads |-> FALSE]
  /\ due = [t \in Threads |-> 0]
  /\ age = RetryTimeout
  /\ overtaken = [t \in Threads |-> 0]
  /\ lost = 0
  /\ prober = NoThread
  /\ probes = 0

-----------------------------------------------------------------------------
(* TryPass                                                                  *)

\* A request arrives and reads the state.  It is refused when the breaker is
\* HalfOpen and the rule allows no probe besides the first one.
TryPass(t) ==
  /\ pc[t] = "idle"
  /\ \/ state = Closed /\ Continue(t, "admitted")
     \/ state = Open /\ Continue(t, "retryTimeoutArrived")
     \/ state = HalfOpen /\ ProbeNum > 0 /\ Continue(t, "admitted")
     \/ state = HalfOpen /\ ProbeNum = 0 /\ Finish(t)
  /\ UNCHANGED <<shared, history>>

\* The rule is for other services (LimitApp): Slot.Check passes the breaker by,
\* whatever its state, and the request completes on it like any other.
PassBy(t) ==
  /\ pc[t] = "idle"
  /\ Continue(t, "admitted")
  /\ UNCHANGED <<shared, history>>

RetryTimeoutArrived(t) ==
  /\ pc[t] = "retryTimeoutArrived"
  /\ IF wait = 0 THEN Continue(t, "casOpenToHalfOpen") ELSE Finish(t)
  /\ UNCHANGED <<shared, history>>

\* A plausible slip: HalfOpen is stored, not swapped in for Open.
StoreHalfOpen(t) ==
  /\ pc[t] = "casOpenToHalfOpen"
  /\ state' = HalfOpen
  /\ GoTo(t, "admitted")
  /\ hook' = [hook EXCEPT ![t] = TRUE]
  /\ prober' = t
  /\ probes' = 0
  /\ UNCHANGED <<failed, tripping, holds, due, age, overtaken, lost, wait,
                 curProbe, bad, total>>

\* The winner of the swap is the probe; its entry gets the exit hook.
FromOpenToHalfOpen(t) ==
  /\ pc[t] = "casOpenToHalfOpen"
  /\ \/ /\ state = Open
        /\ state' = HalfOpen
        /\ GoTo(t, "admitted")
        /\ hook' = [hook EXCEPT ![t] = TRUE]
        /\ prober' = t
        /\ probes' = 0
        /\ UNCHANGED <<failed, tripping, holds, due, age, overtaken, lost>>
     \/ /\ state # Open
        /\ Finish(t)
        /\ UNCHANGED <<state, history>>
  /\ UNCHANGED <<wait, curProbe, bad, total>>

-----------------------------------------------------------------------------
(* The rest of the slot chain and the exit of the entry                     *)

\* A plausible slip: the entry of the probe is left without the hook.
BlockedWithoutHook(t) ==
  /\ pc[t] = "admitted"
  /\ Finish(t)
  /\ UNCHANGED <<shared, history>>

\* A later check refuses the request this breaker admitted: OnRequestComplete
\* is not called for it, the exit hooks of its entry are.
BlockedDownstream(t) ==
  /\ pc[t] = "admitted"
  /\ IF hook[t] THEN Continue(t, "exitHook") ELSE Finish(t)
  /\ UNCHANGED <<shared, history>>

\* The hook rolls a HalfOpen breaker back to Open, and touches neither
\* nextRetryTimestampMs nor curProbeNumber.
ExitHook(t) ==
  /\ pc[t] = "exitHook"
  /\ state' = IF state = HalfOpen THEN Open ELSE state
  /\ Finish(t)
  /\ UNCHANGED <<wait, curProbe, bad, total, history>>

\* The request ran and its entry exits.  currentCounter returns the current
\* bucket, or replaces an expired one.
OnRequestComplete(t) ==
  /\ pc[t] = "admitted"
  /\ \E isBad \in BOOLEAN, expired \in BOOLEAN :
       /\ GoTo(t, IF isBad THEN "addBad" ELSE "addTotal")
       /\ failed' = [failed EXCEPT ![t] = isBad]
       /\ bad' = IF expired THEN 0 ELSE bad
       /\ total' = IF expired THEN 0 ELSE total
       /\ holds' = [u \in Threads |-> u = t \/ (holds[u] /\ ~expired)]
  /\ hook' = [hook EXCEPT ![t] = FALSE]
  /\ UNCHANGED <<state, wait, curProbe, tripping, due, history>>

AddBad(t) ==
  /\ pc[t] = "addBad"
  /\ bad' = IF holds[t] THEN Bump(bad, StatCap) ELSE bad
  /\ Continue(t, "addTotal")
  /\ UNCHANGED <<state, wait, curProbe, total, history>>

AddTotal(t) ==
  /\ pc[t] = "addTotal"
  /\ total' = IF holds[t] THEN Bump(total, StatCap) ELSE total
  /\ Continue(t, "sum")
  /\ UNCHANGED <<state, wait, curProbe, bad, history>>

\* allCounter skips a bucket that expired meanwhile: the sums are then 0.
SumCounters(t) ==
  /\ pc[t] = "sum"
  /\ \E expired \in BOOLEAN :
       LET b == IF expired THEN 0 ELSE bad
           n == IF expired THEN 0 ELSE total
       IN tripping' = [tripping EXCEPT ![t] =
                         n >= MinRequestAmount /\ ThresholdReached(b, n)]
  /\ GoTo(t, "readState")
  /\ UNCHANGED <<failed, hook, holds, due, shared, history>>

\* The completed request is a probe result, a sample of a Closed breaker, or
\* (when the breaker is Open) of no consequence.
ReadState(t) ==
  /\ pc[t] = "readState"
  /\ \/ state = Open /\ Finish(t)
     \/ state = HalfOpen /\ failed[t] /\ Continue(t, "casHalfOpenToOpen")
     \/ state = HalfOpen /\ ~failed[t] /\ Continue(t, "addProbe")
     \/ state = Closed /\ tripping[t] /\ Continue(t, "rereadState")
     \/ state = Closed /\ ~tripping[t] /\ Finish(t)
  /\ UNCHANGED <<shared, history>>

RereadState(t) ==
  /\ pc[t] = "rereadState"
  /\ \/ state = Closed /\ Continue(t, "casClosedToOpen")
     \/ state = HalfOpen /\ Continue(t, "casHalfOpenToOpen")
     \/ state = Open /\ Finish(t)
  /\ UNCHANGED <<shared, history>>

\* The breaker opens again: a goroutine that has read the clock for an earlier
\* opening will store a timestamp that is short by the age of its reading.
Reopen ==
  /\ age' = 0
  /\ overtaken' = [u \in Threads |->
                    IF pc[u] = "storeNextRetry" THEN RetryTimeout - due[u]
                                                ELSE 0]

\* The breaker becomes Open before its next retry timestamp is written.
FromClosedToOpen(t) ==
  /\ pc[t] = "casClosedToOpen"
  /\ \/ /\ state = Closed
        /\ state' = Open
        /\ Reopen
        /\ Continue(t, "readClock")
     \/ /\ state # Closed
        /\ Finish(t)
        /\ UNCHANGED <<state, age, overtaken>>
  /\ UNCHANGED <<wait, curProbe, bad, total, lost, prober, probes>>

FromHalfOpenToOpen(t) ==
  /\ pc[t] = "casHalfOpenToOpen"
  /\ \/ /\ state = HalfOpen
        /\ state' = Open
        /\ Reopen
        /\ Continue(t, "resetProbeOnOpen")
     \/ /\ state # HalfOpen
        /\ Finish(t)
        /\ UNCHANGED <<state, age, overtaken>>
  /\ UNCHANGED <<wait, curProbe, bad, total, lost, prober, probes>>

ResetProbeOnOpen(t) ==
  /\ pc[t] = "resetProbeOnOpen"
  /\ curProbe' = 0
  /\ Continue(t, "readClock")
  /\ UNCHANGED <<state, wait, bad, total, history>>

\* The first half of updateNextRetryTimestamp: the clock is read and the retry
\* timeout added to it.
ReadClock(t) ==
  /\ pc[t] = "readClock"
  /\ due' = [due EXCEPT ![t] = RetryTimeout]
  /\ GoTo(t, "storeNextRetry")
  /\ UNCHANGED <<failed, tripping, hook, holds, shared, history>>

\* A plausible slip: a timestamp that was set once is kept.
UpdateWhenUnset(t) ==
  /\ pc[t] = "storeNextRetry"
  /\ wait' = IF wait = 0 THEN due[t] ELSE wait
  /\ lost' = overtaken[t]
  /\ overtaken' = [overtaken EXCEPT ![t] = 0]
  /\ Finish(t)
  /\ UNCHANGED <<state, curProbe, bad, total, age, prober, probes>>

\* A plausible slip: the timeout is added to the timestamp that was there.
UpdateByAdding(t) ==
  /\ pc[t] = "storeNextRetry"
  /\ wait' = wait + due[t]
  /\ lost' = overtaken[t]
  /\ overtaken' = [overtaken EXCEPT ![t] = 0]
  /\ Finish(t)
  /\ UNCHANGED <<state, curProbe, bad, total, age, prober, probes>>

\* The second half: the sum is stored, by now perhaps over that of a later
\* opening.
UpdateNextRetryTimestamp(t) ==
  /\ pc[t] = "storeNextRetry"
  /\ wait' = due[t]
  /\ lost' = overtaken[t]
  /\ overtaken' = [overtaken EXCEPT ![t] = 0]
  /\ Finish(t)
  /\ UNCHANGED <<state, curProbe, bad, total, age, prober, probes>>

AddCurProbeNum(t) ==
  /\ pc[t] = "addProbe"
  /\ curProbe' = Bump(curProbe, ProbeNum)
  /\ probes' = Bump(probes, ProbeNum)
  /\ Continue(t, "checkProbe")
  /\ UNCHANGED <<state, wait, bad, total, age, overtaken, lost, prober>>

CheckProbe(t) ==
  /\ pc[t] = "checkProbe"
  /\ IF ProbeNum = 0 \/ curProbe >= ProbeNum
     THEN Continue(t, "casHalfOpenToClosed")
     ELSE Finish(t)
  /\ UNCHANGED <<shared, history>>

\* Whether or not the swap succeeds, the goroutine then resets the statistic.
FromHalfOpenToClosed(t) ==
  /\ pc[t] = "casHalfOpenToClosed"
  /\ \/ /\ state = HalfOpen
        /\ state' = Closed
        /\ Continue(t, "resetProbeOnClose")
     \/ /\ state # HalfOpen
        /\ Continue(t, "resetBad")
        /\ UNCHANGED state
  /\ UNCHANGED <<wait, curProbe, bad, total, history>>

ResetProbeOnClose(t) ==
  /\ pc[t] = "resetProbeOnClose"
  /\ curProbe' = 0
  /\ Continue(t, "resetBad")
  /\ UNCHANGED <<state, wait, bad, total, history>>

\* resetMetric collects the live bucket and zeroes its counters in turn.
ResetBad(t) ==
  /\ pc[t] = "resetBad"
  /\ \/ /\ bad' = 0
        /\ GoTo(t, "resetTotal")
        /\ holds' = [holds EXCEPT ![t] = TRUE]
        /\ UNCHANGED <<failed, tripping, hook, due>>
     \/ \* the bucket expired meanwhile: there is none to reset
        /\ Finish(t)
        /\ UNCHANGED bad
  /\ UNCHANGED <<state, wait, curProbe, total, history>>

ResetTotal(t) ==
  /\ pc[t] = "resetTotal"
  /\ total' = IF holds[t] THEN 0 ELSE total
  /\ Finish(t)
  /\ UNCHANGED <<state, wait, curProbe, bad, history>>

\* The clock advances.
Tick ==
  /\ wait > 0 \/ age < RetryTimeout \/ \E t \in Threads : due[t] > 0
  /\ wait' = Elapse(wait)
  /\ due' = [t \in Threads |-> Elapse(due[t])]
  /\ age' = Bump(age, RetryTimeout)
  /\ UNCHANGED <<state, curProbe, bad, total, pc, failed, tripping, hook,
                 holds, overtaken, lost, prober, probes>>

-----------------------------------------------------------------------------

\* What a goroutine does with a request it has taken on.
Proceed(t) ==
  \/ RetryTimeoutArrived(t)
  \/ FromOpenToHalfOpen(t)
  \/ BlockedDownstream(t)
  \/ ExitHook(t)
  \/ OnRequestComplete(t)
  \/ AddBad(t)
  \/ AddTotal(t)
  \/ SumCounters(t)
  \/ ReadState(t)
  \/ RereadState(t)
  \/ FromClosedToOpen(t)
  \/ FromHalfOpenToOpen(t)
  \/ ResetProbeOnOpen(t)
  \/ ReadClock(t)
  \/ UpdateNextRetryTimestamp(t)
  \/ AddCurProbeNum(t)
  \/ CheckProbe(t)
  \/ FromHalfOpenToClosed(t)
  \/ ResetProbeOnClose(t)
  \/ ResetBad(t)
  \/ ResetTotal(t)

Next == Tick \/ \E t \in Threads : TryPass(t) \/ PassBy(t) \/ Proceed(t)

Spec == Init /\ [][Next]_vars

\* Goroutines are scheduled and every admitted request is exited, as Entry's
\* contract demands of its caller.  Nothing obliges a request to arrive.
Fairness == \A t \in Threads : WF_vars(Proceed(t))

FairSpec == Spec /\ Fairness

-----------------------------------------------------------------------------
(* Properties                                                               *)

\* The values each variable ranges over; the timestamp never lies further ahead
\* than one retry timeout.
TypeOK ==
  /\ state \in States
  /\ wait \in 0..RetryTimeout
  /\ curProbe \in 0..ProbeNum
  /\ bad \in 0..StatCap
  /\ total \in 0..StatCap
  /\ pc \in [Threads -> Steps]
  /\ failed \in [Threads -> BOOLEAN]
  /\ tripping \in [Threads -> BOOLEAN]
  /\ hook \in [Threads -> BOOLEAN]
  /\ holds \in [Threads -> BOOLEAN]
  /\ due \in [Threads -> 0..RetryTimeout]
  /\ age \in 0..RetryTimeout
  /\ overtaken \in [Threads -> 0..RetryTimeout]
  /\ lost \in 0..RetryTimeout
  /\ prober \in Threads \cup {NoThread}
  /\ probes \in 0..ProbeNum

\* A goroutine that has opened the breaker and not yet written the next retry
\* timestamp.
Arming(t) == pc[t] \in {"resetProbeOnOpen", "readClock", "storeNextRetry"}

\* Once every goroutine that opened the breaker has written the timestamp, it
\* covers the retry timeout of the latest opening, but for what "lost" says:
\* the age its writer's reading of the clock had when that opening overtook it.
\* Nothing else that races (a probe blocked, a bucket reset, a slow writer that
\* nobody overtook) shortens the wait.
TimeoutArmed ==
  (\E t \in Threads : Arming(t)) \/ wait + age + lost >= RetryTimeout

\* A goroutine whose request is the outstanding probe and that will still
\* decide the HalfOpen state: it has not read the state at completion, or it
\* read HalfOpen and is on its way to one of the swaps.
Undecided(t) ==
  \/ pc[t] \in {"admitted", "exitHook"} /\ hook[t]
  \/ pc[t] \in {"addBad", "addTotal", "sum", "readState", "casHalfOpenToOpen",
                "addProbe", "checkProbe", "casHalfOpenToClosed"}

\* With one probe per round (ProbeNum = 0) all other requests are refused, so
\* a HalfOpen breaker must never be left without the request that decides it:
\* it would refuse traffic for ever.
HalfOpenOwned ==
  ProbeNum = 0 /\ state = HalfOpen => prober \in Threads /\ Undecided(prober)

\* Refuted by TLC, like ProbeQuota (README, section 3).
\* rule.go, RetryTimeoutMs: "During the open period, no requests are permitted
\* until the timeout has elapsed."
NoEarlyProbe ==
  [][state = Open /\ state' = HalfOpen => age >= RetryTimeout]_vars

\* rule.go, ProbeNum: "the circuit breaker is closed only after the number of
\* probes is reached", counted from the switch to HalfOpen.
ProbeQuota ==
  [][state = HalfOpen /\ state' = Closed => probes >= ProbeNum]_vars

\* The diagram of circuit_breaker.go: the breaker implements the abstract
\* state machine, and under ProbeNum = 0 its fairness too.
Machine == INSTANCE BreakerStateMachine
ImplementsMachine     == Machine!Spec
ImplementsFairMachine == Machine!FairSpec

=============================================================================
