------------------------ MODULE CircuitBreakerProofs ------------------------
(***************************************************************************)
(* Theorems about CircuitBreaker, for every number of goroutines, every    *)
(* rule and every interleaving.                                            *)
(***************************************************************************)
EXTENDS CircuitBreaker, TLAPS

\* Bump adds one and stops at the cap.
LEMMA BumpBounded ==
  ASSUME NEW cap \in Nat, NEW n \in 0..cap
  PROVE  Bump(n, cap) \in 0..cap /\ Bump(n, cap) >= n
  BY DEF Bump

-----------------------------------------------------------------------------

\* An opening measures readings of the clock that are no older than the timeout.
LEMMA ReopenTyped ==
  TypeOK /\ Reopen =>
    (age \in 0..RetryTimeout /\ overtaken \in [Threads -> 0..RetryTimeout])'
  BY RuleAssumption DEF Reopen, TypeOK

\* Type correctness.  The actions of Proceed that only move a goroutine on are
\* taken together, the others one by one.
LEMMA TypeStep == TypeOK /\ [Next]_vars => TypeOK'
<1> SUFFICES ASSUME TypeOK, [Next]_vars PROVE TypeOK'
  OBVIOUS
<1> USE RuleAssumption, ThreadsAssumption
<1>0. ASSUME NEW t \in Threads, NEW step \in Steps, GoTo(t, step)
      PROVE  (pc \in [Threads -> Steps])'
  BY <1>0 DEF GoTo, TypeOK
<1>1. ASSUME NEW t \in Threads, NEW step \in Steps, Continue(t, step)
      PROVE  /\ (pc \in [Threads -> Steps])'
             /\ UNCHANGED <<failed, tripping, hook, holds, due>>
  BY <1>1 DEF Continue, GoTo, TypeOK
<1>2. ASSUME NEW t \in Threads, Finish(t)
      PROVE  /\ (pc \in [Threads -> Steps])'
             /\ (failed \in [Threads -> BOOLEAN])'
             /\ (tripping \in [Threads -> BOOLEAN])'
             /\ (hook \in [Threads -> BOOLEAN])'
             /\ (holds \in [Threads -> BOOLEAN])'
             /\ (due \in [Threads -> 0..RetryTimeout])'
  BY <1>2 DEF Finish, GoTo, TypeOK, Steps
<1>3. ASSUME NEW t \in Threads,
             TryPass(t) \/ PassBy(t) \/ RetryTimeoutArrived(t)
               \/ BlockedDownstream(t) \/ ReadState(t) \/ RereadState(t) \/ CheckProbe(t)
      PROVE  TypeOK'
  <2>1. UNCHANGED <<shared, history>>
    BY <1>3 DEF TryPass, PassBy, RetryTimeoutArrived, BlockedDownstream,
                ReadState, RereadState, CheckProbe
  <2>2. Finish(t) \/ \E step \in Steps : Continue(t, step)
    BY <1>3 DEF TryPass, PassBy, RetryTimeoutArrived, BlockedDownstream,
                ReadState, RereadState, CheckProbe, Steps
  <2>3. QED
    BY <1>1, <1>2, <2>1, <2>2 DEF TypeOK, shared, history
<1>4. ASSUME NEW t \in Threads, FromOpenToHalfOpen(t)
      PROVE  TypeOK'
  <2>1. CASE state = Open
    <3>1. (pc \in [Threads -> Steps])'
      BY <1>0, <1>4, <2>1 DEF FromOpenToHalfOpen, Steps
    <3>2. (hook \in [Threads -> BOOLEAN])'
      BY <1>4, <2>1 DEF FromOpenToHalfOpen, TypeOK
    <3>3. /\ state' = HalfOpen /\ prober' = t /\ probes' = 0
          /\ UNCHANGED <<failed, tripping, holds, due, age, overtaken, lost, wait,
                         curProbe, bad, total>>
      BY <1>4, <2>1 DEF FromOpenToHalfOpen
    <3>4. QED
      BY <3>1, <3>2, <3>3 DEF TypeOK, States
  <2>2. CASE state # Open
    BY <1>2, <1>4, <2>2 DEF FromOpenToHalfOpen, TypeOK, history
  <2>3. QED BY <2>1, <2>2
<1>5. ASSUME NEW t \in Threads, ExitHook(t)
      PROVE  TypeOK'
  BY <1>2, <1>5 DEF ExitHook, TypeOK, history, States, Open
<1>6. ASSUME NEW t \in Threads, OnRequestComplete(t)
      PROVE  TypeOK'
  <2>1. PICK isBad \in BOOLEAN, expired \in BOOLEAN :
          /\ GoTo(t, IF isBad THEN "addBad" ELSE "addTotal")
          /\ failed' = [failed EXCEPT ![t] = isBad]
          /\ bad' = IF expired THEN 0 ELSE bad
          /\ total' = IF expired THEN 0 ELSE total
          /\ holds' = [u \in Threads |-> u = t \/ (holds[u] /\ ~expired)]
    BY <1>6 DEF OnRequestComplete
  <2>2. (pc \in [Threads -> Steps])'
    BY <1>0, <2>1 DEF Steps
  <2>3. (failed \in [Threads -> BOOLEAN])' /\ (hook \in [Threads -> BOOLEAN])'
    BY <1>6, <2>1 DEF OnRequestComplete, TypeOK
  <2>4. (holds \in [Threads -> BOOLEAN])'
    BY <2>1
  <2>5. (bad \in 0..StatCap)' /\ (total \in 0..StatCap)'
    BY <2>1 DEF TypeOK
  <2>6. QED
    BY <1>6, <2>2, <2>3, <2>4, <2>5 DEF OnRequestComplete, TypeOK, history
<1>7. ASSUME NEW t \in Threads, AddBad(t) \/ AddTotal(t)
      PROVE  TypeOK'
  <2>1. Bump(bad, StatCap) \in 0..StatCap /\ Bump(total, StatCap) \in 0..StatCap
    BY BumpBounded DEF TypeOK
  <2>2. \E step \in Steps : Continue(t, step)
    BY <1>7 DEF AddBad, AddTotal, Steps
  <2>3. (bad \in 0..StatCap)' /\ (total \in 0..StatCap)'
    BY <1>7, <2>1 DEF AddBad, AddTotal, TypeOK
  <2>4. QED
    BY <1>1, <1>7, <2>2, <2>3 DEF AddBad, AddTotal, TypeOK, history
<1>8. ASSUME NEW t \in Threads, SumCounters(t)
      PROVE  TypeOK'
  <2>1. PICK b, n : tripping' = [tripping EXCEPT ![t] =
                      n >= MinRequestAmount /\ ThresholdReached(b, n)]
    BY <1>8 DEF SumCounters
  <2>2. (n >= MinRequestAmount /\ ThresholdReached(b, n)) \in BOOLEAN
    BY DEF ThresholdReached
  <2>3. tripping' \in [Threads -> BOOLEAN]
    BY <2>1, <2>2 DEF TypeOK
  <2>4. QED
    BY <1>8, <2>3 DEF SumCounters, GoTo, TypeOK, shared, history, Steps
<1>9. ASSUME NEW t \in Threads, FromClosedToOpen(t) \/ FromHalfOpenToOpen(t)
      PROVE  TypeOK'
  <2>1. (age \in 0..RetryTimeout /\ overtaken \in [Threads -> 0..RetryTimeout])'
    BY <1>9, ReopenTyped DEF FromClosedToOpen, FromHalfOpenToOpen, TypeOK
  <2>2. QED
    BY <1>1, <1>2, <1>9, <2>1 DEF FromClosedToOpen, FromHalfOpenToOpen, TypeOK,
                                  Steps, States, Open
<1>10. ASSUME NEW t \in Threads,
              ResetProbeOnOpen(t) \/ ReadClock(t)
                \/ UpdateNextRetryTimestamp(t) \/ ResetProbeOnClose(t)
       PROVE  TypeOK'
  <2>1. CASE ResetProbeOnOpen(t) \/ ResetProbeOnClose(t)
    BY <1>1, <2>1, <1>2 DEF ResetProbeOnOpen, ResetProbeOnClose, TypeOK, history,
                            Steps
  <2>2. CASE ReadClock(t)
    BY <1>0, <2>2 DEF ReadClock, TypeOK, shared, history, Steps
  <2>3. CASE UpdateNextRetryTimestamp(t)
    BY <1>2, <2>3 DEF UpdateNextRetryTimestamp, TypeOK
  <2>4. QED BY <1>10, <2>1, <2>2, <2>3
<1>11. ASSUME NEW t \in Threads, AddCurProbeNum(t)
       PROVE  TypeOK'
  BY <1>1, <1>11, BumpBounded DEF AddCurProbeNum, TypeOK, Steps
<1>12. ASSUME NEW t \in Threads, FromHalfOpenToClosed(t)
       PROVE  TypeOK'
  BY <1>1, <1>12 DEF FromHalfOpenToClosed, TypeOK, history, Steps, States,
                     Closed
<1>13. ASSUME NEW t \in Threads, ResetBad(t)
       PROVE  TypeOK'
  <2>1. CASE UNCHANGED bad /\ Finish(t)
    BY <1>2, <1>13, <2>1 DEF ResetBad, TypeOK, history
  <2>2. CASE ~(UNCHANGED bad /\ Finish(t))
    <3>1. /\ bad' = 0
          /\ GoTo(t, "resetTotal")
          /\ holds' = [holds EXCEPT ![t] = TRUE]
          /\ UNCHANGED <<failed, tripping, hook, due>>
      BY <1>13, <2>2 DEF ResetBad
    <3>2. (pc \in [Threads -> Steps])'
      BY <1>0, <3>1 DEF Steps
    <3>3. (holds \in [Threads -> BOOLEAN])'
      BY <3>1 DEF TypeOK
    <3>4. QED
      BY <1>13, <3>1, <3>2, <3>3 DEF ResetBad, TypeOK, history
  <2>3. QED BY <2>1, <2>2
<1>14. ASSUME NEW t \in Threads, ResetTotal(t)
       PROVE  TypeOK'
  BY <1>2, <1>14 DEF ResetTotal, TypeOK, history
<1>15. CASE Tick
  <2>1. Bump(age, RetryTimeout) \in 0..RetryTimeout
    BY BumpBounded DEF TypeOK
  <2>2. \A n \in 0..RetryTimeout : Elapse(n) \in 0..RetryTimeout
    BY DEF Elapse
  <2>3. /\ (age \in 0..RetryTimeout /\ wait \in 0..RetryTimeout)'
        /\ (due \in [Threads -> 0..RetryTimeout])'
    BY <1>15, <2>1, <2>2 DEF Tick, TypeOK
  <2>4. QED
    BY <1>15, <2>3 DEF Tick, TypeOK
<1>16. CASE UNCHANGED vars
  BY <1>16 DEF vars, shared, locals, history, TypeOK
<1>17. QED
  BY <1>3, <1>4, <1>5, <1>6, <1>7, <1>8, <1>9, <1>10, <1>11, <1>12, <1>13,
     <1>14, <1>15, <1>16 DEF Next, Proceed

\* TypeOK: every variable keeps its range.
LEMMA TypeCorrect == Spec => []TypeOK
<1>1. Init => TypeOK
  BY RuleAssumption DEF Init, TypeOK, Steps, States, Closed
<1>2. QED
  BY <1>1, TypeStep, PTL DEF Spec

-----------------------------------------------------------------------------

\* A goroutine leaves the arming steps only by storing the timestamp.
LEMMA ArmingStays ==
  ASSUME TypeOK, NEW t \in Threads, TryPass(t) \/ PassBy(t) \/ Proceed(t),
         ~UpdateNextRetryTimestamp(t), NEW u \in Threads, Arming(u)
  PROVE  Arming(u)'
<1>1. CASE u # t
  <2>1. pc'[u] = pc[u]
    BY <1>1 DEF Proceed, TryPass, PassBy, RetryTimeoutArrived,
      FromOpenToHalfOpen, BlockedDownstream, ExitHook, OnRequestComplete,
      AddBad, AddTotal, SumCounters, ReadState, RereadState,
      FromClosedToOpen, FromHalfOpenToOpen, ResetProbeOnOpen, ReadClock,
      UpdateNextRetryTimestamp, AddCurProbeNum, CheckProbe,
      FromHalfOpenToClosed, ResetProbeOnClose, ResetBad, ResetTotal,
      Continue, Finish, GoTo, TypeOK
  <2>2. QED BY <2>1 DEF Arming
<1>2. CASE u = t
  <2>1. ResetProbeOnOpen(t) \/ ReadClock(t)
    BY <1>2 DEF Arming, Proceed, TryPass, PassBy, RetryTimeoutArrived,
      FromOpenToHalfOpen, BlockedDownstream, ExitHook, OnRequestComplete,
      AddBad, AddTotal, SumCounters, ReadState, RereadState,
      FromClosedToOpen, FromHalfOpenToOpen, UpdateNextRetryTimestamp,
      AddCurProbeNum, CheckProbe, FromHalfOpenToClosed, ResetProbeOnClose,
      ResetBad, ResetTotal
  <2>2. QED
    BY <1>2, <2>1 DEF ResetProbeOnOpen, ReadClock, Continue, GoTo, Arming,
                      TypeOK
<1>3. QED BY <1>1, <1>2

\* What a goroutine is about to store covers the latest opening, but for the
\* age its reading had when that opening overtook it.
DueCovers ==
  \A t \in Threads :
    pc[t] = "storeNextRetry" => due[t] + age + overtaken[t] >= RetryTimeout

\* Reading the clock starts with the whole timeout, an opening books what is
\* gone of it, and a tick takes no more from due than it gives to age.
LEMMA DueStep == TypeOK /\ DueCovers /\ [Next]_vars => DueCovers'
<1> SUFFICES ASSUME TypeOK, DueCovers, [Next]_vars, NEW u \in Threads,
                    pc'[u] = "storeNextRetry"
             PROVE  (due[u] + age + overtaken[u] >= RetryTimeout)'
  BY DEF DueCovers
<1> USE RuleAssumption
<1>1. CASE UNCHANGED vars
  BY <1>1 DEF vars, locals, history, DueCovers
<1>2. CASE Tick
  BY <1>2 DEF Tick, DueCovers, Bump, Elapse, TypeOK
<1>3. ASSUME NEW t \in Threads, ReadClock(t)
      PROVE  (due[u] + age + overtaken[u] >= RetryTimeout)'
  BY <1>3 DEF ReadClock, history, GoTo, DueCovers, TypeOK
<1>4. ASSUME NEW t \in Threads, FromClosedToOpen(t) \/ FromHalfOpenToOpen(t)
      PROVE  (due[u] + age + overtaken[u] >= RetryTimeout)'
  <2>1. pc[u] = "storeNextRetry" /\ due'[u] = due[u] /\ u # t
    BY <1>4 DEF FromClosedToOpen, FromHalfOpenToOpen, Continue, Finish, GoTo,
                TypeOK
  <2>2. CASE Reopen
    BY <2>1, <2>2 DEF Reopen, TypeOK
  <2>3. CASE ~Reopen
    BY <1>4, <2>1, <2>3 DEF FromClosedToOpen, FromHalfOpenToOpen, DueCovers
  <2>4. QED BY <2>2, <2>3
<1>5. ASSUME NEW t \in Threads, UpdateNextRetryTimestamp(t)
      PROVE  (due[u] + age + overtaken[u] >= RetryTimeout)'
  BY <1>5 DEF UpdateNextRetryTimestamp, Finish, GoTo, DueCovers, TypeOK
<1>6. ASSUME NEW t \in Threads, TryPass(t) \/ PassBy(t) \/ Proceed(t),
             ~ReadClock(t), ~FromClosedToOpen(t), ~FromHalfOpenToOpen(t),
             ~UpdateNextRetryTimestamp(t)
      PROVE  (due[u] + age + overtaken[u] >= RetryTimeout)'
  <2>1. UNCHANGED <<age, overtaken>>
    BY <1>6 DEF Proceed, TryPass, PassBy, RetryTimeoutArrived,
      FromOpenToHalfOpen, BlockedDownstream, ExitHook, OnRequestComplete,
      AddBad, AddTotal, SumCounters, ReadState, RereadState,
      ResetProbeOnOpen, AddCurProbeNum, CheckProbe, FromHalfOpenToClosed,
      ResetProbeOnClose, ResetBad, ResetTotal, shared, history
  <2>2. pc[u] = "storeNextRetry" /\ due'[u] = due[u]
    BY <1>6 DEF Proceed, TryPass, PassBy, RetryTimeoutArrived,
      FromOpenToHalfOpen, BlockedDownstream, ExitHook, OnRequestComplete,
      AddBad, AddTotal, SumCounters, ReadState, RereadState,
      ResetProbeOnOpen, AddCurProbeNum, CheckProbe, FromHalfOpenToClosed,
      ResetProbeOnClose, ResetBad, ResetTotal, Continue, Finish, GoTo, TypeOK
  <2>3. QED BY <2>1, <2>2 DEF DueCovers
<1>7. QED BY <1>1, <1>2, <1>3, <1>4, <1>5, <1>6 DEF Next

\* A step that opens the breaker puts its goroutine on the way to
\* updateNextRetryTimestamp; the step that stores the timestamp stores all that
\* DueCovers gives it; a tick takes no more from wait than it gives to age.
LEMMA ArmedStep ==
  TypeOK /\ DueCovers /\ TimeoutArmed /\ [Next]_vars => TimeoutArmed'
<1> SUFFICES ASSUME TypeOK, DueCovers, TimeoutArmed, [Next]_vars
             PROVE  TimeoutArmed'
  OBVIOUS
<1> USE RuleAssumption
<1>1. CASE UNCHANGED vars
  BY <1>1 DEF vars, shared, locals, history, TimeoutArmed, Arming
<1>2. CASE Tick
  BY <1>2 DEF Tick, TimeoutArmed, Arming, Bump, Elapse, TypeOK
<1>3. ASSUME NEW t \in Threads, UpdateNextRetryTimestamp(t)
      PROVE  TimeoutArmed'
  BY <1>3 DEF UpdateNextRetryTimestamp, DueCovers, TimeoutArmed, TypeOK
<1>4. ASSUME NEW t \in Threads, TryPass(t) \/ PassBy(t) \/ Proceed(t),
             ~UpdateNextRetryTimestamp(t)
      PROVE  TimeoutArmed'
  <2>1. CASE \E u \in Threads : Arming(u)
    BY <1>4, <2>1, ArmingStays DEF TimeoutArmed
  <2>2. CASE wait + age + lost >= RetryTimeout
    <3>1. CASE UNCHANGED <<wait, age, lost>>
      BY <2>2, <3>1 DEF TimeoutArmed
    <3>2. CASE ~UNCHANGED <<wait, age, lost>>
      <4>1. \/ FromClosedToOpen(t) /\ Continue(t, "readClock")
            \/ FromHalfOpenToOpen(t) /\ Continue(t, "resetProbeOnOpen")
        BY <1>4, <3>2 DEF Proceed, TryPass, PassBy, RetryTimeoutArrived,
          FromOpenToHalfOpen, BlockedDownstream, ExitHook, OnRequestComplete,
          AddBad, AddTotal, SumCounters, ReadState, RereadState,
          FromClosedToOpen, FromHalfOpenToOpen, ResetProbeOnOpen, ReadClock,
          AddCurProbeNum, CheckProbe, FromHalfOpenToClosed,
          ResetProbeOnClose, ResetBad, ResetTotal, shared, history
      <4>2. pc'[t] \in {"readClock", "resetProbeOnOpen"}
        BY <4>1 DEF Continue, GoTo, TypeOK
      <4>3. QED BY <4>2 DEF TimeoutArmed, Arming
    <3>3. QED BY <3>1, <3>2
  <2>3. QED BY <2>1, <2>2 DEF TimeoutArmed
<1>5. QED BY <1>1, <1>2, <1>3, <1>4 DEF Next

\* TimeoutArmed: once no goroutine is between opening the breaker and storing
\* nextRetryTimestampMs, the timestamp covers the latest opening's retry
\* timeout, less what the reading of the clock it was computed from had aged
\* when that opening overtook its writer; however many goroutines read, are
\* overtaken and store in whatever order.
THEOREM TimeoutAlwaysArmed == Spec => []TimeoutArmed
<1>1. Init => TimeoutArmed /\ DueCovers
  BY RuleAssumption DEF Init, TimeoutArmed, DueCovers
<1>2. TypeOK /\ DueCovers /\ TimeoutArmed /\ [Next]_vars
        => (DueCovers /\ TimeoutArmed)'
  BY DueStep, ArmedStep
<1>3. QED
  BY <1>1, <1>2, TypeCorrect, PTL DEF Spec

-----------------------------------------------------------------------------

\* The step of one goroutine leaves the others where they are.
LEMMA OthersStay ==
  ASSUME TypeOK, NEW t \in Threads, TryPass(t) \/ PassBy(t) \/ Proceed(t),
         NEW u \in Threads, u # t
  PROVE  pc'[u] = pc[u] /\ hook'[u] = hook[u]
  BY DEF Proceed, TryPass, PassBy, RetryTimeoutArrived, FromOpenToHalfOpen,
    BlockedDownstream, ExitHook, OnRequestComplete, AddBad, AddTotal,
    SumCounters, ReadState, RereadState, FromClosedToOpen, FromHalfOpenToOpen,
    ResetProbeOnOpen, ReadClock, UpdateNextRetryTimestamp, AddCurProbeNum, CheckProbe,
    FromHalfOpenToClosed, ResetProbeOnClose, ResetBad, ResetTotal,
    Continue, Finish, GoTo, TypeOK

\* fromOpenToHalfOpen makes the winner of the swap the undecided probe; until
\* the state leaves HalfOpen every step of the probe leaves it undecided.
LEMMA OwnedStep == TypeOK /\ HalfOpenOwned /\ [Next]_vars => HalfOpenOwned'
<1> SUFFICES ASSUME TypeOK, HalfOpenOwned, [Next]_vars,
                    ProbeNum = 0, state' = HalfOpen
             PROVE  (prober \in Threads /\ Undecided(prober))'
  BY DEF HalfOpenOwned
<1> USE ThreadsAssumption DEF Open, HalfOpen, Closed
<1>1. CASE UNCHANGED vars
  BY <1>1 DEF vars, shared, locals, history, HalfOpenOwned, Undecided
<1>2. CASE Tick
  BY <1>2 DEF Tick, HalfOpenOwned, Undecided
<1>3. ASSUME NEW t \in Threads, TryPass(t) \/ PassBy(t) \/ Proceed(t)
      PROVE  (prober \in Threads /\ Undecided(prober))'
  <2>1. CASE state # HalfOpen
    \* The swap that makes the breaker HalfOpen makes its winner the prober.
    <3>1. FromOpenToHalfOpen(t) /\ state = Open
      BY <1>3, <2>1 DEF Proceed, TryPass, PassBy, RetryTimeoutArrived,
        FromOpenToHalfOpen, BlockedDownstream, ExitHook, OnRequestComplete,
        AddBad, AddTotal, SumCounters, ReadState, RereadState,
        FromClosedToOpen, FromHalfOpenToOpen, ResetProbeOnOpen,
        ReadClock, UpdateNextRetryTimestamp, AddCurProbeNum, CheckProbe,
        FromHalfOpenToClosed, ResetProbeOnClose, ResetBad, ResetTotal, shared
    <3>2. QED
      BY <3>1 DEF FromOpenToHalfOpen, GoTo, TypeOK, Undecided
  <2>2. CASE state = HalfOpen
    <3>1. prober \in Threads /\ Undecided(prober) /\ prober' = prober
      BY <1>3, <2>2 DEF HalfOpenOwned, Proceed, TryPass, PassBy,
        RetryTimeoutArrived, FromOpenToHalfOpen, BlockedDownstream, ExitHook,
        OnRequestComplete, AddBad, AddTotal, SumCounters, ReadState,
        RereadState, FromClosedToOpen, FromHalfOpenToOpen, ResetProbeOnOpen,
        ReadClock, UpdateNextRetryTimestamp, AddCurProbeNum, CheckProbe,
        FromHalfOpenToClosed, ResetProbeOnClose, ResetBad, ResetTotal, history
    <3>2. CASE prober # t
      BY <1>3, <3>1, <3>2, OthersStay DEF Undecided
    <3>3. CASE prober = t
      \* The prober's own step keeps it undecided, or decides the state.
      <4>1. CASE BlockedDownstream(t)
        BY <3>1, <3>3, <4>1 DEF BlockedDownstream, Continue, GoTo, Undecided,
                                TypeOK
      <4>2. CASE OnRequestComplete(t)
        BY <3>1, <3>3, <4>2 DEF OnRequestComplete, GoTo, Undecided, TypeOK
      <4>3. CASE AddBad(t) \/ AddTotal(t) \/ SumCounters(t) \/ AddCurProbeNum(t)
        BY <3>1, <3>3, <4>3 DEF AddBad, AddTotal, SumCounters, AddCurProbeNum,
                                Continue, GoTo, Undecided, TypeOK
      <4>4. CASE ReadState(t)
        BY <2>2, <3>1, <3>3, <4>4 DEF ReadState, Continue, GoTo, Undecided,
                                      TypeOK
      <4>5. CASE CheckProbe(t)
        BY <3>1, <3>3, <4>5 DEF CheckProbe, Continue, GoTo, Undecided, TypeOK
      <4>6. CASE ExitHook(t) \/ FromHalfOpenToOpen(t) \/ FromHalfOpenToClosed(t)
        BY <2>2, <4>6 DEF ExitHook, FromHalfOpenToOpen, FromHalfOpenToClosed
      <4>7. QED
        BY <1>3, <3>1, <3>3, <4>1, <4>2, <4>3, <4>4, <4>5, <4>6
           DEF Undecided, Proceed, TryPass, PassBy, RetryTimeoutArrived,
               FromOpenToHalfOpen, RereadState, FromClosedToOpen,
               ResetProbeOnOpen, ReadClock, UpdateNextRetryTimestamp, ResetProbeOnClose,
               ResetBad, ResetTotal
    <3>4. QED BY <3>2, <3>3
  <2>3. QED BY <2>1, <2>2
<1>4. QED BY <1>1, <1>2, <1>3 DEF Next

\* HalfOpenOwned: a breaker that admits a single probe is never HalfOpen
\* without the request that decides it, whichever requests overtake the probe
\* and whether the probe completes or is blocked by another slot.
THEOREM HalfOpenAlwaysOwned == Spec => []HalfOpenOwned
<1>1. Init => HalfOpenOwned
  BY DEF Init, HalfOpenOwned, Closed, HalfOpen
<1>2. QED
  BY <1>1, OwnedStep, TypeCorrect, PTL DEF Spec

-----------------------------------------------------------------------------

\* ImplementsMachine: the goroutines' swaps only ever take the breaker along
\* the arrows of the diagram in circuit_breaker.go.
THEOREM RefinesMachine == Spec => ImplementsMachine
<1> USE DEF Closed, HalfOpen, Open, Machine!Closed, Machine!HalfOpen,
            Machine!Open
<1>1. Init => Machine!Init
  BY DEF Init, Machine!Init
<1>2. TypeOK /\ [Next]_vars => [Machine!Next]_state
  <2> SUFFICES ASSUME TypeOK, [Next]_vars, state' # state PROVE Machine!Next
    OBVIOUS
  <2>1. PICK t \in Threads :
          FromOpenToHalfOpen(t) \/ ExitHook(t) \/ FromClosedToOpen(t)
            \/ FromHalfOpenToOpen(t) \/ FromHalfOpenToClosed(t)
    BY DEF Next, Proceed, Tick, TryPass, PassBy, RetryTimeoutArrived,
      BlockedDownstream, OnRequestComplete, AddBad, AddTotal, SumCounters,
      ReadState, RereadState, ResetProbeOnOpen, ReadClock, UpdateNextRetryTimestamp,
      AddCurProbeNum, CheckProbe, ResetProbeOnClose, ResetBad, ResetTotal,
      vars, shared
  <2>2. QED
    BY <2>1 DEF FromOpenToHalfOpen, ExitHook, FromClosedToOpen,
      FromHalfOpenToOpen, FromHalfOpenToClosed, Machine!Next, Machine!Trip,
      Machine!Probe, Machine!ProbeFailed, Machine!ProbeSucceed
<1>3. QED
  BY <1>1, <1>2, TypeCorrect, PTL DEF Spec, ImplementsMachine, Machine!Spec

=============================================================================
