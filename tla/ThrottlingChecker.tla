-------------------------- MODULE ThrottlingChecker --------------------------
(***************************************************************************)
(* ThrottlingChecker.DoCheck of core/flow/tc_throttling.go: the leaky      *)
(* bucket of one flow rule, called by concurrent requests.  Every request  *)
(* of Requests calls DoCheck once, with a batch count and with the         *)
(* threshold the rule's calculator has just computed.  Every atomic        *)
(* operation on lastPassedTime and lastSystemTime, and every reading of    *)
(* the clock, is a step.                                                   *)
(*                                                                         *)
(* Time is counted in ticks of the wall clock, which moves on up to        *)
(* MaxTime and, once, may be set back by SetBack, both also in the middle  *)
(* of a call.                                                              *)
(*                                                                         *)
(* A granted request has a place in the queue: the value lastPassedTime    *)
(* got for it.  It is told to wait from its reading of the clock up to its *)
(* place, or not at all, so it does not run before its place; it runs      *)
(* later by what its call took, or if its place lay back already.          *)
(***************************************************************************)
EXTENDS Integers

CONSTANTS
  Requests,
  Batches,         \* batch counts of the requests
  Thresholds,      \* thresholds the calculator may return
  StatInterval,    \* statIntervalNs
  MaxQueueing,     \* maxQueueingTimeNs
  Tolerance,       \* the second of clock skew that is tolerated
  MaxTime,         \* bound on the clock
  SetBack          \* how far the clock may be set back; 0: it never is

ASSUME TimeAssumption ==
  /\ MaxTime >= MaxQueueing + SetBack
  /\ Batches \subseteq Nat /\ Thresholds \subseteq Nat
  /\ StatInterval \in Nat \ {0}
  /\ MaxQueueing \in Nat
  /\ Tolerance \in Nat
  /\ MaxTime \in Nat
  /\ SetBack \in Nat

VARIABLES
  now,             \* the wall clock
  wasSetBack,      \* the clock has been set back
  lastPassedTime,
  lastSystemTime,
  pc,              \* what each request does next
  cur,             \* curNano
  interval,        \* intervalNs
  loaded,          \* loadedLastPassedTime, later the loaded lastSystemTime
  clockRead,       \* the reading that is to become lastSystemTime
  granted,         \* the requests that may run ...
  place,           \* ... and their places in the queue
  displaced,       \* history: those whose places no longer count
  delay            \* history: how far the clock has moved during one call

shared == <<lastPassedTime, lastSystemTime>>
clock  == <<now, wasSetBack, delay>>
locals == <<cur, interval, loaded, clockRead>>
answer == <<granted, place, displaced>>
vars   == <<clock, shared, pc, locals, answer>>

Steps == { "new", "loadLastPassed", "loadLastSystem", "casSkewed", "casPass",
           "estimate", "add", "rollBack", "loadSystem", "readClock", "casSystem",
           "done" }

GoTo(r, step) == pc' = [pc EXCEPT ![r] = step]

\* math.Ceil(batchCount / threshold * statIntervalNs)
IntervalOf(batch, threshold) ==
  (batch * StatInterval + threshold - 1) \div threshold

\* A plausible slip: the interval of the request is left out of its turn.
ExpectedAtOnce(r, last) == IF last <= cur[r] THEN "casPass" ELSE "estimate"

\* Where a request goes that no clock skew concerns: its turn has come, or it
\* has to queue.
Expected(r, last) == IF last + interval[r] <= cur[r] THEN "casPass" ELSE "estimate"

Init ==
  /\ now = MaxQueueing + SetBack
  /\ wasSetBack = FALSE
  /\ lastPassedTime = 0
  /\ lastSystemTime = 0
  /\ pc = [r \in Requests |-> "new"]
  /\ cur = [r \in Requests |-> 0]
  /\ interval = [r \in Requests |-> 0]
  /\ loaded = [r \in Requests |-> 0]
  /\ clockRead = [r \in Requests |-> 0]
  /\ granted = {}
  /\ place = [r \in Requests |-> 0]
  /\ displaced = {}
  /\ delay = 0

-----------------------------------------------------------------------------

\* An empty batch passes and a threshold of zero refuses; both still run the
\* deferred update of lastSystemTime.
DoCheck(r) ==
  /\ pc[r] = "new"
  /\ cur' = [cur EXCEPT ![r] = now]
  /\ \E batch \in Batches, threshold \in Thresholds :
       IF batch > 0 /\ threshold > 0
       THEN /\ interval' = [interval EXCEPT ![r] = IntervalOf(batch, threshold)]
            /\ GoTo(r, "loadLastPassed")
       ELSE /\ GoTo(r, "loadSystem")
            /\ UNCHANGED interval
  /\ UNCHANGED <<clock, shared, loaded, clockRead, answer>>

LoadLastPassed(r) ==
  /\ pc[r] = "loadLastPassed"
  /\ loaded' = [loaded EXCEPT ![r] = lastPassedTime]
  /\ GoTo(r, "loadLastSystem")
  /\ UNCHANGED <<clock, shared, cur, interval, clockRead, answer>>

\* A plausible slip: the clock is taken to go forward only.
TrustClock(r) ==
  /\ pc[r] = "loadLastSystem"
  /\ GoTo(r, Expected(r, loaded[r]))
  /\ UNCHANGED <<clock, shared, locals, answer>>

\* lastSystemTime lies too far ahead: the clock was set back.
LoadLastSystem(r) ==
  /\ pc[r] = "loadLastSystem"
  /\ GoTo(r, IF lastSystemTime > cur[r] + Tolerance
             THEN "casSkewed" ELSE Expected(r, loaded[r]))
  /\ UNCHANGED <<clock, shared, locals, answer>>

\* The request has its place.  It does not count while another has yet to take
\* its own back, for lastPassedTime is too large then; nor do those that are
\* outdated by it.
Grant(r, time, outdated) ==
  /\ granted' = granted \cup {r}
  /\ place' = [place EXCEPT ![r] = time]
  /\ displaced' = displaced \cup outdated
                   \cup {s \in {r} : \E t \in Requests : pc[t] = "rollBack"}

\* lastPassedTime becomes the current time, if no other request moved it.
CasPass(r, onFailure, outdated) ==
  /\ IF lastPassedTime = loaded[r]
     THEN /\ lastPassedTime' = cur[r]
          /\ Grant(r, cur[r], outdated)
          /\ GoTo(r, "loadSystem")
     ELSE /\ GoTo(r, onFailure)
          /\ UNCHANGED <<lastPassedTime, answer>>
  /\ UNCHANGED <<clock, lastSystemTime, locals>>

\* For a clock that was set back the queue starts afresh.
CasSkewed(r) ==
  /\ pc[r] = "casSkewed"
  /\ CasPass(r, Expected(r, loaded[r]), granted)

CasExpected(r) ==
  /\ pc[r] = "casPass"
  /\ CasPass(r, "estimate", {})

\* Refused when the queue, as it is now, is too long.
Estimate(r) ==
  /\ pc[r] = "estimate"
  /\ GoTo(r, IF lastPassedTime + interval[r] - cur[r] > MaxQueueing
             THEN "loadSystem" ELSE "add")
  /\ UNCHANGED <<clock, shared, locals, answer>>

\* A plausible slip: what the queue was like before the addition is trusted.
AddUnchecked(r) ==
  /\ pc[r] = "add"
  /\ lastPassedTime' = lastPassedTime + interval[r]
  /\ Grant(r, lastPassedTime', {})
  /\ GoTo(r, "loadSystem")
  /\ UNCHANGED <<clock, lastSystemTime, locals>>

\* Queue up, unless the queue has become too long meanwhile.
Add(r) ==
  /\ pc[r] = "add"
  /\ lastPassedTime' = lastPassedTime + interval[r]
  /\ IF lastPassedTime' - cur[r] > MaxQueueing
     THEN /\ GoTo(r, "rollBack")
          /\ UNCHANGED answer
     ELSE /\ Grant(r, lastPassedTime', {})
          /\ GoTo(r, "loadSystem")
  /\ UNCHANGED <<clock, lastSystemTime, locals>>

\* A plausible slip: a refused request keeps its place in the queue.
KeepPlace(r) ==
  /\ pc[r] = "rollBack"
  /\ GoTo(r, "loadSystem")
  /\ UNCHANGED <<clock, shared, locals, answer>>

RollBack(r) ==
  /\ pc[r] = "rollBack"
  /\ lastPassedTime' = lastPassedTime - interval[r]
  /\ GoTo(r, "loadSystem")
  /\ UNCHANGED <<clock, lastSystemTime, locals, answer>>

\* The deferred function: a swap of lastSystemTime against its own value ...
LoadSystem(r) ==
  /\ pc[r] = "loadSystem"
  /\ loaded' = [loaded EXCEPT ![r] = lastSystemTime]
  /\ GoTo(r, "readClock")
  /\ UNCHANGED <<clock, shared, cur, interval, clockRead, answer>>

\* ... for the time the clock shows then.
ReadClock(r) ==
  /\ pc[r] = "readClock"
  /\ clockRead' = [clockRead EXCEPT ![r] = now]
  /\ GoTo(r, "casSystem")
  /\ UNCHANGED <<clock, shared, cur, interval, loaded, answer>>

\* With it the call ends, and what it has loaded and read is gone.
CasSystem(r) ==
  /\ pc[r] = "casSystem"
  /\ lastSystemTime' = IF lastSystemTime = loaded[r] THEN clockRead[r] ELSE lastSystemTime
  /\ loaded' = [loaded EXCEPT ![r] = 0]
  /\ clockRead' = [clockRead EXCEPT ![r] = 0]
  /\ GoTo(r, "done")
  /\ UNCHANGED <<clock, lastPassedTime, cur, interval, answer>>

-----------------------------------------------------------------------------
(* The clock                                                                *)

Checking == { r \in Requests : pc[r] \notin {"new", "done"} }

\* The calls under way take that long by now.
Takes(times) ==
  \E time \in times \cup {delay} : (\A t \in times \cup {delay} : t <= time) /\ delay' = time

Tick ==
  /\ now < MaxTime
  /\ now' = now + 1
  /\ Takes({now + 1 - cur[r] : r \in Checking})
  /\ UNCHANGED <<wasSetBack, shared, pc, locals, answer>>

SetClockBack ==
  /\ SetBack > 0 /\ ~wasSetBack
  /\ now' = now - SetBack
  /\ wasSetBack' = TRUE
  /\ Takes({SetBack : r \in Checking})
  /\ UNCHANGED <<shared, pc, locals, answer>>

\* Nothing is left to do.
Finished ==
  /\ now = MaxTime
  /\ \A r \in Requests : pc[r] = "done"
  /\ UNCHANGED vars

Next ==
  \/ Tick
  \/ SetClockBack
  \/ Finished
  \/ \E r \in Requests :
       \/ DoCheck(r)
       \/ LoadLastPassed(r)
       \/ LoadLastSystem(r)
       \/ CasSkewed(r)
       \/ CasExpected(r)
       \/ Estimate(r)
       \/ Add(r)
       \/ RollBack(r)
       \/ LoadSystem(r)
       \/ ReadClock(r)
       \/ CasSystem(r)

Spec == Init /\ [][Next]_vars

-----------------------------------------------------------------------------
(* Properties                                                               *)

\* The values each variable ranges over: nobody is told to wait longer than
\* allowed.  The last passed time may become negative: it is a signed integer
\* from which a refused request takes back what it added.
TypeOK ==
  /\ now \in 0..MaxTime
  /\ wasSetBack \in BOOLEAN
  /\ lastPassedTime \in Int
  /\ lastSystemTime \in 0..MaxTime
  /\ pc \in [Requests -> Steps]
  /\ cur \in [Requests -> 0..MaxTime]
  /\ interval \in [Requests -> Nat]
  /\ loaded \in [Requests -> Int]
  /\ clockRead \in [Requests -> 0..MaxTime]
  /\ granted \subseteq Requests
  /\ place \in [Requests -> Int]
  /\ \A r \in granted : place[r] - cur[r] <= MaxQueueing
  /\ displaced \subseteq granted
  /\ delay \in 0..(MaxTime + SetBack)

InLine == granted \ displaced

\* Refuted: a request that is granted its place while another has to take its
\* own back keeps no distance to those behind it, and a clock that is back
\* starts the queue afresh.
SpacingStrict ==
  \A r, s \in granted :
    r # s /\ place[r] <= place[s] => place[s] - place[r] >= interval[s]

\* tc_throttling.go: "ThrottlingChecker limits the time interval between two
\* requests".  Of two places in the queue the later one is its own interval or
\* more behind the earlier one, however swaps, additions, roll-backs and the
\* clock interleave, except for a request that was granted its place while
\* another had yet to take its own back, and for a queue that was started afresh
\* since because of a skew.
Spacing ==
  \A r, s \in InLine :
    r # s /\ place[r] <= place[s] => place[s] - place[r] >= interval[s]

\* With nobody inside DoCheck the end of the queue is the last place granted:
\* what a refused request added has been taken back, and nothing else was lost.
\* Only the place of a displaced request may lie beyond the end.
QueueIsGrants ==
  Checking = {} /\ granted # {} =>
    /\ \E r \in granted : lastPassedTime <= place[r]
    /\ \A r \in InLine : lastPassedTime >= place[r]

\* Requests that had nothing to wait for, or nothing to hope for: their only
\* trace is that they refresh lastSystemTime.
Skipped == { r \in Requests : pc[r] = "done" /\ interval[r] = 0 }

\* tc_throttling.go, on the skew test: a request passes when the system clock
\* was set back by more than the tolerance.  So the queue never reaches further
\* into the future than queueing, the tolerance and the duration of the calls
\* explain, unless the next request will notice.  Only a skipped request can
\* hide that the clock is back.
SkewNoticed ==
  Checking = {} /\ Skipped = {} =>
    \/ lastPassedTime - now <= MaxQueueing + Tolerance + delay
    \/ lastSystemTime > now + Tolerance

=============================================================================
