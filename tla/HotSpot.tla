------------------------------- MODULE HotSpot -------------------------------
(***************************************************************************)
(* The hot spot slot of core/hotspot for one resource: concurrent requests *)
(* pass the traffic shaping controllers of the resource one after the      *)
(* other, each of which keeps its statistics by parameter value in LRU     *)
(* caches, and a stat slot counts the concurrency.  Every atomic operation *)
(* and every locked operation on a cache is a step.                        *)
(*                                                                         *)
(* A counter is an int64 that some request allocated and put in a cache,   *)
(* so the request stands for the pointer.  Requests are numbered in the    *)
(* order in which they arrive.                                             *)
(***************************************************************************)
EXTENDS Integers, Sequences, FiniteSets

CONSTANTS
  NumRequests, Batches,
  RuleLists,     \* the valid rules of the resource, one of these lists
  Inputs,        \* what a request may carry
  Args, NoArg,   \* the values extracted from them, and nil
  Parsable,      \* the pairs <<kind, text>> for which strconv finds no error
  Blank,         \* the empty string
  LastStart,     \* bound: no request arrives later than this
  MaxClock       \* bound: the last moment of the clock; sleeps end by then

Requests == 1..NumRequests
Nil == 0

INSTANCE LruCache WITH Keys <- Args, Pointers <- Requests, NoPointer <- Nil

-----------------------------------------------------------------------------
(* What a controller extracts from a request.  A value is a pair of its kind  *)
(* and its text.  A request carries attachments (key to value), headers (key  *)
(* to the first text), metadata (key to text), at least one argument, each a  *)
(* value and, for a string "key=text", that pair, and the fields (path to     *)
(* value) of its first argument if isStruct.                                  *)

LookUpIn(map, key, default) == IF key \in DOMAIN map THEN map[key] ELSE default

Least(S) == CHOOSE i \in S : \A j \in S : i <= j

transKind(text, kind) ==
  IF text # Blank /\ (kind = "string" \/ <<kind, text>> \in Parsable)
  THEN <<kind, text>> ELSE NoArg

extractAttachmentArgs(rule, in) ==
  IF rule.paramKey = Blank THEN NoArg ELSE LookUpIn(in.attachments, rule.paramKey, NoArg)

extractHeader(rule, in) ==
  IF rule.paramSource # "Header" THEN NoArg
  ELSE transKind(LookUpIn(in.headers, rule.paramKey, Blank), rule.paramKind)

extractMetadata(rule, in) ==
  IF rule.paramSource # "Metadata" THEN NoArg
  ELSE transKind(LookUpIn(in.metadata, rule.paramKey, Blank), rule.paramKind)

\* In JSON every number is a float64; what is no number and no bool, a string.
FromJson(value) ==
  << IF value[1] \in {"int", "int32", "int64", "float32", "float64"} THEN "float64"
     ELSE IF value[1] = "bool" THEN "bool" ELSE "string", value[2] >>

\* The field of a struct; or the first "key=text"; or the argument at an index,
\* which counts from the end when negative.
extractArgs(rule, in) ==
  LET named == {i \in 1..Len(in.args) : in.args[i].pair # <<>> /\ in.args[i].pair[1] = rule.paramKey}
      index == IF rule.paramIndex < 0 THEN Len(in.args) + rule.paramIndex ELSE rule.paramIndex
  IN  IF in.isStruct
      THEN IF rule.paramKey \in DOMAIN in.fields THEN FromJson(in.fields[rule.paramKey]) ELSE NoArg
      ELSE IF named # {} THEN <<"string", in.args[Least(named)].pair[2]>>
      ELSE IF index \in 0..(Len(in.args) - 1) THEN in.args[index + 1].value ELSE NoArg

ExtractArgs(rule, in) ==
  LET found == << extractAttachmentArgs(rule, in), extractHeader(rule, in),
                  extractMetadata(rule, in), extractArgs(rule, in) >>
      some  == {i \in 1..4 : found[i] # NoArg}
  IN  IF some = {} THEN NoArg ELSE found[Least(some)]

\* Rule and ClusterConfig.  limitApp says that there is an application other than
\* "default"; global is ClusterMode with ThresholdGlobal, master that a token
\* server is configured, fallback is FallbackToLocalWhenFail.  A controller is
\* made for the two metrics only, and its caches have room for something.
IsRule(rule) ==
  /\ rule.limitApp \in BOOLEAN /\ rule.metric \in {"Concurrency", "QPS"}
  /\ rule.threshold \in Int /\ rule.burstCount \in Int
  /\ rule.durationInSec \in Int /\ rule.maxQueueing \in Int
  /\ rule.capacity \in Nat \ {0}
  /\ \A a \in DOMAIN rule.specificItems : rule.specificItems[a] \in Int
  /\ rule.global \in BOOLEAN /\ rule.master \in BOOLEAN /\ rule.fallback \in BOOLEAN

\* IsValidRule and checkControlBehaviorField.
IsValidRule(rule) ==
  /\ rule.threshold >= 0
  /\ rule.metric = "QPS" => rule.durationInSec > 0
  /\ ~(rule.paramIndex > 0 /\ rule.paramKey # Blank)
  /\ rule.behavior = "Reject" => rule.burstCount >= 0
  /\ rule.behavior = "Throttling" => rule.maxQueueing >= 0

-----------------------------------------------------------------------------
\* Times are in ticks.
ASSUME HotSpotAssumption ==
  /\ NumRequests \in Nat \ {0} /\ IsFiniteSet(Args) /\ NoArg \notin Args
  /\ Batches \subseteq Nat \ {0}
  /\ \A rules \in RuleLists :
       /\ Len(rules) \in Nat /\ DOMAIN rules = 1..Len(rules)
       /\ \A k \in 1..Len(rules) :
            /\ IsRule(rules[k]) /\ IsValidRule(rules[k])
            /\ \A in \in Inputs : ExtractArgs(rules[k], in) \in Args \cup {NoArg}
  /\ LastStart \in Nat /\ MaxClock \in Nat

VARIABLES
  clock,
  tcs,                \* the rules of the controllers of the resource
  timeCounter, tokenCounter, concurrentCounter,   \* the caches of each controller
  time, token, concurrent,    \* the values behind the pointers in them
  pc,                 \* where each request is
  args,               \* what each controller extracts from the request
  fromLimitApp,       \* whether ctx.FromService is in the LimitApp of the rules
  batch,              \* ctx.Input.BatchCount
  at,                 \* the controller the request has come to
  local,              \* the local variables of PerformChecking
  passAt,             \* history: the time for which a QPS controller granted it
  disturbed           \* history: whether somebody came between the two writes of another

caches  == <<timeCounter, tokenCounter, concurrentCounter>>
values  == <<time, token, concurrent>>
request == <<args, fromLimitApp, batch>>
vars    == <<clock, tcs, caches, values, pc, request, at, local, passAt, disturbed>>

Controllers == 1..Len(tcs)
Never == -1

NoLocals == [now |-> 0, last |-> Nil, rest |-> Nil, old |-> 0, new |-> 0]

InQPS == { "readClock", "addTime", "loadTime", "firstTokens", "refill", "loadOld",
           "swapRefill", "stamp", "spend", "loadRest", "swapSpend", "swapTime",
           "stampExpected", "sleeping" }
InConcurrency == {"addConcurrent", "loadConcurrent"}
InStat == {"passing", "addPassed", "running", "completing", "addCompleted"}
PCs == InQPS \cup InConcurrency \cup InStat \cup {"new", "checked", "done", "blocked"}

Init ==
  /\ clock = 0
  /\ tcs \in RuleLists
  /\ timeCounter = [k \in Controllers |-> NewLRU]
  /\ tokenCounter = [k \in Controllers |-> NewLRU]
  /\ concurrentCounter = [k \in Controllers |-> NewLRU]
  /\ time = [k \in Controllers |-> [r \in Requests |-> 0]]
  /\ token = [k \in Controllers |-> [r \in Requests |-> 0]]
  /\ concurrent = [k \in Controllers |-> [r \in Requests |-> 0]]
  /\ pc = [r \in Requests |-> "new"]
  /\ args = [r \in Requests |-> [k \in Controllers |-> NoArg]]
  /\ fromLimitApp = [r \in Requests |-> FALSE]
  /\ batch = [r \in Requests |-> 1]
  /\ at = [r \in Requests |-> 1]
  /\ local = [r \in Requests |-> NoLocals]
  /\ passAt = [k \in Controllers |-> [r \in Requests |-> Never]]
  /\ disturbed = FALSE

-----------------------------------------------------------------------------
(* The controllers a request meets                                          *)

Arg(r)    == args[r][at[r]]
Rule(r)   == tcs[at[r]]

TokenCount(k, arg) ==
  IF arg \in DOMAIN tcs[k].specificItems THEN tcs[k].specificItems[arg]
                                         ELSE tcs[k].threshold
MaxCount(k, arg) == TokenCount(k, arg) + tcs[k].burstCount

\* canPassCheck: the cluster check lets everything pass unless it falls back.
PassesInCluster(k) ==
  /\ tcs[k].metric = "QPS" /\ tcs[k].global
  /\ tcs[k].master \/ ~tcs[k].fallback

\* There is an argument, LimitApp fits, the controller is asked.
Checks(r, k) == /\ args'[r][k] # NoArg
                /\ tcs[k].limitApp => fromLimitApp'[r]
                /\ ~PassesInCluster(k)

\* The stat slot does not ask for the service the request comes from.
Counts(r, k) == tcs[k].metric = "Concurrency" /\ args[r][k] # NoArg

Move(r, p) == pc' = [pc EXCEPT ![r] = p]

FirstStep(k) == IF tcs[k].metric = "Concurrency" THEN "addConcurrent" ELSE "readClock"

\* Slot.Check: the loop goes on with controller k, and over those that have
\* nothing to say about this request.
GoOn(r, k) ==
  \E i \in k..(Len(tcs) + 1) :
    /\ \A j \in k..(i - 1) : ~Checks(r, j)
    /\ i \in Controllers => Checks(r, i)
    /\ at' = [at EXCEPT ![r] = i]
    /\ Move(r, IF i \in Controllers THEN FirstStep(i) ELSE "checked")

\* Check is called with the context of a request, one that has an argument
\* for some controller: the others touch nothing.
Begin(r) ==
  /\ pc[r] = "new" /\ clock <= LastStart
  /\ \A q \in 1..(r - 1) : pc[q] # "new"
  /\ \E in \in Inputs, b \in Batches, f \in BOOLEAN :
       /\ args' = [args EXCEPT ![r] = [k \in Controllers |-> ExtractArgs(tcs[k], in)]]
       /\ batch' = [batch EXCEPT ![r] = b]
       /\ fromLimitApp' = [fromLimitApp EXCEPT ![r] = f]
       /\ (\A k \in Controllers : ~tcs[k].limitApp) => f
  /\ \E k \in Controllers : args'[r][k] # NoArg
  /\ GoOn(r, 1)
  /\ UNCHANGED <<clock, tcs, caches, values, local, passAt, disturbed>>

Granted(r, when) ==
  /\ passAt' = [passAt EXCEPT ![at[r]][r] = when]
  /\ local' = [local EXCEPT ![r] = NoLocals]
  /\ GoOn(r, at[r] + 1)

Blocked(r) == /\ Move(r, "blocked")
              /\ local' = [local EXCEPT ![r] = NoLocals]
              /\ UNCHANGED <<at, passAt>>

Continue(r, p) == Move(r, p) /\ UNCHANGED <<at, local, passAt>>

Remember(r, p, l) == Move(r, p) /\ local' = [local EXCEPT ![r] = l] /\ UNCHANGED <<at, passAt>>

\* The for loop of PerformChecking starts again, with new variables.
Again(r) == Remember(r, "readClock", NoLocals)

-----------------------------------------------------------------------------
(* PerformChecking of the two strategies                                    *)

\* The refusals before the loop, and the clock.
ReadClock(r) ==
  /\ pc[r] = "readClock"
  /\ \/ /\ \/ TokenCount(at[r], Arg(r)) <= 0
           \/ Rule(r).behavior = "Reject" /\ batch[r] > MaxCount(at[r], Arg(r))
        /\ Blocked(r)
     \/ /\ TokenCount(at[r], Arg(r)) > 0
        /\ Rule(r).behavior = "Reject" => batch[r] <= MaxCount(at[r], Arg(r))
        /\ Remember(r, "addTime", [NoLocals EXCEPT !.now = clock])
  /\ UNCHANGED <<caches, values>>

AddTime(r) ==
  LET k == at[r]
      prior == timeCounter[k].items[Arg(r)]
  IN
  /\ pc[r] = "addTime"
  /\ timeCounter' = [timeCounter EXCEPT ![k] = AddIfAbsent(@, Rule(r).capacity, Arg(r), r)]
  /\ \/ /\ prior = Nil
        /\ time' = [time EXCEPT ![k][r] = local[r].now]
        /\ IF Rule(r).behavior = "Reject" THEN Continue(r, "firstTokens")
                                          ELSE Granted(r, local[r].now)
     \/ /\ prior # Nil
        /\ Remember(r, "loadTime", [local[r] EXCEPT !.last = prior])
        /\ UNCHANGED time
  /\ UNCHANGED <<tokenCounter, concurrentCounter, token, concurrent>>

\* A plausible slip: whoever puts tokens in the cache takes none of them.
AddTokensFull(r) ==
  LET k == at[r] IN
  /\ tokenCounter' = [tokenCounter EXCEPT ![k] = AddIfAbsent(@, Rule(r).capacity, Arg(r), r)]
  /\ token' = IF Holds(tokenCounter[k], Arg(r)) THEN token
              ELSE [token EXCEPT ![k][r] = MaxCount(k, Arg(r))]
  /\ UNCHANGED <<timeCounter, concurrentCounter, time, concurrent>>

\* tokenCounter.AddIfAbsent with what a full bucket has left after this request.
AddTokens(r) ==
  LET k == at[r] IN
  /\ tokenCounter' = [tokenCounter EXCEPT ![k] = AddIfAbsent(@, Rule(r).capacity, Arg(r), r)]
  /\ token' = IF Holds(tokenCounter[k], Arg(r)) THEN token
              ELSE [token EXCEPT ![k][r] = MaxCount(k, Arg(r)) - batch[r]]
  /\ UNCHANGED <<timeCounter, concurrentCounter, time, concurrent>>

\* The first request of an argument passes whether or not its tokens were new.
FirstTokens(r) ==
  /\ pc[r] = "firstTokens"
  /\ AddTokens(r)
  /\ Granted(r, local[r].now)

PassTime(r) == local[r].now - time[at[r]][local[r].last]

\* The interval of throttling: integer division.
IntervalCost(r) == (batch[r] * Rule(r).durationInSec) \div TokenCount(at[r], Arg(r))

Expected(r) == time[at[r]][local[r].last] + IntervalCost(r)

LoadTime(r) ==
  /\ pc[r] = "loadTime"
  /\ \/ /\ Rule(r).behavior = "Reject"
        /\ IF PassTime(r) > Rule(r).durationInSec
           THEN Remember(r, "refill", [local[r] EXCEPT !.new = PassTime(r)])
           ELSE Continue(r, "spend")
     \/ /\ Rule(r).behavior = "Throttling"
        /\ IF \/ Expected(r) <= local[r].now
              \/ Expected(r) - local[r].now < Rule(r).maxQueueing
           THEN Remember(r, "swapTime", [local[r] EXCEPT !.old = time[at[r]][local[r].last],
                                                         !.new = Expected(r)])
           ELSE Blocked(r)
  /\ UNCHANGED <<caches, values>>

\* A plausible slip: the tokens are expected to be in the cache.
RefillPresent(r) ==
  LET prior == tokenCounter[at[r]].items[Arg(r)] IN
  /\ pc[r] = "refill"
  /\ tokenCounter' = [tokenCounter EXCEPT ![at[r]] = Get(@, Arg(r))]
  /\ IF prior = Nil THEN Again(r)
                    ELSE Remember(r, "loadOld", [local[r] EXCEPT !.rest = prior])
  /\ UNCHANGED <<timeCounter, concurrentCounter, values>>

\* The window has passed: take the tokens that are there, or put new ones.
Refill(r) ==
  LET prior == tokenCounter[at[r]].items[Arg(r)] IN
  /\ pc[r] = "refill"
  /\ AddTokens(r)
  /\ IF prior = Nil THEN Continue(r, "stamp")
                    ELSE Remember(r, "loadOld", [local[r] EXCEPT !.rest = prior])

Smaller(m, n) == IF m < n THEN m ELSE n

\* toAddTokenNum for the time that has passed, no more than MaxCount in all.
LoadOld(r) ==
  LET k        == at[r]
      restQps  == token[k][local[r].rest]
      toAdd    == (local[r].new * TokenCount(k, Arg(r))) \div Rule(r).durationInSec
      newQps   == Smaller(toAdd + restQps, MaxCount(k, Arg(r))) - batch[r]
  IN
  /\ pc[r] = "loadOld"
  /\ IF newQps < 0 THEN Blocked(r)
     ELSE Remember(r, "swapRefill", [local[r] EXCEPT !.old = restQps, !.new = newQps])
  /\ UNCHANGED <<caches, values>>

\* CompareAndSwapInt64 on the value behind a pointer.
Swap(r, value, pointer) ==
  IF value[at[r]][pointer] = local[r].old
  THEN [value EXCEPT ![at[r]][pointer] = local[r].new] ELSE value

Swapped(r, value, pointer) == value[at[r]][pointer] = local[r].old

SwapRefill(r) ==
  /\ pc[r] = "swapRefill"
  /\ token' = Swap(r, token, local[r].rest)
  /\ IF Swapped(r, token, local[r].rest) THEN Continue(r, "stamp") ELSE Again(r)
  /\ UNCHANGED <<caches, time, concurrent>>

\* After the tokens, and in a step of its own, the time they were added.
Stamp(r) ==
  /\ pc[r] = "stamp"
  /\ time' = [time EXCEPT ![at[r]][local[r].last] = local[r].now]
  /\ Granted(r, local[r].now)
  /\ UNCHANGED <<caches, token, concurrent>>

\* Within the window.  Without tokens in the cache the loop spins.
Spend(r) ==
  LET k == at[r]
      prior == tokenCounter[k].items[Arg(r)]
  IN
  /\ pc[r] = "spend"
  /\ tokenCounter' = [tokenCounter EXCEPT ![k] = Get(@, Arg(r))]
  /\ IF prior = Nil THEN Again(r)
     ELSE Remember(r, "loadRest", [local[r] EXCEPT !.rest = prior])
  /\ UNCHANGED <<timeCounter, concurrentCounter, values>>

\* A plausible slip: the comparison is off by one.
LoadRestOffByOne(r) ==
  LET oldRest == token[at[r]][local[r].rest] IN
  /\ pc[r] = "loadRest"
  /\ IF oldRest + 1 < batch[r] THEN Blocked(r)
     ELSE Remember(r, "swapSpend", [local[r] EXCEPT !.old = oldRest, !.new = oldRest - batch[r]])
  /\ UNCHANGED <<caches, values>>

LoadRest(r) ==
  LET oldRest == token[at[r]][local[r].rest] IN
  /\ pc[r] = "loadRest"
  /\ IF oldRest < batch[r] THEN Blocked(r)
     ELSE Remember(r, "swapSpend", [local[r] EXCEPT !.old = oldRest, !.new = oldRest - batch[r]])
  /\ UNCHANGED <<caches, values>>

SwapSpend(r) ==
  /\ pc[r] = "swapSpend"
  /\ token' = Swap(r, token, local[r].rest)
  /\ IF Swapped(r, token, local[r].rest) THEN Granted(r, local[r].now) ELSE Again(r)
  /\ UNCHANGED <<caches, time, concurrent>>

\* Throttling: the present goes in first, the end of the queue after it.
SwapTime(r) ==
  LET swapped == Swapped(r, time, local[r].last) IN
  /\ pc[r] = "swapTime"
  /\ time' = IF swapped THEN [time EXCEPT ![at[r]][local[r].last] = local[r].now] ELSE time
  /\ \/ swapped /\ local[r].new > local[r].now /\ Continue(r, "stampExpected")
     \/ swapped /\ local[r].new <= local[r].now /\ Granted(r, local[r].now)
     \/ ~swapped /\ Again(r)
  /\ UNCHANGED <<caches, token, concurrent>>

\* A plausible slip: the present is left in place of the end of the queue.
StampPresent(r) ==
  LET l == local[r] IN
  /\ pc[r] = "stampExpected"
  /\ passAt' = [passAt EXCEPT ![at[r]][r] = l.new]
  /\ Move(r, "sleeping")
  /\ local' = [local EXCEPT ![r] = [NoLocals EXCEPT !.new = Smaller(clock + l.new - l.now, MaxClock)]]
  /\ UNCHANGED <<caches, values, at>>

StampExpected(r) ==
  LET l == local[r] IN
  /\ pc[r] = "stampExpected"
  /\ time' = [time EXCEPT ![at[r]][l.last] = l.new]
  /\ passAt' = [passAt EXCEPT ![at[r]][r] = l.new]
  /\ Move(r, "sleeping")
  /\ local' = [local EXCEPT ![r] = [NoLocals EXCEPT !.new = Smaller(clock + l.new - l.now, MaxClock)]]
  /\ UNCHANGED <<caches, token, concurrent, at>>

\* util.Sleep in Slot.Check, and on with the next controller.
Wake(r) ==
  /\ pc[r] = "sleeping" /\ clock >= local[r].new
  /\ local' = [local EXCEPT ![r] = NoLocals]
  /\ GoOn(r, at[r] + 1)
  /\ UNCHANGED <<caches, values, passAt>>

-----------------------------------------------------------------------------
(* performCheckingForConcurrencyMetric and the stat slot                    *)

\* The first access to an argument passes.
AddConcurrent(r) ==
  LET k == at[r]
      prior == concurrentCounter[k].items[Arg(r)]
  IN
  /\ pc[r] = "addConcurrent"
  /\ concurrentCounter' = [concurrentCounter EXCEPT ![k] = AddIfAbsent(@, Rule(r).capacity, Arg(r), r)]
  /\ \/ /\ prior = Nil
        /\ concurrent' = [concurrent EXCEPT ![k][r] = 0]
        /\ Granted(r, Never)
     \/ /\ prior # Nil
        /\ Remember(r, "loadConcurrent", [local[r] EXCEPT !.rest = prior])
        /\ UNCHANGED concurrent
  /\ UNCHANGED <<timeCounter, tokenCounter, time, token>>

LoadConcurrent(r) ==
  /\ pc[r] = "loadConcurrent"
  /\ IF concurrent[at[r]][local[r].rest] + 1 <= TokenCount(at[r], Arg(r))
     THEN Granted(r, Never) ELSE Blocked(r)
  /\ UNCHANGED <<caches, values>>

\* The loop of OnEntryPassed and OnCompleted goes on with controller k, and over
\* those that do not count this request.
CountOn(r, k, looking, after) ==
  \E i \in k..(Len(tcs) + 1) :
    /\ \A j \in k..(i - 1) : ~Counts(r, j)
    /\ i \in Controllers => Counts(r, i)
    /\ at' = [at EXCEPT ![r] = i]
    /\ Move(r, IF i \in Controllers THEN looking ELSE after)

\* SlotChain.Entry: another slot refuses, or the stat slots hear of the pass.
Decide(r) ==
  /\ pc[r] = "checked"
  /\ \/ Move(r, "blocked") /\ UNCHANGED at
     \/ CountOn(r, 1, "passing", "running")
  /\ UNCHANGED <<caches, values, local, passAt>>

\* The counter of the argument, if it is in the cache.
LookUp(r, looking, adding, after) ==
  LET prior == concurrentCounter[at[r]].items[Arg(r)] IN
  /\ pc[r] = looking
  /\ concurrentCounter' = [concurrentCounter EXCEPT ![at[r]] = Get(@, Arg(r))]
  /\ \/ /\ prior = Nil
        /\ CountOn(r, at[r] + 1, looking, after)
        /\ UNCHANGED local
     \/ /\ prior # Nil
        /\ Move(r, adding)
        /\ local' = [local EXCEPT ![r].rest = prior]
        /\ UNCHANGED at
  /\ UNCHANGED <<timeCounter, tokenCounter, values, passAt>>

Add(r, n, adding, looking, after) ==
  /\ pc[r] = adding
  /\ concurrent' = [concurrent EXCEPT ![at[r]][local[r].rest] = @ + n]
  /\ CountOn(r, at[r] + 1, looking, after)
  /\ local' = [local EXCEPT ![r] = NoLocals]
  /\ UNCHANGED <<caches, time, token, passAt>>

OnEntryPassed(r) == LookUp(r, "passing", "addPassed", "running")
AddPassed(r)     == Add(r, 1, "addPassed", "passing", "running")

\* The entry is exited.
Exit(r) ==
  /\ pc[r] = "running"
  /\ CountOn(r, 1, "completing", "done")
  /\ UNCHANGED <<caches, values, local, passAt>>

OnCompleted(r)  == LookUp(r, "completing", "addCompleted", "done")
AddCompleted(r) == Add(r, -1, "addCompleted", "completing", "done")

-----------------------------------------------------------------------------

\* A bucket is filled, or the time of an argument is set, in more than one step.
HalfWay == {"firstTokens", "refill", "loadOld", "swapRefill", "stamp", "stampExpected"}

Disturbs(r) == pc[r] \in InQPS /\ \E q \in Requests \ {r} : pc[q] \in HalfWay

Step(r) ==
  /\ UNCHANGED <<clock, tcs, request>>
  /\ disturbed' = (disturbed \/ Disturbs(r))
  /\ \/ ReadClock(r)
     \/ AddTime(r)
     \/ FirstTokens(r)
     \/ LoadTime(r)
     \/ Refill(r)
     \/ LoadOld(r)
     \/ SwapRefill(r)
     \/ Stamp(r)
     \/ Spend(r)
     \/ LoadRest(r)
     \/ SwapSpend(r)
     \/ SwapTime(r)
     \/ StampExpected(r)
     \/ Wake(r)
     \/ AddConcurrent(r)
     \/ LoadConcurrent(r)
     \/ Decide(r)
     \/ OnEntryPassed(r)
     \/ AddPassed(r)
     \/ Exit(r)
     \/ OnCompleted(r)
     \/ AddCompleted(r)

Ended(r) == pc[r] \in {"done", "blocked"}

\* Nothing but time helps: asleep, or spinning on tokens that were evicted.
Waits(r) ==
  \/ pc[r] = "sleeping"
  \/ /\ pc[r] \in {"readClock", "addTime", "loadTime", "spend"}
     /\ Rule(r).behavior = "Reject"
     /\ Holds(timeCounter[at[r]], Arg(r)) /\ ~Holds(tokenCounter[at[r]], Arg(r))

\* The clock counts from the first arrival.  After LastStart it goes on for those
\* who wait for it, to its bound.
Tick ==
  /\ clock < MaxClock /\ pc[1] # "new"
  /\ \/ clock < LastStart
     \/ /\ \E r \in Requests : Waits(r)
        /\ \A r \in Requests : pc[r] # "new" => Ended(r) \/ Waits(r)
  /\ clock' = clock + 1
  /\ UNCHANGED <<tcs, caches, values, pc, request, at, local, passAt, disturbed>>

\* Nobody arrives any more, and whoever arrived has left again.
Finished ==
  /\ clock >= LastStart
  /\ \A r \in Requests : Ended(r) \/ pc[r] = "new"
  /\ UNCHANGED vars

Next == Tick \/ Finished \/ \E r \in Requests : Begin(r) \/ Step(r)

Spec == Init /\ [][Next]_vars

\* The scheduler lets every request run, and time passes.
FairSpec == Spec /\ (\A r \in Requests : WF_vars(Step(r))) /\ WF_vars(Tick)

-----------------------------------------------------------------------------
(* Properties                                                               *)

Consistent(cache, k) == WellFormed(cache) /\ Len(cache.evictList) <= tcs[k].capacity

\* Every variable in its range; in every cache the list and the map agree, and
\* hold no more than the capacity of the rule.
TypeOK ==
  /\ clock \in Nat
  /\ tcs \in RuleLists
  /\ timeCounter \in [Controllers -> Caches]
  /\ tokenCounter \in [Controllers -> Caches]
  /\ concurrentCounter \in [Controllers -> Caches]
  /\ \A k \in Controllers : /\ Consistent(timeCounter[k], k)
                            /\ Consistent(tokenCounter[k], k)
                            /\ Consistent(concurrentCounter[k], k)
  /\ time \in [Controllers -> [Requests -> Nat]]
  /\ token \in [Controllers -> [Requests -> Int]]
  /\ concurrent \in [Controllers -> [Requests -> Int]]
  /\ pc \in [Requests -> PCs]
  /\ args \in [Requests -> [Controllers -> Args \cup {NoArg}]]
  /\ fromLimitApp \in [Requests -> BOOLEAN]
  /\ batch \in [Requests -> Nat \ {0}]
  /\ at \in [Requests -> 1..(Len(tcs) + 1)]
  /\ local \in [Requests -> [now : Nat, last : Requests \cup {Nil}, rest : Requests \cup {Nil},
                             old : Int, new : Int]]
  /\ passAt \in [Controllers -> [Requests -> Nat \cup {Never}]]
  /\ disturbed \in BOOLEAN

\* The token bucket of PerformChecking: whoever races for it, filling it twice or
\* spending after an eviction, it never holds less than nothing nor more than the
\* rule allows for the argument of the request that put it in the cache.
TokensInBucket ==
  \A k \in Controllers, r \in Requests :
    /\ token[k][r] >= 0
    /\ token[k][r] > 0 => token[k][r] <= MaxCount(k, args[r][k])

\* The arguments met so far fit in the cache, which has evicted none of them.
NoEviction(k) ==
  Cardinality({args[r][k] : r \in Requests} \ {NoArg}) <= tcs[k].capacity

\* The entries OnEntryPassed has counted for an argument and OnCompleted not yet.
InFlight(k, arg) ==
  { r \in Requests :
      /\ args[r][k] = arg
      /\ \/ pc[r] \in {"passing", "addPassed"} /\ at[r] > k
         \/ pc[r] = "running"
         \/ pc[r] \in {"completing", "addCompleted"} /\ at[r] <= k }

\* What the counter in the cache for an argument stands at.
Counter(k, arg) == concurrent[k][concurrentCounter[k].items[arg]]

\* The counter of an argument is the number of entries in flight with it, for
\* every interleaving of checks and stat slots, if the rule is for all services
\* and the cache has evicted nothing.
ConcurrencyExact ==
  \A k \in Controllers, arg \in Args :
    /\ tcs[k].metric = "Concurrency" /\ NoEviction(k) /\ ~tcs[k].limitApp
    /\ Holds(concurrentCounter[k], arg)
    => Counter(k, arg) = Cardinality(InFlight(k, arg))

\* Refuted by TLC for rules of one service (README, section 3).
\* params_metric.go: "ConcurrencyCounter records the real-time concurrency", a
\* number of entries, which is not negative.
ConcurrencyRealTime ==
  \A k \in Controllers, arg \in Args :
    /\ tcs[k].metric = "Concurrency" /\ NoEviction(k)
    /\ Holds(concurrentCounter[k], arg)
    => Counter(k, arg) >= 0

PassedBy(k, arg) == {r \in Requests : args[r][k] = arg /\ passAt[k][r] # Never}

BatchSum(S) == LET sum[n \in 0..NumRequests] ==
                     IF n = 0 THEN 0
                     ELSE sum[n - 1] + IF n \in S THEN batch[n] ELSE 0
               IN  sum[NumRequests]

\* The token bucket of PerformChecking: since its first request an argument was
\* granted no more than one full bucket and what time has added to it, unless
\* somebody came between the tokens and their time.
RateKept ==
  ~disturbed => \A k \in Controllers, arg \in Args :
    tcs[k].metric = "QPS" /\ tcs[k].behavior = "Reject" /\ NoEviction(k) =>
      \A first \in PassedBy(k, arg) :
        (\A r \in PassedBy(k, arg) : passAt[k][first] <= passAt[k][r]) =>
          BatchSum(PassedBy(k, arg)) * tcs[k].durationInSec
            <= MaxCount(k, arg) * tcs[k].durationInSec
               + TokenCount(k, arg) * (clock - passAt[k][first])

\* Throttling by argument: of two requests it lets pass, one passes after the
\* other by at least the interval of its batch, unless somebody saw the present
\* in place of the end of the queue.
Spaced ==
  ~disturbed => \A k \in Controllers, arg \in Args :
    tcs[k].metric = "QPS" /\ tcs[k].behavior = "Throttling" /\ NoEviction(k) =>
      \A r, q \in PassedBy(k, arg) :
        LET cost(p) == (batch[p] * tcs[k].durationInSec) \div TokenCount(k, arg)
        IN  \/ r = q
            \/ passAt[k][r] - passAt[k][q] >= cost(r)
            \/ passAt[k][q] - passAt[k][r] >= cost(q)

\* Checks and entries end, again and again until no request is left: the loops of
\* PerformChecking keep none, though they spin while the tokens of an argument
\* have been evicted and its time has not.
SlotGetsEmpty == []<>(\A r \in Requests : Ended(r) \/ pc[r] = "new")

=============================================================================
