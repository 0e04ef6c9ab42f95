------------------------------ MODULE FlowTokens ------------------------------
(***************************************************************************)
(* How many tokens a flow rule allows: core/flow/slot.go asks a token      *)
(* server or Redis when the rule is a cluster rule, and falls back to a    *)
(* local threshold, which tc_warm_up.go and tc_adaptive.go compute.        *)
(*                                                                         *)
(* Time is counted in seconds, the interval of every statistic here, so a  *)
(* count is that of the present second; LeapArray.tla has the buckets.  The *)
(* checker behind the threshold is the reject checker in one step; the     *)
(* gaps inside it and inside the throttling checker are the subject of     *)
(* RejectChecker.tla and ThrottlingChecker.tla.  A wait that an answer asks *)
(* for delays the call and nothing else.                                    *)
(***************************************************************************)
EXTENDS Integers, FiniteSets

CONSTANTS
    Callers,    \* goroutines in Slot.Check
    Handlers,   \* goroutines of the token server; HTTP bounds them by nothing
    Rules,      \* the rules one of which is in force, see MCFlowTokens.tla
    MaxCalls,   \* bound: calls of one goroutine
    MaxTime,    \* bound: the last second
    MaxFaults   \* bound: lost requests, failed connections, restarts of Redis

-------------------------------------------------------------------------------
\* Rule and ClusterConfig; the fields that are unsigned in the source, or a cost,
\* are naturals.  metric and the two limits are those the token server and its
\* client have for the rule, ref is the node of its reference resource.
IsRule(r) ==
    /\ r.cluster \in BOOLEAN /\ r.fallback \in BOOLEAN /\ r.metric \in BOOLEAN
    /\ r.calc \in {"direct", "warmup", "memory"}
    /\ r.behavior \in {"none", "reject", "throttling"}
    /\ r.strategy \in {"none", "global", "redis"} /\ r.server \in {"none", "http", "self"}
    /\ r.threshold \in Int /\ r.maxQueueing \in Nat /\ r.interval \in Nat
    /\ r.period \in Nat /\ r.cold \in Nat /\ r.globalThreshold \in Nat
    /\ r.clientMaxQps \in Nat /\ r.maxAllowQps \in Nat
    /\ r.low \in Int /\ r.high \in Int /\ r.lowMark \in Int /\ r.highMark \in Int

\* What IsValidRule asks of the fields that matter here: without it no rule is
\* in force.  A resource that is its own comes with every rule.
IsValidRule(r) ==
    /\ r.threshold >= 0
    /\ r.behavior = "throttling" => r.maxQueueing > 0 /\ r.maxQueueing * r.threshold > 1
    /\ r.calc = "warmup" => r.period > 0 /\ r.cold # 1
    /\ r.calc = "memory" =>
         0 < r.high /\ r.high < r.low /\ 0 < r.lowMark /\ r.lowMark < r.highMark
    /\ r.cluster => r.globalThreshold > 0

ASSUME FlowTokensAssumption ==
    /\ IsFiniteSet(Handlers) /\ Handlers # {}
    /\ \A r \in Rules : IsRule(r) /\ IsValidRule(r)

VARIABLES
    rule,        \* the rule in force, chosen once
    clock,       \* the present second
    caller,      \* Callers -> where it is in Check and its local variables
    left,        \* Callers -> the calls it has still to make
    handler,     \* Handlers -> where it is in acquireClusterToken
    downgradeTo, \* TrafficShapingController.DowngradeTimeInNsTo
    limiter,     \* _globalQpsLimiterMap: side -> who made it and its count
    granted,     \* clusterMetric: tokens given in this second
    lastPassed,  \* clusterMetric.lastPassedTime, moved by waiting requests
    given,       \* history: tokens given in turn since the start
    redis,       \* the key's count, the script Redis holds, the sha the client holds
    warm,        \* storedTokens and lastFilledTime
    passed,      \* the resource's pass count in this second and the one before
    faults       \* faults left

vars == <<rule, clock, caller, left, handler, downgradeTo, limiter, granted, lastPassed,
          given, redis, warm, passed, faults>>
remoteVars == <<limiter, granted, lastPassed, given, redis>>
localVars == <<warm, passed>>

NoOne == "nobody"
Timeout == 3    \* http.Client.Timeout of the token client
Downgrade == 2  \* DefaultDowngradeIntervalInNs, counted from before the request

Idle == [pc |-> "idle", at |-> 0, old |-> 0, new |-> 0, dg |-> 0, by |-> NoOne, allowed |-> <<0, 1>>]
Free == [pc |-> "free", of |-> NoOne, l |-> 0, now |-> 0]

\* NewClusterMetric, NewRequestLimiter, NewWarmUpTrafficShapingCalculator.
Init ==
    /\ rule \in Rules
    /\ clock = 1
    /\ caller = [c \in Callers |-> Idle]
    /\ left = [c \in Callers |-> MaxCalls]
    /\ handler = [h \in Handlers |-> Free]
    /\ downgradeTo = 0
    /\ limiter = [s \in {"client", "server"} |-> [by |-> NoOne, n |-> 0]]
    /\ granted = 0 /\ lastPassed = 0 /\ given = 0
    /\ redis = [count |-> 0, script |-> TRUE, sha |-> TRUE]
    /\ warm = [stored |-> 0, filled |-> -100]  \* the epoch: long ago
    /\ passed = [now |-> 0, before |-> 0]
    /\ faults = MaxFaults
-------------------------------------------------------------------------------
(* The local threshold: a fraction <<n, d>>, n tokens in d; <<1, 0>> is the *)
(* NaN that no count exceeds.                                               *)

\* NewWarmUpTrafficShapingCalculator: the cold factor, where warming up ends, and
\* a full bucket.
coldFactor(r) == IF r.cold <= 1 THEN 3 ELSE r.cold
warningToken(r) == (r.period * r.threshold) \div (coldFactor(r) - 1)
maxToken(r) == warningToken(r) + (2 * r.period * r.threshold) \div (1 + coldFactor(r))

\* CalculateAllowedTokens: 1/(above*slope + 1/threshold), with the slope
\* (cold-1)/threshold/(max-warning) written out.  max = warning makes it NaN.
warningQps(r, above) ==
    LET span == maxToken(r) - warningToken(r)
    IN IF span = 0 THEN <<1, 0>>
       ELSE <<r.threshold * span, above * (coldFactor(r) - 1) + span>>

\* The tokens of the bucket give the threshold of this call.
Warmed(r, stored) ==
    LET rest == IF stored <= 0 THEN 0 ELSE stored
    IN IF rest >= warningToken(r) THEN warningQps(r, rest - warningToken(r))
       ELSE <<r.threshold, 1>>

\* The seconds since the bucket was filled.  Above the warning line the
\* difference is unsigned: a goroutine behind the bucket's second finds the
\* time without end.  (From a threshold of 500 on the product leaves int64.)
Elapsed(r, now, filled, old) ==
    IF old > warningToken(r) /\ now < filled THEN maxToken(r) ELSE now - filled

\* Mutant: a refill is not cut to the size of the bucket.
coolDownTokens_NoMax(r, now, filled, old, passQps) ==
    IF \/ old < warningToken(r)
       \/ old > warningToken(r) /\ passQps < r.threshold \div coldFactor(r)
    THEN old + Elapsed(r, now, filled, old) * r.threshold ELSE old

\* coolDownTokens: refill below the line, above it only when hardly any passes.
coolDownTokens(r, now, filled, old, passQps) ==
    LET refill == old + Elapsed(r, now, filled, old) * r.threshold
        new == IF \/ old < warningToken(r)
                  \/ old > warningToken(r) /\ passQps < r.threshold \div coldFactor(r)
               THEN refill ELSE old
    IN IF new <= maxToken(r) THEN new ELSE maxToken(r)

\* MemoryAdaptive: the two thresholds outside the water marks and the straight
\* line between them; 0 stands for memory that could not be read.
MemoryThreshold(r, mem) ==
    IF mem = 0 \/ mem <= r.lowMark THEN <<r.low, 1>>
    ELSE IF mem >= r.highMark THEN <<r.high, 1>>
    ELSE <<(r.high - r.low) * (mem - r.lowMark) + r.low * (r.highMark - r.lowMark),
           r.highMark - r.lowMark>>

\* RejectTrafficShapingChecker.DoCheck against a threshold.
Exceeds(n, allowed) == n * allowed[2] > allowed[1]
-------------------------------------------------------------------------------
(* Slot.Check: which way a call takes.                                      *)

Goto(c, pc) == caller' = [caller EXCEPT ![c].pc = pc]
At(c, pc) == caller[c].pc = pc


\* A call that passes is counted by the statistic slot.
Passes(c) == /\ caller' = [caller EXCEPT ![c] = Idle]
             /\ passed' = [passed EXCEPT !.now = @ + 1]
Blocked(c) == /\ caller' = [caller EXCEPT ![c] = Idle]
              /\ UNCHANGED passed

\* fallbackToLocalOrPass: the local threshold when the rule says so, or nothing.
fallbackToLocalOrPass(c) ==
    IF rule.fallback
    THEN caller' = [caller EXCEPT ![c] = [Idle EXCEPT !.pc = "local"]] /\ UNCHANGED passed
    ELSE Passes(c)

\* canPassCheckWithFlag and the start of checkInCluster: the time is read here,
\* before the request, and the downgrade that was found is kept for the CAS.
canPassCheck(c) ==
    /\ At(c, "idle") /\ left[c] > 0
    /\ left' = [left EXCEPT ![c] = @ - 1]
    /\ \/ ~rule.cluster /\ Goto(c, "local") /\ UNCHANGED passed
       \/ rule.cluster /\ clock < downgradeTo /\ fallbackToLocalOrPass(c)
       \/ /\ rule.cluster /\ clock >= downgradeTo
          /\ caller' = [caller EXCEPT ![c] = [@ EXCEPT !.pc = "limit", !.at = clock, !.dg = downgradeTo]]
          /\ UNCHANGED passed
    /\ UNCHANGED <<rule, clock, handler, downgradeTo, warm, faults, remoteVars>>

\* allowRemoteProceed: ClientTryPass compares first and adds later; a limiter
\* that is not there is made by whoever misses it and replaces another's.
allowRemoteProceed(c) ==
    /\ At(c, "limit")
    /\ IF limiter["client"].by = NoOne \/ limiter["client"].n + 1 <= rule.clientMaxQps
       THEN /\ caller' = [caller EXCEPT ![c].by = limiter["client"].by,
                            ![c].pc = IF limiter["client"].by = NoOne THEN "make" ELSE "count"]
            /\ UNCHANGED passed
       ELSE fallbackToLocalOrPass(c)
    /\ UNCHANGED <<rule, clock, left, handler, downgradeTo, warm, faults, remoteVars>>

GetClientRequestLimiter(c) ==
    /\ At(c, "make")
    /\ limiter' = [limiter EXCEPT !["client"] = [by |-> c, n |-> 0]]
    /\ caller' = [caller EXCEPT ![c].pc = "count", ![c].by = c]
    /\ UNCHANGED <<rule, clock, left, handler, downgradeTo, granted, lastPassed, given,
                   redis, faults, localVars>>

\* Adds to the limiter it compared with, which may no longer be the map's.
Counted(side, by) == IF limiter[side].by = by THEN [limiter EXCEPT ![side].n = @ + 1] ELSE limiter

ClientTryPass(c) ==
    /\ At(c, "count")
    /\ limiter' = Counted("client", caller[c].by)
    /\ Goto(c, "ask")
    /\ UNCHANGED <<rule, clock, left, handler, downgradeTo, granted, lastPassed, given,
                   redis, faults, localVars>>
-------------------------------------------------------------------------------
(* The answers of the remote side, as checkInCluster takes them.            *)

\* Any failure: the downgrade starts when nobody has changed it meanwhile; the
\* loser of the CAS falls through to the same local check.
Failed(c) ==
    /\ downgradeTo' = IF downgradeTo = caller[c].dg THEN caller[c].at + Downgrade ELSE downgradeTo
    /\ fallbackToLocalOrPass(c)

Takes(c, status) ==
    CASE status \in {"ok", "wait"} -> Passes(c) /\ UNCHANGED downgradeTo
      [] status = "blocked" -> Blocked(c) /\ UNCHANGED downgradeTo
      [] status = "fail" -> Failed(c)
      [] OTHER -> fallbackToLocalOrPass(c) /\ UNCHANGED downgradeTo

\* RequestToken: no master known, the rule gone from the map, or a request to
\* a goroutine of the server (of this process when it is the master itself).
RequestToken(c) ==
    /\ At(c, "ask") /\ rule.strategy = "global"
    /\ \/ /\ rule.server = "none" /\ Takes(c, "none")
          /\ UNCHANGED <<handler, faults>>
       \/ /\ rule.server # "none" /\ faults > 0 /\ faults' = faults - 1
          /\ Takes(c, "none")    \* getTrafficControllerFor finds no rule of this id
          /\ UNCHANGED handler
       \/ \E h \in Handlers :
            /\ rule.server # "none" /\ handler[h].pc = "free"
            /\ handler' = [handler EXCEPT ![h] = [Free EXCEPT !.pc = "limit", !.of = c]]
            /\ Goto(c, "wait")
            /\ UNCHANGED <<downgradeTo, passed, faults>>
    /\ UNCHANGED <<rule, clock, left, warm, remoteVars>>

\* The client gives up, the connection fails, or the answer cannot be read; a
\* handler that has the request goes on with it all the same.
sendTokenRequest(c) ==
    /\ At(c, "wait") /\ rule.server = "http"
    /\ \/ clock >= caller[c].at + Timeout /\ UNCHANGED faults
       \/ faults > 0 /\ faults' = faults - 1
    /\ Failed(c)
    /\ handler' = [h \in Handlers |-> IF handler[h].of = c THEN [handler[h] EXCEPT !.of = NoOne]
                                      ELSE handler[h]]
    /\ UNCHANGED <<rule, clock, left, warm, remoteVars>>

\* RedisClusterTokenService: the script runs as one step.  A client that cannot
\* connect, or whose script Redis has lost, is made anew; without a loaded script
\* the text is sent.  A read that times out says nothing of what Redis did.
luaScript == redis.count + 1 <= rule.globalThreshold

RedisRequestToken(c) ==
    /\ At(c, "ask") /\ rule.strategy = "redis"
    /\ \/ /\ faults > 0 /\ faults' = faults - 1
          /\ \/ redis' = [redis EXCEPT !.sha = FALSE]
             \/ luaScript /\ redis' = [redis EXCEPT !.count = @ + 1]
          /\ Takes(c, "fail") /\ UNCHANGED given
       \/ /\ redis.sha /\ ~redis.script
          /\ redis' = [redis EXCEPT !.script = TRUE]
          /\ Takes(c, "fail") /\ UNCHANGED <<given, faults>>
       \/ /\ redis.sha => redis.script
          /\ redis' = [redis EXCEPT !.count = IF luaScript THEN @ + 1 ELSE @]
          /\ Takes(c, IF luaScript THEN "ok" ELSE "blocked") /\ UNCHANGED <<given, faults>>
    /\ UNCHANGED <<rule, clock, left, handler, limiter, granted, lastPassed, warm>>
-------------------------------------------------------------------------------
(* The token server: acquireClusterToken in the goroutine of a request.     *)

Step(h, pc) == handler' = [handler EXCEPT ![h].pc = pc]

\* The answer reaches the caller when it still waits; then the goroutine is done.
Answers(h, status) ==
    /\ handler' = [handler EXCEPT ![h] = Free]
    /\ IF handler[h].of = NoOne THEN UNCHANGED <<caller, passed, downgradeTo>>
       ELSE Takes(handler[h].of, status)

serverFixed == <<rule, clock, left, redis, warm, faults>>

\* allowProceed (GlobalTryPass compares and then adds) and the reading of the
\* metric; without a metric the answer is TooManyRequest, its name says Fail.
acquireClusterToken(h) ==
    /\ handler[h].pc = "limit"
    /\ \/ /\ limiter["server"].n + 1 > rule.maxAllowQps \/ ~rule.metric
          /\ Answers(h, "too many")
       \/ /\ limiter["server"].n + 1 <= rule.maxAllowQps /\ rule.metric
          /\ Step(h, "read") /\ UNCHANGED <<caller, passed, downgradeTo>>
    /\ UNCHANGED <<serverFixed, limiter, granted, lastPassed, given>>

\* The request is counted, the tokens of this second are read, and a rule that
\* paces its requests goes to the queue.
Compare(h) ==
    /\ handler[h].pc = "read"
    /\ limiter' = [limiter EXCEPT !["server"].n = @ + 1]
    /\ IF rule.behavior = "throttling"
       THEN Step(h, "queue") /\ UNCHANGED <<caller, passed, downgradeTo>>
       ELSE IF granted + 1 <= rule.globalThreshold
       THEN Step(h, "add") /\ UNCHANGED <<caller, passed, downgradeTo>>
       ELSE Answers(h, "blocked")
    /\ UNCHANGED <<serverFixed, granted, lastPassed, given>>

Grant(h) ==
    /\ handler[h].pc = "add"
    /\ granted' = granted + 1
    /\ Answers(h, "ok")
    /\ UNCHANGED <<serverFixed, limiter, lastPassed, given>>

\* priorityHandle, with one token every Interval seconds.
Interval(r) == r.interval

\* Reads the clock and lastPassedTime: behind the clock the CAS is tried.
priorityHandle(h) ==
    /\ handler[h].pc = "queue"
    /\ handler' = [handler EXCEPT ![h].l = lastPassed, ![h].now = clock,
                     ![h].pc = IF lastPassed + Interval(rule) <= clock THEN "cas" ELSE "wait"]
    /\ UNCHANGED <<serverFixed, caller, downgradeTo, passed, limiter, granted, lastPassed, given>>

\* Mutant: lastPassedTime is stored without looking whether another has passed.
Passed_Store(h) ==
    /\ handler[h].pc = "cas"
    /\ lastPassed' = handler[h].now /\ given' = given + 1 /\ granted' = granted + 1
    /\ Answers(h, "ok")
    /\ UNCHANGED <<serverFixed, limiter>>

Passed(h) ==
    /\ handler[h].pc = "cas"
    /\ IF lastPassed = handler[h].l
       THEN /\ lastPassed' = handler[h].now /\ given' = given + 1
            /\ granted' = granted + 1
            /\ Answers(h, "ok")
       ELSE Step(h, "wait") /\ UNCHANGED <<caller, passed, downgradeTo, lastPassed, given, granted>>
    /\ UNCHANGED <<serverFixed, limiter>>

\* The wait is estimated from a new reading and then taken with an addition.
Estimate(h) ==
    /\ handler[h].pc = "wait"
    /\ IF lastPassed + Interval(rule) - handler[h].now > rule.maxQueueing
       THEN Answers(h, "blocked")
       ELSE Step(h, "append") /\ UNCHANGED <<caller, passed, downgradeTo>>
    /\ UNCHANGED <<serverFixed, limiter, granted, lastPassed, given>>

Append(h) ==
    /\ handler[h].pc = "append"
    /\ lastPassed' = lastPassed + Interval(rule)
    /\ IF lastPassed' - handler[h].now > rule.maxQueueing
       THEN /\ Step(h, "undo")
            /\ UNCHANGED <<caller, passed, downgradeTo, given, granted>>
       ELSE /\ given' = given + 1 /\ granted' = granted + 1
            /\ Answers(h, IF lastPassed' > handler[h].now THEN "wait" ELSE "ok")
    /\ UNCHANGED <<serverFixed, limiter>>

Undo(h) ==
    /\ handler[h].pc = "undo"
    /\ lastPassed' = lastPassed - Interval(rule)
    /\ Answers(h, "blocked")
    /\ UNCHANGED <<serverFixed, limiter, granted, given>>
-------------------------------------------------------------------------------
(* The local side: TrafficShapingController.PerformChecking.                *)

localFixed == <<rule, clock, left, handler, downgradeTo, faults, remoteVars>>

\* checkInLocal: an associated resource that nobody has entered passes; the
\* threshold of the rule, of the memory in use, or of the bucket after syncToken,
\* which starts with the clock, the passes of the last second and lastFilledTime.
checkInLocal(c) ==
    /\ At(c, "local")
    /\ \/ rule.ref = "unknown" /\ Passes(c)
       \/ /\ rule.ref # "unknown" /\ UNCHANGED passed
          /\ \/ /\ rule.calc = "direct"
                /\ caller' = [caller EXCEPT ![c].pc = "check", ![c].allowed = <<rule.threshold, 1>>]
             \/ /\ rule.calc = "memory"
                /\ \E mem \in 0..(rule.highMark + 1) :
                     caller' = [caller EXCEPT ![c].pc = "check", ![c].allowed = MemoryThreshold(rule, mem)]
             \/ /\ rule.calc = "warmup"
                /\ caller' = [caller EXCEPT ![c].at = clock, ![c].dg = passed.before,
                                 ![c].pc = IF clock <= warm.filled THEN "rest" ELSE "old"]
    /\ UNCHANGED warm /\ UNCHANGED localFixed

\* syncToken loads the tokens for its CAS; coolDownTokens loads them again, and
\* then the time of the last refill.
LoadOld(c) ==
    /\ At(c, "old")
    /\ caller' = [caller EXCEPT ![c].pc = "cool", ![c].old = warm.stored]
    /\ UNCHANGED localVars /\ UNCHANGED localFixed

LoadTokens(c) ==
    /\ At(c, "cool")
    /\ caller' = [caller EXCEPT ![c].pc = "time", ![c].new = warm.stored]
    /\ UNCHANGED localVars /\ UNCHANGED localFixed

CoolDown(c) ==
    /\ At(c, "time")
    /\ caller' = [caller EXCEPT ![c].pc = "swap",
         ![c].new = coolDownTokens(rule, caller[c].at, warm.filled, caller[c].new, caller[c].dg)]
    /\ UNCHANGED localVars /\ UNCHANGED localFixed

syncToken(c) ==
    /\ At(c, "swap")
    /\ IF warm.stored = caller[c].old
       THEN warm' = [warm EXCEPT !.stored = caller[c].new] /\ Goto(c, "take")
       ELSE Goto(c, "rest") /\ UNCHANGED warm
    /\ UNCHANGED passed /\ UNCHANGED localFixed

\* Takes what passed; the goroutine that sees a debt sets the bucket to nothing.
Take(c) ==
    /\ At(c, "take")
    /\ warm' = [warm EXCEPT !.stored = @ - caller[c].dg]
    /\ Goto(c, IF warm'.stored < 0 THEN "empty" ELSE "fill")
    /\ UNCHANGED passed /\ UNCHANGED localFixed

Empty(c) ==
    /\ At(c, "empty")
    /\ warm' = [warm EXCEPT !.stored = 0]
    /\ Goto(c, "fill")
    /\ UNCHANGED passed /\ UNCHANGED localFixed

Fill(c) ==
    /\ At(c, "fill")
    /\ warm' = [warm EXCEPT !.filled = caller[c].at]
    /\ Goto(c, "rest")
    /\ UNCHANGED passed /\ UNCHANGED localFixed

CalculateAllowedTokens(c) ==
    /\ At(c, "rest")
    /\ caller' = [caller EXCEPT ![c] = [Idle EXCEPT !.pc = "check", !.allowed = Warmed(rule, warm.stored)]]
    /\ UNCHANGED localVars /\ UNCHANGED localFixed

PerformChecking(c) ==
    /\ At(c, "check")
    /\ IF Exceeds(passed.now + 1, caller[c].allowed) THEN Blocked(c) ELSE Passes(c)
    /\ UNCHANGED warm /\ UNCHANGED localFixed
-------------------------------------------------------------------------------
\* A second passes: every count starts anew, and the key of Redis has expired.
Tick ==
    /\ clock < MaxTime
    /\ clock' = clock + 1
    /\ limiter' = [s \in DOMAIN limiter |-> [limiter[s] EXCEPT !.n = 0]]
    /\ granted' = 0
    /\ redis' = [redis EXCEPT !.count = 0]
    /\ passed' = [now |-> 0, before |-> passed.now]
    /\ UNCHANGED <<rule, caller, left, handler, downgradeTo, lastPassed, given, warm, faults>>

\* Redis comes back without its keys and its scripts.
RedisRestart ==
    /\ rule.strategy = "redis" /\ faults > 0 /\ faults' = faults - 1
    /\ redis' = [count |-> 0, script |-> FALSE, sha |-> redis.sha]
    /\ UNCHANGED <<rule, clock, caller, left, handler, downgradeTo, limiter, granted,
                   lastPassed, given, localVars>>

Call(c) == canPassCheck(c) \/ allowRemoteProceed(c) \/ GetClientRequestLimiter(c)
           \/ ClientTryPass(c) \/ RequestToken(c) \/ sendTokenRequest(c) \/ RedisRequestToken(c)
Serve(h) == acquireClusterToken(h) \/ Compare(h) \/ Grant(h) \/ priorityHandle(h)
            \/ Passed(h) \/ Estimate(h) \/ Append(h) \/ Undo(h)
Local(c) == checkInLocal(c) \/ LoadOld(c) \/ LoadTokens(c) \/ CoolDown(c) \/ syncToken(c) \/ Take(c)
            \/ Empty(c) \/ Fill(c) \/ CalculateAllowedTokens(c) \/ PerformChecking(c)

Next == \/ \E c \in Callers : Call(c) \/ Local(c)
        \/ \E h \in Handlers : Serve(h)
        \/ Tick \/ RedisRestart

Spec == Init /\ [][Next]_vars
-------------------------------------------------------------------------------
(***************************************************************************)
(* Properties                                                              *)
(***************************************************************************)

\* What the token server and Redis give out is bounded whatever is late, lost or
\* asked again: acquireClusterToken compares and adds without a lock, so one
\* second may exceed the threshold by the goroutines that had compared, and by no
\* more; tokens given in turn never run ahead of the clock by more than the queue,
\* though a refused goroutine takes its addition back after others have seen it;
\* Redis, where one script compares and adds, keeps the threshold itself.
GrantsBounded ==
    /\ rule.behavior = "reject" =>
         granted <= rule.globalThreshold + Cardinality(Handlers) - 1
    /\ rule.behavior = "throttling" =>
         given * Interval(rule) <= clock + rule.maxQueueing
    /\ redis.count <= rule.globalThreshold

\* What a threshold may be: no less than that of a cold or full system, no more
\* than that of a warm or empty one.
InBounds(a) ==
    /\ rule.calc = "warmup" /\ a # <<1, 0>> =>
         a[1] * coldFactor(rule) >= rule.threshold * a[2] /\ a[1] <= rule.threshold * a[2]
    /\ rule.calc = "memory" => rule.high * a[2] <= a[1] /\ a[1] <= rule.low * a[2]

\* Goroutines that refill the bucket of a warming rule at once, one of them from
\* a second that has passed, never fill it beyond maxToken, so no call gets less
\* than the cold rate, threshold / coldFactor, nor more than the threshold; and
\* memory never moves an adaptive threshold out of its two bounds.
ThresholdInBounds ==
    /\ rule.calc = "warmup" => warm.stored <= maxToken(rule)
    /\ \A c \in Callers : At(c, "check") => InBounds(caller[c].allowed)
===============================================================================
