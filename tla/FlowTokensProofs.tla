--------------------------- MODULE FlowTokensProofs ---------------------------
(* Proofs about FlowTokens, for every rule that IsValidRule accepts, any     *)
(* number of callers and handlers, and every bound: what the token server    *)
(* and Redis give out is bounded, and so is every threshold.                 *)
EXTENDS FlowTokens, FiniteSetTheorems, TLAPS

Syncing == {"old", "cool", "time", "swap", "take", "empty", "fill", "rest"}
CallerPCs == {"idle", "limit", "make", "count", "ask", "wait", "local", "check"} \cup Syncing
Queue == {"queue", "cas", "wait", "append", "undo"}
HandlerPCs == {"free", "limit", "read", "add"} \cup Queue

Calling == [pc : CallerPCs, at : Nat, old : Int, new : Int, dg : Nat, by : Callers \cup {NoOne},
            allowed : Int \X Int]
Handling == [pc : HandlerPCs, of : Callers \cup {NoOne}, l : Int, now : Int]

-----------------------------------------------------------------------------
(* Arithmetic: the provers see no more of a product than these.             *)

LEMMA TimesMonotone ==
  ASSUME NEW t \in Nat, NEW a \in Int, NEW b \in Int, a <= b
  PROVE  t * a <= t * b
<1>1. t * (b - a) \in Nat
  OBVIOUS
<1>2. t * (b - a) = t * b - t * a
  OBVIOUS
<1>3. t * a \in Int /\ t * b \in Int
  OBVIOUS
<1>4. QED
  BY <1>1, <1>2, <1>3

LEMMA NextMultiple ==
  ASSUME NEW n \in Int, NEW i \in Int
  PROVE  n * i \in Int /\ (n + 1) * i = n * i + i
OBVIOUS

LEMMA Quotient ==
  ASSUME NEW a \in Nat, NEW b \in Nat \ {0}
  PROVE  a \div b \in Nat
OBVIOUS

\* The line of warningQps, from the threshold down to the cold rate.
LEMMA WarmLine ==
  ASSUME NEW t \in Nat, NEW span \in Nat, NEW above \in 0..span, NEW cold \in Nat, cold >= 2
  PROVE  LET d == above * (cold - 1) + span
         IN  /\ t * span \in Int /\ d \in Int
             /\ (t * span) * cold >= t * d /\ t * span <= t * d
<1> DEFINE m == above * (cold - 1)
           d == m + span
<1>1. m \in Nat /\ m <= span * (cold - 1)
  <2>1. (cold - 1) * above <= (cold - 1) * span
    BY TimesMonotone
  <2>2. QED
    BY <2>1
<1>2. span * (cold - 1) + span = span * cold
  OBVIOUS
<1>3. d \in Nat /\ span <= d /\ d <= span * cold
  BY <1>1, <1>2
<1>4. t * span <= t * d /\ t * d <= t * (span * cold)
  <2> HIDE DEF d
  <2>1. span * cold \in Int
    OBVIOUS
  <2>2. QED
    BY <1>3, <2>1, TimesMonotone
<1>5. t * (span * cold) = (t * span) * cold
  OBVIOUS
<1>6. t * span \in Int /\ d \in Int
  BY <1>3
<1> HIDE DEF d
<1>7. t * d \in Int /\ (t * span) * cold \in Int /\ (t * span) * cold >= t * d
  BY <1>4, <1>5, <1>6
<1>8. QED
  BY <1>4, <1>6, <1>7 DEF d

\* The line of the memory-adaptive threshold, from low down to high.
LEMMA MemoryLine ==
  ASSUME NEW low \in Int, NEW high \in Int, high < low, NEW d \in Nat, NEW x \in 0..d
  PROVE  LET n == (high - low) * x + low * d
         IN  n \in Int /\ high * d <= n /\ n <= low * d
<1>1. (low - high) * x <= (low - high) * d /\ (low - high) * x >= 0
  <2>1. low - high \in Nat
    OBVIOUS
  <2>2. QED
    BY <2>1, TimesMonotone
<1>2. (high - low) * x = 0 - (low - high) * x
  OBVIOUS
<1>3. (low - high) * d = low * d - high * d
  OBVIOUS
<1>4. QED
  BY <1>1, <1>2, <1>3

-----------------------------------------------------------------------------
(* What IsValidRule gives                                                   *)

LEMMA RuleFacts ==
  ASSUME rule \in Rules
  PROVE  /\ rule.threshold \in Nat /\ rule.globalThreshold \in Nat
         /\ rule.maxQueueing \in Nat /\ Interval(rule) \in Nat
         /\ coldFactor(rule) \in Nat /\ coldFactor(rule) >= 2
         /\ rule.low \in Int /\ rule.high \in Int /\ rule.lowMark \in Int /\ rule.highMark \in Int
         /\ rule.calc = "memory" => rule.high < rule.low /\ rule.lowMark < rule.highMark
BY FlowTokensAssumption DEF IsRule, IsValidRule, Interval, coldFactor

\* The bucket of a warming rule: the line is not beyond the full bucket.
LEMMA TokenFacts ==
  ASSUME rule \in Rules
  PROVE  /\ warningToken(rule) \in Nat /\ maxToken(rule) \in Nat
         /\ warningToken(rule) <= maxToken(rule)
<1>1. rule.threshold \in Nat /\ rule.period \in Nat /\ coldFactor(rule) \in Nat /\ coldFactor(rule) >= 2
  BY RuleFacts, FlowTokensAssumption DEF IsRule
<1> DEFINE k == coldFactor(rule)
           t == rule.threshold
           p == rule.period
<1>2. p * t \in Nat /\ 2 * p * t \in Nat /\ k - 1 \in Nat \ {0} /\ 1 + k \in Nat \ {0}
  BY <1>1
<1>3. (p * t) \div (k - 1) \in Nat
  <2> HIDE DEF k, t, p
  <2> QED  BY <1>2, Quotient
<1>4. (2 * p * t) \div (1 + k) \in Nat
  <2> HIDE DEF k, t, p
  <2> QED  BY <1>2, Quotient
<1> DEFINE w == (p * t) \div (k - 1)
           u == (2 * p * t) \div (1 + k)
<1>5. warningToken(rule) = w /\ maxToken(rule) = w + u
  BY DEF warningToken, maxToken
<1> HIDE DEF w, u
<1>6. QED
  BY <1>3, <1>4, <1>5 DEF w, u

\* A bucket that is not fuller than full gives a threshold in its bounds.
LEMMA WarmedInBounds ==
  ASSUME rule \in Rules, rule.calc = "warmup", NEW stored \in Int, stored <= maxToken(rule)
  PROVE  Warmed(rule, stored) \in Int \X Int /\ InBounds(Warmed(rule, stored))
<1> DEFINE rest  == IF stored <= 0 THEN 0 ELSE stored
           above == rest - warningToken(rule)
           span  == maxToken(rule) - warningToken(rule)
           k     == coldFactor(rule)
           t     == rule.threshold
<1>1. t \in Nat /\ k \in Nat /\ k >= 2 /\ span \in Nat /\ rest \in Nat /\ rest <= maxToken(rule)
      /\ warningToken(rule) \in Nat /\ maxToken(rule) \in Nat
  BY RuleFacts, TokenFacts
<1>2. CASE rest >= warningToken(rule) /\ span # 0
  <2> DEFINE d == above * (k - 1) + span
  <2>1. above \in 0..span
    BY <1>1, <1>2
  <2>2. Warmed(rule, stored) = <<t * span, d>>
    BY <1>2 DEF Warmed, warningQps
  <2>3. t * span \in Int /\ d \in Int /\ (t * span) * k >= t * d /\ t * span <= t * d
    <3> HIDE DEF above, span, k, t
    <3> QED  BY <1>1, <2>1, WarmLine
  <2> HIDE DEF d, span
  <2>4. QED
    BY <2>2, <2>3 DEF InBounds
<1>3. CASE rest >= warningToken(rule) /\ span = 0
  BY <1>3 DEF Warmed, warningQps, InBounds
<1>4. CASE ~(rest >= warningToken(rule))
  <2>1. Warmed(rule, stored) = <<t, 1>>
    BY <1>4 DEF Warmed
  <2>2. t * k >= t * 1 /\ t <= t * 1
    BY <1>1, TimesMonotone
  <2>3. QED
    BY <1>1, <2>1, <2>2 DEF InBounds
<1>5. QED
  BY <1>2, <1>3, <1>4

LEMMA MemoryInBounds ==
  ASSUME rule \in Rules, rule.calc = "memory", NEW mem \in Int
  PROVE  MemoryThreshold(rule, mem) \in Int \X Int /\ InBounds(MemoryThreshold(rule, mem))
<1> DEFINE d == rule.highMark - rule.lowMark
           x == mem - rule.lowMark
           n == (rule.high - rule.low) * x + rule.low * d
<1>1. /\ rule.low \in Int /\ rule.high \in Int /\ rule.high < rule.low
      /\ rule.lowMark \in Int /\ rule.highMark \in Int /\ rule.lowMark < rule.highMark
  BY RuleFacts
<1>2. CASE mem = 0 \/ mem <= rule.lowMark
  <2>1. MemoryThreshold(rule, mem) = <<rule.low, 1>>
    BY <1>2 DEF MemoryThreshold
  <2>2. QED
    BY <1>1, <2>1 DEF InBounds
<1>3. CASE ~(mem = 0 \/ mem <= rule.lowMark) /\ mem >= rule.highMark
  <2>1. MemoryThreshold(rule, mem) = <<rule.high, 1>>
    BY <1>3 DEF MemoryThreshold
  <2>2. QED
    BY <1>1, <2>1 DEF InBounds
<1>4. CASE ~(mem = 0 \/ mem <= rule.lowMark) /\ ~(mem >= rule.highMark)
  <2>1. MemoryThreshold(rule, mem) = <<n, d>>
    BY <1>4 DEF MemoryThreshold
  <2>2. d \in Nat /\ x \in 0..d
    BY <1>1, <1>4
  <2>3. n \in Int /\ rule.high * d <= n /\ n <= rule.low * d
    <3> HIDE DEF d, x
    <3> QED  BY <1>1, <2>2, MemoryLine
  <2> HIDE DEF n, d
  <2>4. QED
    BY <2>1, <2>2, <2>3 DEF InBounds
<1>5. QED
  BY <1>2, <1>3, <1>4

\* A refill stops at the full bucket.
LEMMA CoolDownBounded ==
  ASSUME rule \in Rules, NEW now \in Int, NEW filled \in Int, NEW old \in Int, NEW qps \in Nat
  PROVE  /\ coolDownTokens(rule, now, filled, old, qps) \in Int
         /\ coolDownTokens(rule, now, filled, old, qps) <= maxToken(rule)
<1> DEFINE refill == old + Elapsed(rule, now, filled, old) * rule.threshold
           new == IF \/ old < warningToken(rule)
                     \/ old > warningToken(rule) /\ qps < rule.threshold \div coldFactor(rule)
                  THEN refill ELSE old
<1>1. maxToken(rule) \in Int /\ rule.threshold \in Int
  BY TokenFacts, RuleFacts
<1>2. Elapsed(rule, now, filled, old) \in Int
  BY <1>1 DEF Elapsed
<1>3. refill \in Int
  BY <1>1, <1>2
<1>4. new \in Int
  BY <1>3
<1>5. coolDownTokens(rule, now, filled, old, qps) = IF new <= maxToken(rule) THEN new ELSE maxToken(rule)
  BY DEF coolDownTokens
<1> HIDE DEF new
<1>6. QED
  BY <1>1, <1>4, <1>5

-----------------------------------------------------------------------------
(* The callers and the bucket.  While a caller is in syncToken the rule warms *)
(* up; what it will store fits the bucket; the threshold it compares with is  *)
(* in its bounds.                                                             *)

InOrder(x) ==
  /\ x.pc \in Syncing => rule.calc = "warmup"
  /\ x.pc = "swap" => x.new <= maxToken(rule)
  /\ x.pc = "check" => InBounds(x.allowed)

CallerRanges ==
  /\ rule \in Rules /\ clock \in Nat /\ downgradeTo \in Nat
  /\ caller \in [Callers -> Calling]
  /\ limiter \in [{"client", "server"} -> [by : Callers \cup {NoOne}, n : Nat]]
  /\ passed \in [now : Nat, before : Nat]
  /\ warm \in [stored : Int, filled : Int]

LInv ==
  /\ CallerRanges
  /\ \A c \in Callers : InOrder(caller[c])
  /\ warm.stored <= maxToken(rule)

\* One caller is at another place, in order.
Placed(c) == \E x \in Calling : InOrder(x) /\ caller' = [caller EXCEPT ![c] = x]

LEMMA PlacedKeeps ==
  ASSUME LInv, NEW c \in Callers, Placed(c), rule' = rule,
         clock' \in Nat,
         limiter' \in [{"client", "server"} -> [by : Callers \cup {NoOne}, n : Nat]],
         downgradeTo' \in Nat, passed' \in [now : Nat, before : Nat],
         warm' \in [stored : Int, filled : Int], warm'.stored <= maxToken(rule)
  PROVE  LInv'
<1>1. PICK x \in Calling : InOrder(x) /\ caller' = [caller EXCEPT ![c] = x]
  BY DEF Placed
<1>2. caller' \in [Callers -> Calling] /\ \A q \in Callers : InOrder(caller'[q])
  BY <1>1 DEF LInv, CallerRanges
<1>3. \A q \in Callers : InOrder(caller[q])'
  BY <1>2 DEF InOrder, InBounds
<1>4. QED
  BY <1>2, <1>3 DEF LInv, CallerRanges

LEMMA UnplacedKeeps ==
  ASSUME LInv, caller' = caller, rule' = rule,
         clock' \in Nat,
         limiter' \in [{"client", "server"} -> [by : Callers \cup {NoOne}, n : Nat]],
         downgradeTo' \in Nat, passed' \in [now : Nat, before : Nat],
         warm' \in [stored : Int, filled : Int], warm'.stored <= maxToken(rule)
  PROVE  LInv'
<1>1. \A q \in Callers : InOrder(caller[q])'
  BY DEF LInv, InOrder, InBounds
<1>2. QED
  BY <1>1 DEF LInv, CallerRanges

\* Every caller that is not comparing or syncing is in order.
LEMMA ElsewhereInOrder ==
  ASSUME NEW x, x.pc \notin Syncing \cup {"check"}
  PROVE  InOrder(x)
BY DEF InOrder, Syncing

LEMMA IdleCalling ==
  /\ Idle \in Calling /\ InOrder(Idle)
  /\ [Idle EXCEPT !.pc = "local"] \in Calling /\ InOrder([Idle EXCEPT !.pc = "local"])
<1>1. Idle \in Calling /\ [Idle EXCEPT !.pc = "local"] \in Calling
  <2> DEFINE a == <<0, 1>>
  <2>1. a \in Int \X Int
    OBVIOUS
  <2>2. Idle = [pc |-> "idle", at |-> 0, old |-> 0, new |-> 0, dg |-> 0, by |-> NoOne, allowed |-> a]
    BY DEF Idle
  <2> HIDE DEF a
  <2>3. Idle \in Calling
    BY <2>1, <2>2 DEF Calling, CallerPCs
  <2>4. QED
    BY <2>3 DEF Calling, CallerPCs
<1>2. Idle.pc = "idle" /\ [Idle EXCEPT !.pc = "local"].pc = "local"
  BY DEF Idle
<1>3. QED
  BY <1>1, <1>2, ElsewhereInOrder DEF Syncing

\* Whatever becomes of a call, it is idle or on its local check afterwards.
LEMMA DonePlaced ==
  ASSUME LInv, NEW c \in Callers, downgradeTo' \in {downgradeTo, caller[c].at + Downgrade},
         fallbackToLocalOrPass(c) \/ Passes(c) \/ Blocked(c)
  PROVE  Placed(c) /\ downgradeTo' \in Nat /\ passed' \in [now : Nat, before : Nat]
<1>1. caller[c] \in Calling /\ downgradeTo \in Nat /\ passed \in [now : Nat, before : Nat]
  BY DEF LInv, CallerRanges
<1>2. \/ caller' = [caller EXCEPT ![c] = Idle]
      \/ caller' = [caller EXCEPT ![c] = [Idle EXCEPT !.pc = "local"]]
  BY DEF fallbackToLocalOrPass, Passes, Blocked
<1>3. passed' = passed \/ passed' = [passed EXCEPT !.now = @ + 1]
  BY DEF fallbackToLocalOrPass, Passes, Blocked
<1>4. downgradeTo' \in Nat
  BY <1>1 DEF Calling, Downgrade
<1>5. Placed(c)
  BY <1>2, IdleCalling DEF Placed
<1>6. passed' \in [now : Nat, before : Nat]
  BY <1>1, <1>3
<1>7. QED
  BY <1>4, <1>5, <1>6

\* So it is with every answer of the remote side.
LEMMA TakesPlaced ==
  ASSUME LInv, NEW c \in Callers, Failed(c) \/ (\E status : Takes(c, status))
  PROVE  Placed(c) /\ downgradeTo' \in Nat /\ passed' \in [now : Nat, before : Nat]
<1>1. /\ downgradeTo' \in {downgradeTo, caller[c].at + Downgrade}
      /\ fallbackToLocalOrPass(c) \/ Passes(c) \/ Blocked(c)
  BY DEF Takes, Failed
<1>2. QED
  BY <1>1, DonePlaced

LEMMA GotoPlaced ==
  ASSUME LInv, NEW c \in Callers, NEW p \in CallerPCs \ {"swap", "check"}, Goto(c, p),
         p \in Syncing => rule.calc = "warmup"
  PROVE  Placed(c)
<1> DEFINE x == [caller[c] EXCEPT !.pc = p]
<1>1. x \in Calling /\ x.pc = p
  BY DEF LInv, CallerRanges, Calling
<1>2. caller' = [caller EXCEPT ![c] = x]
  BY DEF Goto
<1> HIDE DEF x
<1>3. InOrder(x)
  BY <1>1 DEF InOrder
<1>4. QED
  BY <1>1, <1>2, <1>3 DEF Placed

\* A call on its way to the remote side.
LEMMA AllowPlaced ==
  ASSUME LInv, NEW c \in Callers, allowRemoteProceed(c)
  PROVE  Placed(c) /\ downgradeTo' \in Nat /\ passed' \in [now : Nat, before : Nat]
<1>1. caller[c] \in Calling /\ passed \in [now : Nat, before : Nat] /\ downgradeTo \in Nat
      /\ limiter["client"].by \in Callers \cup {NoOne}
  BY DEF LInv, CallerRanges
<1>2. CASE fallbackToLocalOrPass(c) /\ UNCHANGED downgradeTo
  BY <1>2, DonePlaced
<1>3. ASSUME NEW p \in {"make", "count"}, UNCHANGED <<passed, downgradeTo>>,
             caller' = [caller EXCEPT ![c].by = limiter["client"].by, ![c].pc = p]
      PROVE  Placed(c)
  <2> DEFINE b == limiter["client"].by
             x == [caller[c] EXCEPT !.by = b, !.pc = p]
  <2>1. caller' = [caller EXCEPT ![c] = x]
    BY <1>1, <1>3 DEF LInv, CallerRanges
  <2>2. b \in Callers \cup {NoOne}
    BY <1>1
  <2> HIDE DEF b
  <2>3. x \in Calling /\ x.pc = p
    BY <1>1, <2>2 DEF Calling, CallerPCs
  <2> HIDE DEF x
  <2>4. InOrder(x)
    BY <2>3 DEF InOrder, Syncing
  <2>5. QED
    BY <2>1, <2>3, <2>4 DEF Placed
<1>4. QED
  BY <1>1, <1>2, <1>3 DEF allowRemoteProceed, remoteVars

LEMMA MakePlaced ==
  ASSUME LInv, NEW c \in Callers, GetClientRequestLimiter(c)
  PROVE  Placed(c)
<1> DEFINE x == [caller[c] EXCEPT !.pc = "count", !.by = c]
<1>1. caller[c] \in Calling
  BY DEF LInv, CallerRanges
<1>2. caller' = [caller EXCEPT ![c] = x]
  BY <1>1 DEF GetClientRequestLimiter, LInv, CallerRanges
<1>3. x \in Calling /\ x.pc = "count"
  BY <1>1 DEF Calling, CallerPCs
<1> HIDE DEF x
<1>4. InOrder(x)
  BY <1>3 DEF InOrder, Syncing
<1>5. QED
  BY <1>2, <1>3, <1>4 DEF Placed

LEMMA CanPassPlaced ==
  ASSUME LInv, NEW c \in Callers, canPassCheck(c)
  PROVE  Placed(c) /\ downgradeTo' \in Nat /\ passed' \in [now : Nat, before : Nat]
<1>1. caller[c] \in Calling /\ passed \in [now : Nat, before : Nat] /\ downgradeTo \in Nat
      /\ clock \in Nat
  BY DEF LInv, CallerRanges
<1>2. CASE Goto(c, "local") /\ UNCHANGED <<passed, downgradeTo>>
  BY <1>1, <1>2, GotoPlaced DEF CallerPCs, Syncing
<1>3. CASE fallbackToLocalOrPass(c) /\ UNCHANGED downgradeTo
  BY <1>3, DonePlaced
<1>4. CASE /\ caller' = [caller EXCEPT ![c] = [@ EXCEPT !.pc = "limit", !.at = clock, !.dg = downgradeTo]]
           /\ UNCHANGED <<passed, downgradeTo>>
  <2> DEFINE x == [caller[c] EXCEPT !.pc = "limit", !.at = clock, !.dg = downgradeTo]
  <2>1. x \in Calling /\ x.pc = "limit"
    BY <1>1 DEF Calling, CallerPCs
  <2>2. caller' = [caller EXCEPT ![c] = x]
    BY <1>4
  <2> HIDE DEF x
  <2>3. Placed(c)
    BY <2>1, <2>2, ElsewhereInOrder DEF Placed, Syncing
  <2>4. QED
    BY <1>1, <1>4, <2>3
<1>5. QED
  BY <1>2, <1>3, <1>4 DEF canPassCheck

\* The limiter counts up, is made anew, or starts a second.
LEMMA LimiterRange ==
  ASSUME LInv,
         \/ UNCHANGED limiter
         \/ \E c \in Callers : limiter' = [limiter EXCEPT !["client"] = [by |-> c, n |-> 0]]
         \/ \E c \in Callers : limiter' = Counted("client", caller[c].by)
         \/ limiter' = [limiter EXCEPT !["server"].n = @ + 1]
         \/ limiter' = [s \in DOMAIN limiter |-> [limiter[s] EXCEPT !.n = 0]]
  PROVE  limiter' \in [{"client", "server"} -> [by : Callers \cup {NoOne}, n : Nat]]
BY DEF LInv, CallerRanges, Counted

\* A call on its way to the remote side, or back from it.
LEMMA CallKeeps ==
  ASSUME LInv, NEW c \in Callers, Call(c)
  PROVE  LInv'
<1>1. rule' = rule /\ clock' = clock /\ warm' = warm
  BY DEF Call, canPassCheck, allowRemoteProceed, GetClientRequestLimiter, ClientTryPass,
         RequestToken, sendTokenRequest, RedisRequestToken, localVars
<1>2. passed \in [now : Nat, before : Nat] /\ downgradeTo \in Nat
  BY DEF LInv, CallerRanges
<1> DEFINE Result == Placed(c) /\ downgradeTo' \in Nat /\ passed' \in [now : Nat, before : Nat]
<1>3. Result
  <2>1. CASE canPassCheck(c) \/ allowRemoteProceed(c)
    BY <2>1, CanPassPlaced, AllowPlaced
  <2>2. CASE GetClientRequestLimiter(c)
    BY <1>2, <2>2, MakePlaced DEF GetClientRequestLimiter, localVars
  <2>3. CASE ClientTryPass(c)
    <3>1. Goto(c, "ask") /\ UNCHANGED <<passed, downgradeTo>>
      BY <2>3 DEF ClientTryPass, localVars
    <3>2. QED
      BY <1>2, <3>1, GotoPlaced DEF CallerPCs, Syncing
  <2>4. CASE Failed(c) \/ \E status : Takes(c, status)
    BY <2>4, TakesPlaced
  <2>5. CASE Goto(c, "wait") /\ UNCHANGED <<passed, downgradeTo>>
    BY <1>2, <2>5, GotoPlaced DEF CallerPCs, Syncing
  <2>6. QED
    BY <2>1, <2>2, <2>3, <2>4, <2>5 DEF Call, RequestToken, sendTokenRequest, RedisRequestToken
<1>4. limiter' \in [{"client", "server"} -> [by : Callers \cup {NoOne}, n : Nat]]
  <2>1. \/ UNCHANGED limiter
        \/ limiter' = [limiter EXCEPT !["client"] = [by |-> c, n |-> 0]]
        \/ limiter' = Counted("client", caller[c].by)
    BY DEF Call, canPassCheck, allowRemoteProceed, GetClientRequestLimiter, ClientTryPass,
           RequestToken, sendTokenRequest, RedisRequestToken, remoteVars
  <2>2. QED
    BY <2>1, LimiterRange
<1>5. QED
  BY <1>1, <1>3, <1>4, PlacedKeeps DEF LInv, CallerRanges

-----------------------------------------------------------------------------
(* The local steps                                                          *)

\* The threshold a local check compares with.
LEMMA CheckPlaced ==
  ASSUME LInv, NEW c \in Callers, NEW y \in Calling, NEW a \in Int \X Int, InBounds(a),
         caller' = [caller EXCEPT ![c] = [y EXCEPT !.pc = "check", !.allowed = a]]
  PROVE  Placed(c)
<1> DEFINE x == [y EXCEPT !.pc = "check", !.allowed = a]
<1>1. x \in Calling /\ x.pc = "check" /\ x.allowed = a
  BY DEF Calling, CallerPCs
<1> HIDE DEF x
<1>2. InOrder(x)
  BY <1>1 DEF InOrder, Syncing
<1>3. QED
  BY <1>1, <1>2 DEF Placed, x

\* A rule with a fixed threshold has no bounds to keep.
LEMMA DirectInBounds ==
  ASSUME rule \in Rules, rule.calc = "direct"
  PROVE  <<rule.threshold, 1>> \in Int \X Int /\ InBounds(<<rule.threshold, 1>>)
BY RuleFacts DEF InBounds

LEMMA CheckInLocalPlaced ==
  ASSUME LInv, NEW c \in Callers, checkInLocal(c)
  PROVE  Placed(c) /\ passed' \in [now : Nat, before : Nat]
<1>1. caller[c] \in Calling /\ passed \in [now : Nat, before : Nat] /\ clock \in Nat
      /\ rule \in Rules /\ downgradeTo' = downgradeTo
  BY DEF LInv, CallerRanges, checkInLocal, localFixed
<1>2. CASE Passes(c)
  BY <1>1, <1>2, DonePlaced
<1>3. CASE /\ rule.calc = "direct" /\ UNCHANGED passed
           /\ caller' = [caller EXCEPT ![c].pc = "check", ![c].allowed = <<rule.threshold, 1>>]
  <2> DEFINE a == <<rule.threshold, 1>>
  <2>1. a \in Int \X Int /\ InBounds(a)
    BY <1>1, <1>3, DirectInBounds
  <2>2. caller' = [caller EXCEPT ![c].pc = "check", ![c].allowed = a]
    BY <1>3
  <2> HIDE DEF a
  <2>3. caller' = [caller EXCEPT ![c] = [caller[c] EXCEPT !.pc = "check", !.allowed = a]]
    BY <2>2 DEF LInv, CallerRanges
  <2>4. QED
    BY <1>1, <1>3, <2>1, <2>3, CheckPlaced
<1>4. ASSUME NEW mem \in Int, rule.calc = "memory", UNCHANGED passed,
             caller' = [caller EXCEPT ![c].pc = "check", ![c].allowed = MemoryThreshold(rule, mem)]
      PROVE  Placed(c)
  <2> DEFINE a == MemoryThreshold(rule, mem)
  <2>1. a \in Int \X Int /\ InBounds(a)
    BY <1>1, <1>4, MemoryInBounds
  <2>2. caller' = [caller EXCEPT ![c].pc = "check", ![c].allowed = a]
    BY <1>4
  <2> HIDE DEF a
  <2>3. caller' = [caller EXCEPT ![c] = [caller[c] EXCEPT !.pc = "check", !.allowed = a]]
    BY <2>2 DEF LInv, CallerRanges
  <2>4. QED
    BY <1>1, <2>1, <2>3, CheckPlaced
<1>5. CASE /\ rule.calc = "warmup" /\ UNCHANGED passed
           /\ caller' = [caller EXCEPT ![c].at = clock, ![c].dg = passed.before,
                            ![c].pc = IF clock <= warm.filled THEN "rest" ELSE "old"]
  <2> DEFINE q == IF clock <= warm.filled THEN "rest" ELSE "old"
             n == passed.before
             x == [caller[c] EXCEPT !.at = clock, !.dg = n, !.pc = q]
  <2>1. q \in {"rest", "old"} /\ n \in Nat
    BY <1>1
  <2>2. caller' = [caller EXCEPT ![c] = x]
    BY <1>1, <1>5 DEF LInv, CallerRanges
  <2> HIDE DEF q, n
  <2>3. x \in Calling /\ x.pc = q
    BY <1>1, <2>1 DEF Calling, CallerPCs, Syncing
  <2> HIDE DEF x
  <2>4. InOrder(x)
    BY <1>5, <2>1, <2>3 DEF InOrder
  <2>5. QED
    BY <1>1, <1>5, <2>2, <2>3, <2>4 DEF Placed
<1>6. ASSUME NEW mem \in 0..(rule.highMark + 1)
      PROVE  mem \in Int
  BY <1>1, RuleFacts
<1>7. QED
  BY <1>1, <1>2, <1>3, <1>4, <1>5, <1>6 DEF checkInLocal

LEMMA CoolDownPlaced ==
  ASSUME LInv, NEW c \in Callers, LoadOld(c) \/ LoadTokens(c) \/ CoolDown(c)
  PROVE  Placed(c)
<1>1. caller[c] \in Calling /\ InOrder(caller[c]) /\ warm.stored \in Int /\ warm.filled \in Int
      /\ rule \in Rules
  BY DEF LInv, CallerRanges
<1>2. CASE LoadOld(c)
  <2> DEFINE n == warm.stored
             x == [caller[c] EXCEPT !.pc = "cool", !.old = n]
  <2>1. caller' = [caller EXCEPT ![c] = x] /\ rule.calc = "warmup"
    BY <1>1, <1>2 DEF LoadOld, LInv, CallerRanges, InOrder, At, Syncing
  <2>2. n \in Int
    BY <1>1
  <2> HIDE DEF n
  <2>3. x \in Calling /\ x.pc = "cool"
    BY <1>1, <2>2 DEF Calling, CallerPCs, Syncing
  <2> HIDE DEF x
  <2>4. QED
    BY <2>1, <2>3 DEF Placed, InOrder
<1>3. CASE LoadTokens(c)
  <2> DEFINE n == warm.stored
             x == [caller[c] EXCEPT !.pc = "time", !.new = n]
  <2>1. caller' = [caller EXCEPT ![c] = x] /\ rule.calc = "warmup"
    BY <1>1, <1>3 DEF LoadTokens, LInv, CallerRanges, InOrder, At, Syncing
  <2>2. n \in Int
    BY <1>1
  <2> HIDE DEF n
  <2>3. x \in Calling /\ x.pc = "time"
    BY <1>1, <2>2 DEF Calling, CallerPCs, Syncing
  <2> HIDE DEF x
  <2>4. QED
    BY <2>1, <2>3 DEF Placed, InOrder
<1>4. CASE CoolDown(c)
  <2> DEFINE n == coolDownTokens(rule, caller[c].at, warm.filled, caller[c].new, caller[c].dg)
             x == [caller[c] EXCEPT !.pc = "swap", !.new = n]
  <2>1. caller' = [caller EXCEPT ![c] = x] /\ rule.calc = "warmup"
    BY <1>1, <1>4 DEF CoolDown, LInv, CallerRanges, InOrder, At, Syncing
  <2>2. n \in Int /\ n <= maxToken(rule)
    <3>1. caller[c].at \in Int /\ caller[c].new \in Int /\ caller[c].dg \in Nat
      BY <1>1 DEF Calling
    <3>2. QED
      BY <1>1, <3>1, CoolDownBounded
  <2> HIDE DEF n
  <2>3. x \in Calling /\ x.pc = "swap" /\ x.new = n
    BY <1>1, <2>2 DEF Calling, CallerPCs, Syncing
  <2> HIDE DEF x
  <2>4. QED
    BY <2>1, <2>2, <2>3 DEF Placed, InOrder
<1>5. QED
  BY <1>2, <1>3, <1>4

\* What is stored was cut to the full bucket; what is taken is not less than 0.
LEMMA SyncPlaced ==
  ASSUME LInv, NEW c \in Callers, syncToken(c) \/ Take(c) \/ Empty(c) \/ Fill(c)
  PROVE  /\ Placed(c) /\ UNCHANGED passed
         /\ warm' \in [stored : Int, filled : Int] /\ warm'.stored <= maxToken(rule)
<1>1. /\ caller[c] \in Calling /\ InOrder(caller[c]) /\ warm \in [stored : Int, filled : Int]
      /\ warm.stored <= maxToken(rule) /\ rule \in Rules
  BY DEF LInv, CallerRanges
<1>2. maxToken(rule) \in Nat
  BY <1>1, TokenFacts
<1>3. rule.calc = "warmup"
  BY <1>1 DEF syncToken, Take, Empty, Fill, At, InOrder, Syncing
<1>4. /\ warm' \in [stored : Int, filled : Int] /\ warm'.stored <= maxToken(rule)
  <2>1. CASE syncToken(c)
    <3>1. caller[c].new \in Int /\ caller[c].new <= maxToken(rule)
      BY <1>1, <2>1 DEF syncToken, At, InOrder, Calling
    <3>2. QED
      BY <1>1, <2>1, <3>1 DEF syncToken
  <2>2. CASE Take(c)
    <3>1. caller[c].dg \in Nat
      BY <1>1 DEF Calling
    <3>2. QED
      BY <1>1, <1>2, <2>2, <3>1 DEF Take
  <2>3. CASE Empty(c)
    BY <1>1, <1>2, <2>3 DEF Empty
  <2>4. CASE Fill(c)
    <3>1. caller[c].at \in Nat
      BY <1>1 DEF Calling
    <3>2. QED
      BY <1>1, <2>4, <3>1 DEF Fill
  <2>5. QED
    BY <2>1, <2>2, <2>3, <2>4
<1>5. PICK p \in {"take", "rest", "empty", "fill"} : Goto(c, p)
  BY DEF syncToken, Take, Empty, Fill
<1>6. Placed(c)
  BY <1>3, <1>5, GotoPlaced DEF CallerPCs, Syncing
<1>7. QED
  BY <1>4, <1>6 DEF syncToken, Take, Empty, Fill

LEMMA AllowedPlaced ==
  ASSUME LInv, NEW c \in Callers, CalculateAllowedTokens(c)
  PROVE  Placed(c)
<1> DEFINE a == Warmed(rule, warm.stored)
<1>1. rule \in Rules /\ warm.stored \in Int /\ warm.stored <= maxToken(rule)
      /\ rule.calc = "warmup"
  BY DEF LInv, CallerRanges, CalculateAllowedTokens, At, InOrder, Syncing
<1>2. a \in Int \X Int /\ InBounds(a)
  BY <1>1, WarmedInBounds
<1>3. caller' = [caller EXCEPT ![c] = [Idle EXCEPT !.pc = "check", !.allowed = a]]
  BY DEF CalculateAllowedTokens
<1> HIDE DEF a
<1>4. QED
  BY <1>2, <1>3, IdleCalling, CheckPlaced

LEMMA LocalKeeps ==
  ASSUME LInv, NEW c \in Callers, Local(c)
  PROVE  LInv'
<1>1. UNCHANGED localFixed
  BY DEF Local, checkInLocal, LoadOld, LoadTokens, CoolDown, syncToken, Take, Empty, Fill,
         CalculateAllowedTokens, PerformChecking
<1>2. /\ passed \in [now : Nat, before : Nat] /\ warm \in [stored : Int, filled : Int]
      /\ warm.stored <= maxToken(rule)
      /\ rule' = rule /\ clock' \in Nat /\ downgradeTo' = downgradeTo /\ downgradeTo' \in Nat
      /\ limiter' \in [{"client", "server"} -> [by : Callers \cup {NoOne}, n : Nat]]
  BY <1>1 DEF LInv, CallerRanges, localFixed, remoteVars
<1>3. /\ Placed(c) /\ passed' \in [now : Nat, before : Nat]
      /\ warm' \in [stored : Int, filled : Int] /\ warm'.stored <= maxToken(rule)
  <2>1. CASE checkInLocal(c)
    BY <1>2, <2>1, CheckInLocalPlaced DEF checkInLocal
  <2>2. CASE LoadOld(c) \/ LoadTokens(c) \/ CoolDown(c)
    BY <1>2, <2>2, CoolDownPlaced DEF LoadOld, LoadTokens, CoolDown, localVars
  <2>3. CASE syncToken(c) \/ Take(c) \/ Empty(c) \/ Fill(c)
    BY <1>2, <2>3, SyncPlaced
  <2>4. CASE CalculateAllowedTokens(c)
    BY <1>2, <2>4, AllowedPlaced DEF CalculateAllowedTokens, localVars
  <2>5. CASE PerformChecking(c)
    BY <1>2, <2>5, DonePlaced DEF PerformChecking
  <2>6. QED
    BY <2>1, <2>2, <2>3, <2>4, <2>5 DEF Local
<1>4. QED
  BY <1>2, <1>3, PlacedKeeps

-----------------------------------------------------------------------------
(* The token server and Redis.  Goroutines that have compared and not yet    *)
(* added are counted, and so are those that have to take an addition back.   *)

Adding == {h \in Handlers : handler[h].pc = "add"}
Undoing == {h \in Handlers : handler[h].pc = "undo"}

InTurn(x) ==
  /\ x.pc \in Queue => rule.behavior = "throttling"
  /\ x.pc = "add" => rule.behavior # "throttling" /\ rule.globalThreshold > 0
  /\ x.pc = "cas" => x.l + Interval(rule) <= x.now
  /\ x.pc \in {"cas", "wait", "append"} => x.now <= clock

ServerRanges ==
  /\ rule \in Rules /\ clock \in Nat
  /\ handler \in [Handlers -> Handling]
  /\ granted \in Nat /\ given \in Nat /\ lastPassed \in Int
  /\ redis \in [count : Int, script : BOOLEAN, sha : BOOLEAN]

\* lastPassedTime has moved one interval for every token given in turn and for
\* every addition that is still to be taken back.
Turns ==
  rule.behavior = "throttling" =>
    /\ (given + Cardinality(Undoing)) * Interval(rule) <= lastPassed
    /\ given * Interval(rule) <= clock + rule.maxQueueing

\* Those who add now have compared with less than the threshold.
Compared ==
  rule.behavior # "throttling" =>
    granted + Cardinality(Adding) <= rule.globalThreshold + Cardinality(Handlers) - 1

SInv ==
  /\ ServerRanges
  /\ \A h \in Handlers : InTurn(handler[h])
  /\ Turns /\ Compared
  /\ redis.count <= rule.globalThreshold

\* A set of handlers has a size, and one more or less when one comes or goes.
LEMMA HandlersCount ==
  ASSUME NEW S \in SUBSET Handlers, NEW h \in Handlers
  PROVE  /\ Cardinality(Handlers) \in Nat \ {0}
         /\ Cardinality(S) \in Nat /\ Cardinality(S) <= Cardinality(Handlers)
         /\ h \notin S => Cardinality(S \cup {h}) = Cardinality(S) + 1
         /\ h \in S => Cardinality(S \ {h}) = Cardinality(S) - 1
<1>1. IsFiniteSet(Handlers) /\ Handlers # {}
  BY FlowTokensAssumption
<1>2. IsFiniteSet(S) /\ Cardinality(S) <= Cardinality(Handlers)
  BY <1>1, FS_Subset
<1>3. Cardinality(S) \in Nat /\ Cardinality(Handlers) \in Nat /\ Cardinality(Handlers) # 0
  BY <1>1, <1>2, FS_CardinalityType, FS_EmptySet
<1>4. h \notin S => Cardinality(S \cup {h}) = Cardinality(S) + 1
  BY <1>2, FS_AddElement
<1>5. h \in S => Cardinality(S \ {h}) = Cardinality(S) - 1
  BY <1>2, FS_RemoveElement
<1>6. QED
  BY <1>2, <1>3, <1>4, <1>5

\* One handler is at another place, in turn.
LEMMA HandlerPlaced ==
  ASSUME SInv, NEW h \in Handlers, NEW x \in Handling, InTurn(x),
         handler' = [handler EXCEPT ![h] = x], UNCHANGED <<rule, clock>>
  PROVE  /\ handler' \in [Handlers -> Handling]
         /\ \A g \in Handlers : InTurn(handler[g])'
         /\ Adding' = IF x.pc = "add" THEN Adding \cup {h} ELSE Adding \ {h}
         /\ Undoing' = IF x.pc = "undo" THEN Undoing \cup {h} ELSE Undoing \ {h}
<1>1. /\ handler' \in [Handlers -> Handling]
      /\ \A g \in Handlers : InTurn(handler'[g])
      /\ \A g \in Handlers : handler'[g] = IF g = h THEN x ELSE handler[g]
  BY DEF SInv, ServerRanges
<1>2. \A g \in Handlers : InTurn(handler[g])'
  BY <1>1 DEF InTurn
<1>3. Adding' = IF x.pc = "add" THEN Adding \cup {h} ELSE Adding \ {h}
  BY <1>1 DEF Adding
<1>4. Undoing' = IF x.pc = "undo" THEN Undoing \cup {h} ELSE Undoing \ {h}
  BY <1>1 DEF Undoing
<1>5. QED
  BY <1>1, <1>2, <1>3, <1>4

\* Elsewhere on the way nothing is counted.
LEMMA QuietKeeps ==
  ASSUME SInv, NEW h \in Handlers, NEW x \in Handling, InTurn(x),
         handler' = [handler EXCEPT ![h] = x],
         {x.pc, handler[h].pc} \cap {"add", "undo"} = {},
         UNCHANGED <<rule, clock, granted, given, lastPassed, redis>>
  PROVE  SInv'
<1>1. /\ handler' \in [Handlers -> Handling] /\ \A g \in Handlers : InTurn(handler[g])'
      /\ Adding' = Adding \ {h} /\ Undoing' = Undoing \ {h}
  BY HandlerPlaced
<1>2. Adding' = Adding /\ Undoing' = Undoing
  BY <1>1 DEF Adding, Undoing
<1>3. Turns' /\ Compared'
  BY <1>2 DEF SInv, Turns, Compared, Interval
<1>4. QED
  BY <1>1, <1>3 DEF SInv, ServerRanges

LEMMA FreeHandling ==
  /\ Free \in Handling /\ InTurn(Free) /\ Free.pc = "free"
<1>1. Free \in Handling /\ Free.pc = "free"
  BY DEF Free, Handling, HandlerPCs
<1>2. QED
  BY <1>1 DEF InTurn, Queue

\* A handler that goes on to a place where nothing is asked of it.
LEMMA StepKeeps ==
  ASSUME SInv, NEW h \in Handlers, NEW p \in {"read", "queue"}, Step(h, p),
         p = "queue" => rule.behavior = "throttling",
         handler[h].pc \notin {"add", "undo"},
         UNCHANGED <<rule, clock, granted, given, lastPassed, redis>>
  PROVE  SInv'
<1> DEFINE x == [handler[h] EXCEPT !.pc = p]
<1>1. x \in Handling /\ x.pc = p
  BY DEF SInv, ServerRanges, Handling, HandlerPCs, Queue
<1>2. handler' = [handler EXCEPT ![h] = x]
  BY DEF Step
<1> HIDE DEF x
<1>3. InTurn(x)
  BY <1>1 DEF InTurn, Queue
<1>4. QED
  BY <1>1, <1>2, <1>3, QuietKeeps

LEMMA AnswersKeeps ==
  ASSUME SInv, NEW h \in Handlers, NEW status, Answers(h, status),
         handler[h].pc \notin {"add", "undo"},
         UNCHANGED <<rule, clock, granted, given, lastPassed, redis>>
  PROVE  SInv'
<1>1. handler' = [handler EXCEPT ![h] = Free]
  BY DEF Answers
<1>2. QED
  BY <1>1, FreeHandling, QuietKeeps

\* Compared and not yet added: as many as there are handlers, all below the
\* threshold when they compared.
LEMMA CompareKeeps ==
  ASSUME SInv, NEW h \in Handlers, Compare(h)
  PROVE  SInv'
<1>1. UNCHANGED <<rule, clock, granted, given, lastPassed, redis>> /\ handler[h].pc = "read"
  BY DEF Compare, serverFixed
<1>2. CASE Step(h, "queue") /\ rule.behavior = "throttling"
  BY <1>1, <1>2, StepKeeps
<1>3. CASE Answers(h, "blocked")
  BY <1>1, <1>3, AnswersKeeps
<1>4. CASE Step(h, "add") /\ rule.behavior # "throttling" /\ granted + 1 <= rule.globalThreshold
  <2> DEFINE x == [handler[h] EXCEPT !.pc = "add"]
  <2>1. x \in Handling /\ x.pc = "add" /\ granted \in Nat
    BY DEF SInv, ServerRanges, Handling, HandlerPCs
  <2>2. handler' = [handler EXCEPT ![h] = x]
    BY <1>4 DEF Step
  <2> HIDE DEF x
  <2>3. InTurn(x)
    BY <1>4, <2>1, RuleFacts DEF InTurn, Queue, SInv, ServerRanges
  <2>4. /\ handler' \in [Handlers -> Handling] /\ \A g \in Handlers : InTurn(handler[g])'
        /\ Adding' = Adding \cup {h} /\ Undoing' = Undoing \ {h}
    BY <1>1, <2>1, <2>2, <2>3, HandlerPlaced
  <2>5. Turns'
    BY <1>1, <1>4 DEF Turns
  <2>6. Compared'
    <3>1. Adding' \in SUBSET Handlers
      BY <2>4 DEF Adding
    <3>2. Cardinality(Adding') \in Nat /\ Cardinality(Adding') <= Cardinality(Handlers)
          /\ Cardinality(Handlers) \in Nat
      BY <3>1, HandlersCount
    <3>3. rule.globalThreshold \in Nat
      BY RuleFacts DEF SInv, ServerRanges
    <3>4. granted + Cardinality(Adding') <= rule.globalThreshold + Cardinality(Handlers) - 1
      BY <1>4, <2>1, <3>2, <3>3
    <3>5. QED
      BY <1>1, <3>4 DEF Compared
  <2>7. QED
    BY <1>1, <2>4, <2>5, <2>6 DEF SInv, ServerRanges
<1>5. QED
  BY <1>2, <1>3, <1>4 DEF Compare

LEMMA GrantKeeps ==
  ASSUME SInv, NEW h \in Handlers, Grant(h)
  PROVE  SInv'
<1>1. /\ UNCHANGED <<rule, clock, given, lastPassed, redis>> /\ handler[h].pc = "add"
      /\ granted' = granted + 1 /\ handler' = [handler EXCEPT ![h] = Free]
  BY DEF Grant, serverFixed, Answers
<1>2. rule.behavior # "throttling"
  BY <1>1 DEF SInv, InTurn
<1>3. /\ handler' \in [Handlers -> Handling] /\ \A g \in Handlers : InTurn(handler[g])'
      /\ Adding' = Adding \ {h}
  BY <1>1, FreeHandling, HandlerPlaced
<1>4. granted \in Nat
  BY DEF SInv, ServerRanges
<1>5. Cardinality(Adding) \in Nat /\ Cardinality(Adding') = Cardinality(Adding) - 1
      /\ Cardinality(Handlers) \in Nat
  BY <1>1, <1>3, HandlersCount DEF Adding
<1>6. Compared'
  <2>1. granted + Cardinality(Adding) <= rule.globalThreshold + Cardinality(Handlers) - 1
    BY <1>2 DEF SInv, Compared
  <2>2. granted' + Cardinality(Adding') = granted + Cardinality(Adding)
    BY <1>1, <1>4, <1>5
  <2>3. QED
    BY <1>1, <2>1, <2>2 DEF Compared
<1>7. Turns'
  BY <1>1, <1>2 DEF Turns
<1>8. QED
  BY <1>1, <1>3, <1>4, <1>6, <1>7 DEF SInv, ServerRanges

\* The clock and the last time are read: behind the clock by an interval, the
\* swap is tried.
LEMMA PriorityKeeps ==
  ASSUME SInv, NEW h \in Handlers, priorityHandle(h)
  PROVE  SInv'
<1> DEFINE q == IF lastPassed + Interval(rule) <= clock THEN "cas" ELSE "wait"
           x == [handler[h] EXCEPT !.l = lastPassed, !.now = clock, !.pc = q]
<1>1. /\ UNCHANGED <<rule, clock, granted, given, lastPassed, redis>> /\ handler[h].pc = "queue"
      /\ handler' = [handler EXCEPT ![h] = x]
  BY DEF priorityHandle, serverFixed, SInv, ServerRanges
<1>2. rule.behavior = "throttling"
  BY <1>1 DEF SInv, InTurn, Queue
<1>3. q \in {"cas", "wait"} /\ (q = "cas" => lastPassed + Interval(rule) <= clock)
  OBVIOUS
<1> HIDE DEF q
<1>4. x \in Handling /\ x.pc = q /\ x.l = lastPassed /\ x.now = clock
  <2>1. handler[h] \in Handling /\ lastPassed \in Int /\ clock \in Int
    BY DEF SInv, ServerRanges
  <2>2. QED
    BY <1>3, <2>1 DEF Handling, HandlerPCs, Queue
<1> HIDE DEF x
<1>5. InTurn(x)
  BY <1>2, <1>3, <1>4 DEF InTurn, SInv, ServerRanges
<1>6. QED
  BY <1>1, <1>3, <1>4, <1>5, QuietKeeps

LEMMA EstimateKeeps ==
  ASSUME SInv, NEW h \in Handlers, Estimate(h)
  PROVE  SInv'
<1>1. UNCHANGED <<rule, clock, granted, given, lastPassed, redis>> /\ handler[h].pc = "wait"
  BY DEF Estimate, serverFixed
<1>2. CASE Answers(h, "blocked")
  BY <1>1, <1>2, AnswersKeeps
<1>3. CASE Step(h, "append")
  <2> DEFINE x == [handler[h] EXCEPT !.pc = "append"]
  <2>1. x \in Handling /\ x.pc = "append" /\ x.now = handler[h].now
    BY DEF SInv, ServerRanges, Handling, HandlerPCs, Queue
  <2>2. handler' = [handler EXCEPT ![h] = x]
    BY <1>3 DEF Step
  <2> HIDE DEF x
  <2>3. InTurn(x)
    BY <1>1, <2>1 DEF InTurn, SInv, Queue
  <2>4. QED
    BY <1>1, <2>1, <2>2, <2>3, QuietKeeps
<1>4. QED
  BY <1>2, <1>3 DEF Estimate

\* One more token in turn, or one more addition to take back, for one interval.
LEMMA NextTurn ==
  ASSUME NEW a \in Nat, NEW u \in Nat, NEW i \in Nat, NEW l \in Int, NEW m \in Int,
         (a + u) * i <= l, l + i <= m
  PROVE  ((a + 1) + u) * i <= m /\ (a + (u + 1)) * i <= m /\ (a + 1) * i <= m
<1>1. ((a + u) + 1) * i = (a + u) * i + i /\ (a + u) * i \in Int
  BY NextMultiple
<1>2. ((a + u) + 1) * i <= m
  BY <1>1
<1>3. (a + 1) + u = (a + u) + 1 /\ a + (u + 1) = (a + u) + 1
  OBVIOUS
<1>4. i * (a + 1) <= i * ((a + u) + 1)
  BY TimesMonotone
<1>5. i * (a + 1) = (a + 1) * i /\ i * ((a + u) + 1) = ((a + u) + 1) * i /\ (a + 1) * i \in Int
  OBVIOUS
<1>6. QED
  BY <1>2, <1>3, <1>4, <1>5

\* The swap succeeds only on the time that was read: an interval has gone by.
LEMMA PassedKeeps ==
  ASSUME SInv, NEW h \in Handlers, Passed(h)
  PROVE  SInv'
<1> DEFINE x == handler[h]
<1>1. UNCHANGED <<rule, clock, redis>> /\ x.pc = "cas"
  BY DEF Passed, serverFixed
<1>2. rule.behavior = "throttling" /\ x \in Handling /\ x.l + Interval(rule) <= x.now
      /\ x.now <= clock
  BY <1>1 DEF SInv, ServerRanges, InTurn, Queue
<1>3. CASE /\ lastPassed = x.l /\ lastPassed' = x.now /\ given' = given + 1
           /\ granted' = granted + 1 /\ Answers(h, "ok")
  <2>1. /\ handler' \in [Handlers -> Handling] /\ \A g \in Handlers : InTurn(handler[g])'
        /\ Undoing' = Undoing \ {h}
    BY <1>1, <1>3, FreeHandling, HandlerPlaced DEF Answers
  <2>2. Undoing' = Undoing
    BY <1>1, <2>1 DEF Undoing
  <2>3. /\ given \in Nat /\ granted \in Nat /\ clock \in Nat /\ lastPassed' \in Int /\ lastPassed \in Int
        /\ Interval(rule) \in Nat /\ rule.maxQueueing \in Nat /\ Cardinality(Undoing) \in Nat
    <3>1. Undoing \in SUBSET Handlers
      BY DEF Undoing
    <3>2. QED
      BY <1>2, <1>3, <3>1, RuleFacts, HandlersCount DEF SInv, ServerRanges, Handling
  <2>4. (given + Cardinality(Undoing)) * Interval(rule) <= lastPassed
    BY <1>2 DEF SInv, Turns
  <2>5. lastPassed + Interval(rule) <= lastPassed'
    BY <1>2, <1>3
  <2>6. /\ (given' + Cardinality(Undoing')) * Interval(rule) <= lastPassed'
        /\ given' * Interval(rule) <= lastPassed'
    <3> DEFINE u == Cardinality(Undoing)
               i == Interval(rule)
    <3>1. u \in Nat /\ i \in Nat /\ (given + u) * i <= lastPassed /\ lastPassed + i <= lastPassed'
          /\ Cardinality(Undoing') = u
      BY <2>2, <2>3, <2>4, <2>5
    <3> HIDE DEF u, i
    <3>2. ((given + 1) + u) * i <= lastPassed' /\ (given + 1) * i <= lastPassed'
      BY <2>3, <3>1, NextTurn
    <3>3. QED
      BY <1>3, <3>1, <3>2 DEF i
  <2>7. Turns'
    <3>1. given' * Interval(rule) \in Int
      BY <1>3, <2>3
    <3>2. lastPassed' <= clock + rule.maxQueueing
      BY <1>2, <1>3, <2>3
    <3>3. given' * Interval(rule) <= clock + rule.maxQueueing
      BY <2>3, <2>6, <3>1, <3>2
    <3>4. QED
      BY <1>1, <2>6, <3>3 DEF Turns, Interval
  <2>8. Compared'
    BY <1>1, <1>2 DEF Compared
  <2>9. QED
    BY <1>1, <1>3, <2>1, <2>3, <2>7, <2>8 DEF SInv, ServerRanges
<1>4. CASE Step(h, "wait") /\ UNCHANGED <<lastPassed, given, granted>>
  <2> DEFINE y == [x EXCEPT !.pc = "wait"]
  <2>1. y \in Handling /\ y.pc = "wait" /\ y.now = x.now
    BY <1>2 DEF Handling, HandlerPCs, Queue
  <2>2. handler' = [handler EXCEPT ![h] = y]
    BY <1>4 DEF Step
  <2> HIDE DEF y
  <2>3. InTurn(y)
    BY <1>2, <2>1 DEF InTurn
  <2>4. QED
    BY <1>1, <1>4, <2>1, <2>2, <2>3, QuietKeeps
<1>5. QED
  BY <1>3, <1>4 DEF Passed

\* The addition is kept, or has to be taken back.
LEMMA AppendKeeps ==
  ASSUME SInv, NEW h \in Handlers, Append(h)
  PROVE  SInv'
<1> DEFINE x == handler[h]
           u == Cardinality(Undoing)
           i == Interval(rule)
<1>1. UNCHANGED <<rule, clock, redis>> /\ x.pc = "append" /\ lastPassed' = lastPassed + i
  BY DEF Append, serverFixed
<1>2. rule.behavior = "throttling" /\ x \in Handling /\ x.now <= clock
  BY <1>1 DEF SInv, ServerRanges, InTurn, Queue
<1>3. Undoing \in SUBSET Handlers /\ h \notin Undoing
  BY <1>1 DEF Undoing
<1>4. /\ given \in Nat /\ granted \in Nat /\ clock \in Nat /\ lastPassed \in Int /\ i \in Nat
      /\ rule.maxQueueing \in Nat /\ u \in Nat
  BY <1>3, RuleFacts, HandlersCount DEF SInv, ServerRanges
<1>5. (given + u) * i <= lastPassed /\ given * i <= clock + rule.maxQueueing
  BY <1>2 DEF SInv, Turns
<1>6. i' = i
  BY <1>1 DEF Interval
<1> HIDE DEF u, i
<1>7. /\ lastPassed' \in Int
      /\ ((given + 1) + u) * i <= lastPassed' /\ (given + (u + 1)) * i <= lastPassed'
      /\ (given + 1) * i <= lastPassed'
  <2>1. lastPassed' \in Int /\ lastPassed + i <= lastPassed'
    BY <1>1, <1>4
  <2>2. QED
    BY <1>4, <1>5, <2>1, NextTurn
<1>8. Compared'
  BY <1>1, <1>2 DEF Compared
<1>9. CASE Step(h, "undo") /\ UNCHANGED <<given, granted>>
  <2> DEFINE y == [x EXCEPT !.pc = "undo"]
  <2>1. y \in Handling /\ y.pc = "undo"
    BY <1>2 DEF Handling, HandlerPCs, Queue
  <2>2. handler' = [handler EXCEPT ![h] = y]
    BY <1>9 DEF Step
  <2> HIDE DEF y
  <2>3. InTurn(y)
    BY <1>2, <2>1 DEF InTurn
  <2>4. /\ handler' \in [Handlers -> Handling] /\ \A g \in Handlers : InTurn(handler[g])'
        /\ Undoing' = Undoing \cup {h}
    BY <1>1, <2>1, <2>2, <2>3, HandlerPlaced
  <2>5. Cardinality(Undoing') = u + 1
    BY <1>3, <2>4, HandlersCount DEF u
  <2>6. Turns'
    BY <1>1, <1>5, <1>6, <1>7, <1>9, <2>5 DEF Turns, i
  <2>7. QED
    BY <1>1, <1>7, <1>8, <1>9, <2>4, <2>6 DEF SInv, ServerRanges
<1>10. CASE /\ ~(lastPassed' - x.now > rule.maxQueueing) /\ given' = given + 1
            /\ granted' = granted + 1 /\ handler' = [handler EXCEPT ![h] = Free]
  <2>1. /\ handler' \in [Handlers -> Handling] /\ \A g \in Handlers : InTurn(handler[g])'
        /\ Undoing' = Undoing \ {h}
    BY <1>1, <1>10, FreeHandling, HandlerPlaced
  <2>2. Cardinality(Undoing') = u
    <3>1. Undoing' = Undoing
      BY <1>3, <2>1
    <3>2. QED
      BY <3>1 DEF u
  <2>3. (given + 1) * i <= clock + rule.maxQueueing
    <3>1. lastPassed' <= clock + rule.maxQueueing
      BY <1>2, <1>4, <1>7, <1>10 DEF Handling
    <3>2. (given + 1) * i \in Int
      BY <1>4
    <3>3. QED
      BY <1>4, <1>7, <3>1, <3>2
  <2>4. Turns'
    BY <1>1, <1>6, <1>7, <1>10, <2>2, <2>3 DEF Turns, i
  <2>5. given' \in Nat /\ granted' \in Nat
    BY <1>4, <1>10
  <2>6. QED
    BY <1>1, <1>7, <1>8, <2>1, <2>4, <2>5 DEF SInv, ServerRanges
<1>11. QED
  BY <1>9, <1>10 DEF Append, Answers

LEMMA UndoKeeps ==
  ASSUME SInv, NEW h \in Handlers, Undo(h)
  PROVE  SInv'
<1> DEFINE u == Cardinality(Undoing)
           i == Interval(rule)
<1>1. /\ UNCHANGED <<rule, clock, redis, granted, given>> /\ handler[h].pc = "undo"
      /\ lastPassed' = lastPassed - i /\ handler' = [handler EXCEPT ![h] = Free]
  BY DEF Undo, serverFixed, Answers
<1>2. rule.behavior = "throttling"
  BY <1>1 DEF SInv, InTurn, Queue
<1>3. Undoing \in SUBSET Handlers /\ h \in Undoing
  BY <1>1 DEF Undoing
<1>4. given \in Nat /\ lastPassed \in Int /\ i \in Nat /\ u \in Nat
  BY <1>3, RuleFacts, HandlersCount DEF SInv, ServerRanges
<1>5. /\ handler' \in [Handlers -> Handling] /\ \A g \in Handlers : InTurn(handler[g])'
      /\ Undoing' = Undoing \ {h}
  BY <1>1, FreeHandling, HandlerPlaced
<1>6. Cardinality(Undoing') = u - 1
  BY <1>3, <1>5, HandlersCount
<1>7. (given + u) * i <= lastPassed /\ given * i <= clock + rule.maxQueueing
  BY <1>2 DEF SInv, Turns
<1>8. i' = i
  BY <1>1 DEF Interval
<1> HIDE DEF u, i
<1>9. (given + (u - 1)) * i <= lastPassed'
  <2> DEFINE n == given + (u - 1)
  <2>1. n \in Int /\ given + u = n + 1
    BY <1>4
  <2> HIDE DEF n
  <2>2. n * i \in Int /\ (n + 1) * i = n * i + i
    BY <1>4, <2>1, NextMultiple
  <2>3. n * i <= lastPassed'
    BY <1>1, <1>4, <1>7, <2>1, <2>2
  <2>4. QED
    BY <2>3 DEF n
<1>10. Turns'
  BY <1>1, <1>6, <1>7, <1>8, <1>9 DEF Turns, i
<1>11. Compared'
  BY <1>1, <1>2 DEF Compared
<1>12. lastPassed' \in Int
  BY <1>1, <1>4
<1>13. QED
  BY <1>1, <1>5, <1>10, <1>11, <1>12 DEF SInv, ServerRanges

LEMMA AcquireKeeps ==
  ASSUME SInv, NEW h \in Handlers, acquireClusterToken(h)
  PROVE  SInv'
<1>1. UNCHANGED <<rule, clock, granted, given, lastPassed, redis>> /\ handler[h].pc = "limit"
  BY DEF acquireClusterToken, serverFixed
<1>2. Answers(h, "too many") \/ Step(h, "read")
  BY DEF acquireClusterToken
<1>3. QED
  BY <1>1, <1>2, AnswersKeeps, StepKeeps

LEMMA ServeKeeps ==
  ASSUME SInv, NEW h \in Handlers, Serve(h)
  PROVE  SInv'
BY AcquireKeeps, CompareKeeps, GrantKeeps, PriorityKeeps, PassedKeeps, EstimateKeeps,
   AppendKeeps, UndoKeeps DEF Serve

\* Nothing that happens outside the handlers gives anything out.
LEMMA ServerStays ==
  ASSUME SInv, UNCHANGED <<rule, clock, handler, granted, given, lastPassed>>,
         redis' \in [count : Int, script : BOOLEAN, sha : BOOLEAN],
         redis'.count <= rule.globalThreshold
  PROVE  SInv'
<1>1. Adding' = Adding /\ Undoing' = Undoing
  BY DEF Adding, Undoing
<1>2. Turns' /\ Compared'
  BY <1>1 DEF SInv, Turns, Compared, Interval
<1>3. \A h \in Handlers : InTurn(handler[h])'
  BY DEF SInv, InTurn, Interval
<1>4. QED
  BY <1>2, <1>3 DEF SInv, ServerRanges

\* A request sets a free goroutine of the server to work.
LEMMA RequestKeeps ==
  ASSUME SInv, NEW c \in Callers, RequestToken(c)
  PROVE  SInv'
<1>1. UNCHANGED <<rule, clock, granted, given, lastPassed, redis>>
  BY DEF RequestToken, remoteVars
<1>2. CASE UNCHANGED handler
  BY <1>1, <1>2, ServerStays DEF SInv, ServerRanges
<1>3. ASSUME NEW h \in Handlers, handler[h].pc = "free",
             handler' = [handler EXCEPT ![h] = [Free EXCEPT !.pc = "limit", !.of = c]]
      PROVE  SInv'
  <2> DEFINE x == [Free EXCEPT !.pc = "limit", !.of = c]
  <2>1. x \in Handling /\ x.pc = "limit"
    BY FreeHandling DEF Handling, HandlerPCs
  <2>2. handler' = [handler EXCEPT ![h] = x]
    BY <1>3
  <2> HIDE DEF x
  <2>3. InTurn(x)
    BY <2>1 DEF InTurn, Queue
  <2>4. QED
    BY <1>1, <1>3, <2>1, <2>2, <2>3, QuietKeeps
<1>4. QED
  BY <1>2, <1>3 DEF RequestToken

\* A goroutine whose client has given up goes on where it is.
LEMMA GivenUpKeeps ==
  ASSUME SInv, NEW c \in Callers, sendTokenRequest(c)
  PROVE  SInv'
<1>1. UNCHANGED <<rule, clock, granted, given, lastPassed, redis>>
  BY DEF sendTokenRequest, remoteVars
<1>2. handler' = [h \in Handlers |-> IF handler[h].of = c THEN [handler[h] EXCEPT !.of = NoOne]
                                     ELSE handler[h]]
  BY DEF sendTokenRequest
<1>3. ASSUME NEW h \in Handlers
      PROVE  /\ handler'[h] \in Handling /\ handler'[h].pc = handler[h].pc
             /\ handler'[h].l = handler[h].l /\ handler'[h].now = handler[h].now
  BY <1>2 DEF SInv, ServerRanges, Handling
<1>4. handler' \in [Handlers -> Handling]
  BY <1>2, <1>3
<1>5. Adding' = Adding /\ Undoing' = Undoing
  BY <1>3 DEF Adding, Undoing
<1>6. Turns' /\ Compared'
  BY <1>1, <1>5 DEF SInv, Turns, Compared, Interval
<1>7. \A h \in Handlers : InTurn(handler[h])'
  BY <1>1, <1>3 DEF SInv, InTurn, Interval
<1>8. QED
  BY <1>1, <1>4, <1>6, <1>7 DEF SInv, ServerRanges

\* What Redis keeps after a script that adds, one that is gone or loaded, a restart.
LEMMA RedisFields ==
  ASSUME NEW kept \in [count : Int, script : BOOLEAN, sha : BOOLEAN]
  PROVE  /\ [kept EXCEPT !.sha = FALSE] \in [count : Int, script : BOOLEAN, sha : BOOLEAN]
         /\ [kept EXCEPT !.script = TRUE] \in [count : Int, script : BOOLEAN, sha : BOOLEAN]
         /\ [kept EXCEPT !.count = @ + 1] \in [count : Int, script : BOOLEAN, sha : BOOLEAN]
         /\ [kept EXCEPT !.count = 0] \in [count : Int, script : BOOLEAN, sha : BOOLEAN]
         /\ kept.sha \in BOOLEAN
<1>1. kept.count + 1 \in Int
  OBVIOUS
<1> DEFINE n == kept.count + 1
<1>2. [kept EXCEPT !.count = @ + 1] = [kept EXCEPT !.count = n]
  OBVIOUS
<1> HIDE DEF n
<1>3. n \in Int
  BY <1>1 DEF n
<1>4. [kept EXCEPT !.count = n] \in [count : Int, script : BOOLEAN, sha : BOOLEAN]
  BY <1>3
<1>5. [kept EXCEPT !.sha = FALSE] \in [count : Int, script : BOOLEAN, sha : BOOLEAN]
  OBVIOUS
<1>6. [kept EXCEPT !.script = TRUE] \in [count : Int, script : BOOLEAN, sha : BOOLEAN]
  OBVIOUS
<1>7. [kept EXCEPT !.count = 0] \in [count : Int, script : BOOLEAN, sha : BOOLEAN]
  OBVIOUS
<1>8. kept.sha \in BOOLEAN
  OBVIOUS
<1>9. QED
  BY <1>2, <1>4, <1>5, <1>6, <1>7, <1>8

\* The script adds only what it has compared.
LEMMA RedisKeeps ==
  ASSUME SInv, NEW c \in Callers, RedisRequestToken(c)
  PROVE  SInv'
<1>1. UNCHANGED <<rule, clock, handler, granted, given, lastPassed>>
  BY DEF RedisRequestToken
<1>2. /\ redis \in [count : Int, script : BOOLEAN, sha : BOOLEAN]
      /\ redis.count <= rule.globalThreshold
  BY DEF SInv, ServerRanges
<1>3. \/ redis' = redis
      \/ redis' = [redis EXCEPT !.sha = FALSE]
      \/ redis' = [redis EXCEPT !.script = TRUE]
      \/ luaScript /\ redis' = [redis EXCEPT !.count = @ + 1]
  <2>1. redis.count = [redis EXCEPT !.count = @].count
    BY <1>2
  <2>2. [redis EXCEPT !.count = redis.count] = redis
    BY <1>2
  <2>3. QED
    BY <1>2, <2>2 DEF RedisRequestToken
<1>4. /\ rule.globalThreshold \in Int /\ redis.count \in Int
      /\ redis' \in [count : Int, script : BOOLEAN, sha : BOOLEAN]
  <2>1. rule.globalThreshold \in Int
    BY RuleFacts DEF SInv, ServerRanges
  <2>2. redis' \in [count : Int, script : BOOLEAN, sha : BOOLEAN]
    <3>1. CASE redis' = redis
      BY <1>2, <3>1
    <3>2. CASE redis' = [redis EXCEPT !.sha = FALSE]
      BY <1>2, <3>2, RedisFields
    <3>3. CASE redis' = [redis EXCEPT !.script = TRUE]
      BY <1>2, <3>3, RedisFields
    <3>4. CASE redis' = [redis EXCEPT !.count = @ + 1]
      BY <1>2, <3>4, RedisFields
    <3>5. QED
      BY <1>3, <3>1, <3>2, <3>3, <3>4
  <2>3. QED
    BY <1>2, <2>1, <2>2
<1>5. redis'.count <= rule.globalThreshold
  <2>1. CASE redis'.count = redis.count
    BY <1>2, <2>1
  <2>2. CASE luaScript /\ redis'.count = redis.count + 1
    BY <2>2 DEF luaScript
  <2>3. QED
    BY <1>2, <1>3, <2>1, <2>2
<1>6. QED
  BY <1>1, <1>4, <1>5, ServerStays

LEMMA CallServerKeeps ==
  ASSUME SInv, NEW c \in Callers, Call(c) \/ Local(c)
  PROVE  SInv'
<1>1. CASE RequestToken(c) \/ sendTokenRequest(c) \/ RedisRequestToken(c)
  BY <1>1, RequestKeeps, GivenUpKeeps, RedisKeeps
<1>2. CASE canPassCheck(c) \/ allowRemoteProceed(c) \/ GetClientRequestLimiter(c) \/ ClientTryPass(c)
  <2>1. UNCHANGED <<rule, clock, handler, granted, given, lastPassed, redis>>
    BY <1>2 DEF canPassCheck, allowRemoteProceed, GetClientRequestLimiter, ClientTryPass, remoteVars
  <2>2. QED
    BY <2>1, ServerStays DEF SInv, ServerRanges
<1>3. CASE Local(c)
  <2>1. UNCHANGED localFixed
    BY <1>3 DEF Local, checkInLocal, LoadOld, LoadTokens, CoolDown, syncToken, Take, Empty, Fill,
           CalculateAllowedTokens, PerformChecking
  <2>2. QED
    BY <2>1, ServerStays DEF SInv, ServerRanges, localFixed, remoteVars
<1>4. QED
  BY <1>1, <1>2, <1>3 DEF Call

LEMMA TickKeeps ==
  ASSUME SInv, Tick
  PROVE  SInv'
<1>1. /\ UNCHANGED <<rule, handler, given, lastPassed>> /\ clock' = clock + 1 /\ granted' = 0
      /\ redis' = [redis EXCEPT !.count = 0]
  BY DEF Tick
<1>2. Adding' = Adding /\ Undoing' = Undoing
  BY <1>1 DEF Adding, Undoing
<1>3. /\ rule \in Rules /\ clock \in Nat /\ granted \in Nat /\ given \in Nat
      /\ handler \in [Handlers -> Handling] /\ rule.globalThreshold \in Nat
      /\ rule.maxQueueing \in Nat /\ Interval(rule) \in Nat
  BY RuleFacts DEF SInv, ServerRanges
<1>4. Turns'
  <2>1. given * Interval(rule) \in Int
    BY <1>3
  <2>2. QED
    BY <1>1, <1>2, <1>3, <2>1 DEF SInv, Turns, Interval
<1>5. Compared'
  <2>0. Adding \in SUBSET Handlers
    BY DEF Adding
  <2>3. Cardinality(Adding) <= rule.globalThreshold + Cardinality(Handlers) - 1
    <3>1. PICK h \in Handlers : Adding # {} => h \in Adding
      BY <2>0, FlowTokensAssumption
    <3>2. /\ Cardinality(Adding) \in Nat /\ Cardinality(Handlers) \in Nat \ {0}
          /\ Cardinality(Adding) <= Cardinality(Handlers)
      BY <2>0, HandlersCount
    <3>3. Adding # {} => rule.globalThreshold > 0
      BY <3>1 DEF Adding, SInv, InTurn
    <3>4. Adding = {} => Cardinality(Adding) = 0
      BY FS_EmptySet
    <3>5. QED
      BY <1>3, <3>2, <3>3, <3>4
  <2>4. Cardinality(Adding) \in Nat
    <3>1. PICK h \in Handlers : TRUE
      BY FlowTokensAssumption
    <3>2. QED
      BY <2>0, <3>1, HandlersCount
  <2>5. granted' + Cardinality(Adding') = Cardinality(Adding)
    BY <1>1, <1>2, <2>4
  <2>6. QED
    BY <1>1, <2>3, <2>5 DEF Compared
<1>6. \A h \in Handlers : InTurn(handler[h])'
  <2> SUFFICES ASSUME NEW h \in Handlers PROVE InTurn(handler[h])'
    OBVIOUS
  <2>1. InTurn(handler[h]) /\ handler[h].now \in Int
    BY <1>3 DEF SInv, Handling
  <2>2. QED
    BY <1>1, <1>3, <2>1 DEF InTurn, Interval
<1>7. QED
  BY <1>1, <1>3, <1>4, <1>5, <1>6 DEF SInv, ServerRanges

-----------------------------------------------------------------------------
(* All of it                                                                *)

IInv == LInv /\ SInv

\* A handler moves the caller it answers, if that one still waits.
LEMMA ServeCallers ==
  ASSUME IInv, NEW h \in Handlers, Serve(h)
  PROVE  LInv'
<1>1. /\ rule' = rule /\ clock' = clock /\ warm' = warm
      /\ UNCHANGED limiter \/ limiter' = [limiter EXCEPT !["server"].n = @ + 1]
  BY DEF Serve, acquireClusterToken, Compare, Grant, priorityHandle, Passed, Estimate, Append,
         Undo, serverFixed
<1>2. /\ limiter' \in [{"client", "server"} -> [by : Callers \cup {NoOne}, n : Nat]]
      /\ clock \in Nat /\ downgradeTo \in Nat /\ passed \in [now : Nat, before : Nat]
      /\ warm \in [stored : Int, filled : Int] /\ warm.stored <= maxToken(rule)
  BY <1>1, LimiterRange DEF IInv, LInv, CallerRanges
<1>3. CASE UNCHANGED <<caller, passed, downgradeTo>>
  BY <1>1, <1>2, <1>3, UnplacedKeeps DEF IInv
<1>4. ASSUME NEW status, Answers(h, status)
      PROVE  LInv'
  <2>1. CASE UNCHANGED <<caller, passed, downgradeTo>>
    BY <1>3, <2>1
  <2>2. CASE handler[h].of # NoOne /\ Takes(handler[h].of, status)
    <3>1. handler[h].of \in Callers
      BY <2>2 DEF IInv, SInv, ServerRanges, Handling
    <3>2. /\ Placed(handler[h].of) /\ downgradeTo' \in Nat /\ passed' \in [now : Nat, before : Nat]
      BY <2>2, <3>1, TakesPlaced DEF IInv
    <3>3. QED
      BY <1>1, <1>2, <3>1, <3>2, PlacedKeeps DEF IInv
  <2>3. QED
    BY <1>4, <2>1, <2>2 DEF Answers
<1>5. UNCHANGED <<caller, passed, downgradeTo>> \/ \E status : Answers(h, status)
  BY DEF Serve, acquireClusterToken, Compare, Grant, priorityHandle, Passed, Estimate, Append, Undo
<1>6. QED
  BY <1>3, <1>4, <1>5

LEMMA InitHolds == Init => IInv
<1> SUFFICES ASSUME Init PROVE IInv
  OBVIOUS
<1>1. rule \in Rules
  BY DEF Init
<1>2. LInv
  <2>1. \A c \in Callers : caller[c] = Idle
    BY DEF Init
  <2>2. warm = [stored |-> 0, filled |-> -100] /\ maxToken(rule) \in Nat
    BY <1>1, TokenFacts DEF Init
  <2>3. CallerRanges
    BY IdleCalling DEF Init, CallerRanges
  <2>4. QED
    BY <2>1, <2>2, <2>3, IdleCalling DEF LInv
<1>3. SInv
  <2>1. \A h \in Handlers : handler[h] = Free
    BY DEF Init
  <2>2. ServerRanges
    BY FreeHandling DEF Init, ServerRanges
  <2>3. Adding = {} /\ Undoing = {}
    BY <2>1, FreeHandling DEF Adding, Undoing
  <2>4. Cardinality(Adding) = 0 /\ Cardinality(Undoing) = 0
    BY <2>3, FS_EmptySet
  <2>5. rule.globalThreshold \in Nat /\ Interval(rule) \in Nat /\ rule.maxQueueing \in Nat
    BY <1>1, RuleFacts
  <2>6. Cardinality(Handlers) \in Nat \ {0}
    <3>1. PICK h \in Handlers : TRUE
      BY FlowTokensAssumption
    <3>2. QED
      BY <3>1, HandlersCount
  <2>7. given = 0 /\ granted = 0 /\ lastPassed = 0 /\ clock = 1 /\ redis.count = 0
    BY DEF Init
  <2>8. Turns /\ Compared
    BY <2>4, <2>5, <2>6, <2>7 DEF Turns, Compared
  <2>9. QED
    BY <2>1, <2>2, <2>5, <2>7, <2>8, FreeHandling DEF SInv
<1>4. QED
  BY <1>2, <1>3 DEF IInv

LEMMA NextKeeps == IInv /\ [Next]_vars => IInv'
<1> SUFFICES ASSUME IInv, [Next]_vars PROVE IInv'
  OBVIOUS
<1>1. /\ clock \in Nat /\ downgradeTo \in Nat /\ passed \in [now : Nat, before : Nat]
      /\ limiter \in [{"client", "server"} -> [by : Callers \cup {NoOne}, n : Nat]]
      /\ warm \in [stored : Int, filled : Int] /\ warm.stored <= maxToken(rule)
  BY DEF IInv, LInv, CallerRanges
<1>2. CASE \E c \in Callers : Call(c) \/ Local(c)
  BY <1>2, CallKeeps, LocalKeeps, CallServerKeeps DEF IInv
<1>3. CASE \E h \in Handlers : Serve(h)
  BY <1>3, ServeCallers, ServeKeeps DEF IInv
<1>4. CASE Tick
  <2>1. /\ caller' = caller /\ rule' = rule /\ warm' = warm /\ downgradeTo' = downgradeTo
        /\ clock' \in Nat /\ passed' \in [now : Nat, before : Nat]
    BY <1>1, <1>4 DEF Tick
  <2>2. limiter' \in [{"client", "server"} -> [by : Callers \cup {NoOne}, n : Nat]]
    BY <1>4, LimiterRange DEF Tick, IInv
  <2>3. LInv'
    BY <1>1, <2>1, <2>2, UnplacedKeeps DEF IInv
  <2>4. QED
    BY <1>4, <2>3, TickKeeps DEF IInv
<1>5. CASE RedisRestart
  <2>1. /\ UNCHANGED <<rule, clock, caller, handler, downgradeTo, limiter, granted, given, lastPassed>>
        /\ UNCHANGED <<warm, passed>> /\ redis' = [count |-> 0, script |-> FALSE, sha |-> redis.sha]
    BY <1>5 DEF RedisRestart, localVars
  <2>2. LInv'
    BY <1>1, <2>1, UnplacedKeeps DEF IInv
  <2>3. /\ redis' \in [count : Int, script : BOOLEAN, sha : BOOLEAN]
        /\ redis'.count <= rule.globalThreshold
    <3>0. redis \in [count : Int, script : BOOLEAN, sha : BOOLEAN] /\ rule \in Rules
      BY DEF IInv, SInv, ServerRanges
    <3>1. rule.globalThreshold \in Nat
      BY <3>0, RuleFacts
    <3>2. /\ redis' \in [count : Int, script : BOOLEAN, sha : BOOLEAN]
          /\ redis'.count = 0
      BY <2>1, <3>0, RedisFields
    <3>3. QED
      BY <2>1, <3>1, <3>2
  <2>4. QED
    BY <2>1, <2>2, <2>3, ServerStays DEF IInv
<1>6. CASE UNCHANGED vars
  <2>1. LInv'
    BY <1>1, <1>6, UnplacedKeeps DEF IInv, vars
  <2>2. SInv'
    BY <1>6, ServerStays DEF IInv, SInv, ServerRanges, vars
  <2>3. QED
    BY <2>1, <2>2 DEF IInv
<1>7. QED
  BY <1>2, <1>3, <1>4, <1>5, <1>6 DEF Next

-----------------------------------------------------------------------------
(* However many callers and handlers there are, and whatever is late, lost   *)
(* or asked again: acquireClusterToken exceeds a threshold by no more than   *)
(* the handlers that had compared, priorityHandle never runs ahead of the    *)
(* clock by more than its queue, and the script of Redis keeps to its own.   *)
THEOREM GrantsStayBounded == Spec => []GrantsBounded
<1>1. IInv => GrantsBounded
  <2> SUFFICES ASSUME IInv PROVE GrantsBounded
    OBVIOUS
  <2>1. ASSUME rule.behavior = "reject"
        PROVE  granted <= rule.globalThreshold + Cardinality(Handlers) - 1
    <3>1. PICK h \in Handlers : TRUE
      BY FlowTokensAssumption
    <3>2. Cardinality(Adding) \in Nat /\ Cardinality(Handlers) \in Nat
      BY <3>1, HandlersCount DEF Adding
    <3>3. granted \in Nat /\ rule.globalThreshold \in Nat
      BY RuleFacts DEF IInv, SInv, ServerRanges
    <3>4. granted + Cardinality(Adding) <= rule.globalThreshold + Cardinality(Handlers) - 1
      BY <2>1 DEF IInv, SInv, Compared
    <3>5. QED
      BY <3>2, <3>3, <3>4
  <2>2. QED
    BY <2>1 DEF IInv, SInv, Turns, GrantsBounded
<1>2. QED
  BY <1>1, InitHolds, NextKeeps, PTL DEF Spec

(* Goroutines that refill a warming bucket at once, in whatever order their  *)
(* swaps, their subtractions and their time stamps fall, never fill it over  *)
(* maxToken, so CalculateAllowedTokens never gives less than the cold rate   *)
(* nor more than the threshold; nor does memory move an adaptive threshold   *)
(* out of its two bounds.                                                    *)
THEOREM ThresholdStaysInBounds == Spec => []ThresholdInBounds
<1>1. IInv => ThresholdInBounds
  BY DEF IInv, LInv, InOrder, ThresholdInBounds, At
<1>2. QED
  BY <1>1, InitHolds, NextKeeps, PTL DEF Spec

=============================================================================
