---------------------------- MODULE HotSpotProofs ----------------------------
(***************************************************************************)
(* Theorems about HotSpot, for every number of requests and arguments and  *)
(* every list of rules.  Whatever the interleaving, the token buckets of   *)
(* the reject strategy hold what they may, the counter of an argument is   *)
(* the number of entries in flight with it, and every variable, the caches *)
(* among them, is of its type.  For requests that nobody disturbs between  *)
(* the two writes of a refill or of a place in the queue, throttling by    *)
(* argument keeps its distance and the token buckets keep their rate.      *)
(*                                                                         *)
(* Three follow the pointers: a counter in a cache belongs to a request    *)
(* with that very argument, so does the one a request has taken from it,   *)
(* and what the request is about to write there is within bounds (IInv).   *)
(* Counting needs more: that the lists of a cache repeat no key, so that a *)
(* cache with room for the arguments met evicts none, and that a request   *)
(* which was checked has found, or put, the counter it will change (CInv). *)
(* For the distance one has to know that the time of an argument is the    *)
(* place of the last request that passed, or the present somebody has left *)
(* there on the way to its place (DInv).  TInv is what these leave out of  *)
(* the types.  For the rate, a full bucket and what time has added to it   *)
(* since the first grant pay for what was granted and for the tokens left, *)
(* but while a request is between the tokens and their time; what it has   *)
(* worked out half way then says that it will balance again (RInv).        *)
(***************************************************************************)
EXTENDS HotSpot, SequenceTheorems, FiniteSetTheorems, WellFoundedInduction, TLAPS

\* A cache as a record whose map leads to requests.
IsCache(c) == /\ c = [items |-> c.items, evictList |-> c.evictList]
              /\ c.items \in [Args -> Requests \cup {Nil}]

Locals == [now : Int, last : Requests \cup {Nil}, rest : Requests \cup {Nil}, old : Int, new : Int]

\* The caches and the values behind their pointers.
AreCaches(f) == /\ f = [k \in Controllers |-> f[k]]
                /\ \A k \in Controllers : IsCache(f[k])

Stores ==
  /\ AreCaches(timeCounter) /\ AreCaches(tokenCounter) /\ AreCaches(concurrentCounter)
  /\ time \in [Controllers -> [Requests -> Int]]
  /\ token \in [Controllers -> [Requests -> Int]]

\* The variables this is about, in their ranges.
Ranges ==
  /\ clock \in Int
  /\ tcs \in RuleLists
  /\ Stores
  /\ pc \in [Requests -> PCs]
  /\ args \in [Requests -> [Controllers -> Args \cup {NoArg}]]
  /\ batch \in [Requests -> Nat \ {0}]
  /\ at \in [Requests -> Nat]
  /\ local \in [Requests -> Locals]

\* A counter of controller k for this argument: its owner has begun with it.
CounterFor(k, arg, p) == p \in Requests /\ pc[p] # "new" /\ args[p][k] = arg

\* The counters in the caches are for the arguments they are found under.
Owned == \A k \in Controllers, arg \in Args :
           Holds(tokenCounter[k], arg) => CounterFor(k, arg, tokenCounter[k].items[arg])

\* A request that has not begun has no tokens anywhere.
Fresh == \A r \in Requests, k \in Controllers : pc[r] = "new" => token[k][r] = 0

\* The loop of PerformChecking, beyond its first statement, and the part of it
\* that only the reject strategy has.
BucketOnly == {"firstTokens", "refill", "loadOld", "swapRefill", "stamp", "spend",
               "loadRest", "swapSpend"}
Loop == BucketOnly \cup {"readClock", "addTime", "loadTime", "swapTime", "stampExpected"}

Asking == {"addConcurrent", "passing", "completing"}

\* A request in the loop has an argument, no more than the bucket can give, and
\* a counter of that argument when it has taken one.
InOrder(r) ==
  /\ pc[r] \in Loop \cup Asking => at[r] \in Controllers /\ Arg(r) \in Args
  /\ pc[r] \in Loop => Rule(r).metric = "QPS"
  /\ pc[r] \in BucketOnly => Rule(r).behavior = "Reject"
  /\ pc[r] \in Loop \ {"readClock"} => TokenCount(at[r], Arg(r)) > 0
  /\ pc[r] \in Loop \ {"readClock"} /\ Rule(r).behavior = "Reject"
       => batch[r] <= MaxCount(at[r], Arg(r))
  /\ pc[r] = "loadTime" => local[r].last \in Requests
  /\ pc[r] \in {"loadOld", "swapRefill", "loadRest", "swapSpend"}
       => CounterFor(at[r], Arg(r), local[r].rest)
  /\ pc[r] \in {"swapRefill", "swapSpend"} => local[r].new \in 0..MaxCount(at[r], Arg(r))

IInv == Ranges /\ Owned /\ Fresh /\ (\A r \in Requests : InOrder(r)) /\ TokensInBucket

-----------------------------------------------------------------------------
(* Facts about the operators                                                *)

\* AddIfAbsent leaves every key what it had, or nothing, or the new pointer to
\* the key it was called for when that had none.
LEMMA AddIfAbsentPointers ==
  ASSUME NEW c, IsCache(c), NEW size, NEW key \in Args, NEW p \in Requests
  PROVE  LET d == AddIfAbsent(c, size, key, p)
         IN  /\ IsCache(d)
             /\ \A a \in Args : \/ d.items[a] = c.items[a]
                                \/ d.items[a] = Nil
                                \/ a = key /\ c.items[key] = Nil /\ d.items[a] = p
<1> DEFINE d == AddIfAbsent(c, size, key, p)
           pushed == Push(c, key, p)
           o == ToFront(c.evictList, key)
<1>1. CASE Holds(c, key)
  <2>1. d = [items |-> c.items, evictList |-> o]
    BY <1>1 DEF IsCache, AddIfAbsent, Touch
  <2>2. QED
    BY <2>1 DEF IsCache
<1>2. CASE ~Holds(c, key)
  <2>1. pushed = [items |-> [c.items EXCEPT ![key] = p], evictList |-> o]
    <3>1. [c EXCEPT !.items[key] = p]
            = [items |-> [c.items EXCEPT ![key] = p], evictList |-> c.evictList]
      <4> DEFINE im == c.items
                 ev == c.evictList
      <4>1. c = [items |-> im, evictList |-> ev] BY DEF IsCache
      <4> HIDE DEF im, ev
      <4>2. [[items |-> im, evictList |-> ev] EXCEPT !.items[key] = p]
              = [items |-> [im EXCEPT ![key] = p], evictList |-> ev]
        OBVIOUS
      <4>3. QED
        BY <4>1, <4>2 DEF im, ev
    <3> DEFINE i == [c.items EXCEPT ![key] = p]
               ev == c.evictList
    <3>2. pushed = Touch([items |-> i, evictList |-> ev], key)
      BY <3>1 DEF Push
    <3>3. pushed = [[items |-> i, evictList |-> ev] EXCEPT !.evictList = ToFront(ev, key)]
      <4> HIDE DEF pushed, i, ev
      <4>1. QED
        BY <3>2 DEF Touch
    <3>4. QED
      <4> HIDE DEF pushed, i, ev
      <4>1. [[items |-> i, evictList |-> ev] EXCEPT !.evictList = ToFront(ev, key)]
              = [items |-> i, evictList |-> ToFront(ev, key)]
        OBVIOUS
      <4>2. QED
        BY <3>3, <4>1 DEF i, ev
  <2>2. \/ d = pushed
        \/ d = [items |-> [pushed.items EXCEPT ![Last(pushed.evictList)] = Nil],
                evictList |-> Front(pushed.evictList)]
    BY <1>2 DEF AddIfAbsent, RemoveOldest
  <2>3. c.items[key] = Nil
    BY <1>2 DEF Holds
  <2>4. pushed.items = [c.items EXCEPT ![key] = p]
    BY <2>1
  <2> HIDE DEF pushed, d, o
  <2>5. pushed.items \in [Args -> Requests \cup {Nil}]
    BY <2>4 DEF IsCache
  <2>6. \A a \in Args : pushed.items[a] = IF a = key THEN p ELSE c.items[a]
    BY <2>4 DEF IsCache
  <2>7. CASE d = pushed
    BY <2>1, <2>3, <2>5, <2>6, <2>7 DEF IsCache, d
  <2>8. CASE d = [items |-> [pushed.items EXCEPT ![Last(pushed.evictList)] = Nil],
                  evictList |-> Front(pushed.evictList)]
    <3>1. d.items = [pushed.items EXCEPT ![Last(pushed.evictList)] = Nil]
      BY <2>8
    <3>2. d.items \in [Args -> Requests \cup {Nil}]
      BY <2>5, <3>1
    <3>3. \A a \in Args : d.items[a] = pushed.items[a] \/ d.items[a] = Nil
      BY <2>5, <3>1
    <3>4. IsCache(d)
      BY <2>8, <3>2 DEF IsCache
    <3>5. QED
      BY <2>3, <2>6, <3>3, <3>4 DEF d
  <2>9. QED
    BY <2>2, <2>7, <2>8
<1>3. QED
  BY <1>1, <1>2

\* Get changes the order of the keys at most.
LEMMA GetPointers ==
  ASSUME NEW c, IsCache(c), NEW key
  PROVE  IsCache(Get(c, key)) /\ Get(c, key).items = c.items
<1> DEFINE o == ToFront(c.evictList, key)
<1>1. CASE Holds(c, key)
  <2>1. Get(c, key) = [items |-> c.items, evictList |-> o]
    BY <1>1 DEF IsCache, Get, Touch
  <2>2. QED
    BY <2>1 DEF IsCache
<1>2. CASE ~Holds(c, key)
  BY <1>2 DEF Get
<1>3. QED
  BY <1>1, <1>2

\* One value behind one pointer is written.
LEMMA WriteOne ==
  ASSUME NEW S, NEW T, NEW V, NEW f \in [S -> [T -> V]], NEW k \in S, NEW p, NEW v \in V
  PROVE  /\ [f EXCEPT ![k][p] = v] \in [S -> [T -> V]]
         /\ \A j \in S, q \in T :
              [f EXCEPT ![k][p] = v][j][q] = IF j = k /\ q = p THEN v ELSE f[j][q]
<1> DEFINE h == [f[k] EXCEPT ![p] = v]
<1>1. h \in [T -> V] /\ \A q \in T : h[q] = IF q = p THEN v ELSE f[k][q]
  OBVIOUS
<1>2. [f EXCEPT ![k][p] = v] = [f EXCEPT ![k] = h]
  OBVIOUS
<1> HIDE DEF h
<1>3. [f EXCEPT ![k] = h] \in [S -> [T -> V]]
      /\ \A j \in S : [f EXCEPT ![k] = h][j] = IF j = k THEN h ELSE f[j]
  BY <1>1
<1>4. QED
  BY <1>1, <1>2, <1>3

\* What a bucket can hold is an integer.
LEMMA MaxCountInt ==
  ASSUME tcs \in RuleLists, NEW k \in Controllers, NEW arg
  PROVE  /\ TokenCount(k, arg) \in Int /\ MaxCount(k, arg) \in Int /\ tcs[k].durationInSec \in Int
         /\ tcs[k].metric = "QPS" => tcs[k].durationInSec \in Nat \ {0}
BY HotSpotAssumption DEF TokenCount, MaxCount, Controllers, IsRule, IsValidRule

-----------------------------------------------------------------------------
(* Where a step takes the request that takes it                             *)

\* The request is at another place, in order.
Moves(r) ==
  /\ pc' = [pc EXCEPT ![r] = pc'[r]] /\ pc'[r] \in PCs \ {"new"}
  /\ at' = [at EXCEPT ![r] = at'[r]] /\ at'[r] \in Nat
  /\ local' = [local EXCEPT ![r] = local'[r]] /\ local'[r] \in Locals
  /\ InOrder(r)'

\* The next controller is one that has an argument of the request.
LEMMA GoOnPlace ==
  ASSUME Ranges, NEW r \in Requests, NEW k \in Nat \ {0}, GoOn(r, k), tcs' = tcs,
         args' \in [Requests -> [Controllers -> Args \cup {NoArg}]]
  PROVE  /\ pc' = [pc EXCEPT ![r] = pc'[r]]
         /\ pc'[r] \in {"addConcurrent", "readClock", "checked"}
         /\ at' = [at EXCEPT ![r] = at'[r]] /\ at'[r] \in Nat
         /\ pc'[r] # "checked" => at'[r] \in Controllers /\ args'[r][at'[r]] \in Args
         /\ pc'[r] = "readClock" => tcs[at'[r]].metric = "QPS"
<1>1. PICK i \in k..(Len(tcs) + 1) :
        /\ i \in Controllers => Checks(r, i)
        /\ at' = [at EXCEPT ![r] = i]
        /\ Move(r, IF i \in Controllers THEN FirstStep(i) ELSE "checked")
  BY DEF GoOn
<1>2. i \in Nat
  BY HotSpotAssumption DEF Ranges
<1>3. at'[r] = i /\ at' = [at EXCEPT ![r] = at'[r]]
  BY <1>1 DEF Ranges
<1>4. pc'[r] = IF i \in Controllers THEN FirstStep(i) ELSE "checked"
  BY <1>1 DEF Ranges, Move
<1>5. pc' = [pc EXCEPT ![r] = pc'[r]]
  BY <1>1, <1>4 DEF Move
<1>6. FirstStep(i) \in {"addConcurrent", "readClock"}
  BY DEF FirstStep
<1>7. i \in Controllers => args'[r][i] \in Args
  BY <1>1 DEF Checks
<1>8. i \in Controllers /\ FirstStep(i) = "readClock" => tcs[i].metric = "QPS"
  BY HotSpotAssumption DEF IsRule, FirstStep, Ranges, Controllers
<1>9. QED
  BY <1>2, <1>3, <1>4, <1>5, <1>6, <1>7, <1>8

\* A request that goes on with the next controller.
LEMMA GoOnMoves ==
  ASSUME Ranges, NEW r \in Requests, NEW k \in Nat \ {0}, GoOn(r, k),
         local' = [local EXCEPT ![r] = NoLocals], tcs' = tcs,
         args' \in [Requests -> [Controllers -> Args \cup {NoArg}]]
  PROVE  Moves(r)
<1>1. local'[r] = NoLocals /\ local' = [local EXCEPT ![r] = local'[r]]
  BY DEF Ranges
<1>2. NoLocals \in Locals
  BY DEF NoLocals, Locals, Nil
<1>3. /\ pc' = [pc EXCEPT ![r] = pc'[r]]
      /\ pc'[r] \in {"addConcurrent", "readClock", "checked"}
      /\ at' = [at EXCEPT ![r] = at'[r]] /\ at'[r] \in Nat
      /\ pc'[r] # "checked" => at'[r] \in Controllers /\ args'[r][at'[r]] \in Args
      /\ pc'[r] = "readClock" => tcs[at'[r]].metric = "QPS"
  BY GoOnPlace
<1>4. pc'[r] \in PCs \ {"new"}
  BY <1>3 DEF PCs, InQPS, InConcurrency
<1>5. InOrder(r)'
  BY <1>3 DEF InOrder, Loop, BucketOnly, Asking, Arg, Rule, Controllers
<1>6. QED
  BY <1>1, <1>2, <1>3, <1>4, <1>5 DEF Moves

\* A request that a controller has let pass.
LEMMA GrantedMoves ==
  ASSUME Ranges, NEW r \in Requests, NEW when, Granted(r, when), tcs' = tcs, args' = args
  PROVE  Moves(r)
<1>1. GoOn(r, at[r] + 1) /\ at[r] + 1 \in Nat \ {0}
  BY DEF Granted, Ranges
<1>2. args' \in [Requests -> [Controllers -> Args \cup {NoArg}]]
  BY DEF Ranges
<1>3. QED
  BY <1>1, <1>2, GoOnMoves DEF Granted

\* A request that goes on with the next controller in a stat slot.
LEMMA CountOnMoves ==
  ASSUME Ranges, NEW r \in Requests, NEW k \in Nat \ {0},
         NEW looking \in {"passing", "completing"}, NEW after \in {"running", "done"},
         CountOn(r, k, looking, after), UNCHANGED <<tcs, args>>,
         local' = local \/ local' = [local EXCEPT ![r] = NoLocals]
  PROVE  Moves(r)
<1>1. PICK i \in k..(Len(tcs) + 1) :
        /\ i \in Controllers => Counts(r, i)
        /\ at' = [at EXCEPT ![r] = i]
        /\ Move(r, IF i \in Controllers THEN looking ELSE after)
  BY DEF CountOn
<1>2. i \in Nat
  BY HotSpotAssumption DEF Ranges
<1>3. at'[r] = i /\ at' = [at EXCEPT ![r] = at'[r]]
  BY <1>1 DEF Ranges
<1>4. pc'[r] = IF i \in Controllers THEN looking ELSE after
  BY <1>1 DEF Ranges, Move
<1>5. pc' = [pc EXCEPT ![r] = pc'[r]]
  BY <1>1, <1>4 DEF Move
<1>6. i \in Controllers => args[r][i] \in Args
  BY <1>1 DEF Counts, Ranges
<1>7. NoLocals \in Locals
  BY DEF NoLocals, Locals, Nil
<1>8. local' = [local EXCEPT ![r] = local'[r]] /\ local'[r] \in Locals
  BY <1>7 DEF Ranges
<1>9. pc'[r] \in PCs \ {"new"}
  BY <1>4 DEF PCs, InStat
<1>10. InOrder(r)'
  BY <1>3, <1>4, <1>6 DEF InOrder, Loop, BucketOnly, Asking, Arg, Controllers
<1>11. QED
  BY <1>2, <1>3, <1>5, <1>8, <1>9, <1>10 DEF Moves

\* A request that a controller has refused.
LEMMA BlockedMoves ==
  ASSUME Ranges, NEW r \in Requests, Blocked(r)
  PROVE  Moves(r)
<1>1. pc' = [pc EXCEPT ![r] = "blocked"] /\ pc'[r] = "blocked" /\ at' = at
      /\ local' = [local EXCEPT ![r] = NoLocals] /\ local'[r] = NoLocals
  BY DEF Blocked, Move, Ranges
<1>2. NoLocals \in Locals
  BY DEF NoLocals, Locals, Nil
<1>3. InOrder(r)'
  BY <1>1 DEF InOrder, Loop, BucketOnly, Asking
<1>4. at' = [at EXCEPT ![r] = at'[r]] /\ at'[r] \in Nat
  BY <1>1 DEF Ranges
<1>5. QED
  BY <1>1, <1>2, <1>3, <1>4 DEF Moves, PCs

\* A request that stays with its controller, in order there.
LEMMA StaysMoves ==
  ASSUME Ranges, NEW r \in Requests, NEW p \in PCs \ {"new"}, NEW l \in Locals,
         pc' = [pc EXCEPT ![r] = p], local' = [local EXCEPT ![r] = l], at' = at,
         InOrder(r)'
  PROVE  Moves(r) /\ pc'[r] = p /\ local'[r] = l
BY DEF Moves, Ranges

\* A request that starts the loop again.
LEMMA AgainMoves ==
  ASSUME Ranges, NEW r \in Requests, Again(r), InOrder(r), pc[r] \in Loop,
         tcs' = tcs, args' = args
  PROVE  Moves(r)
<1>1. pc' = [pc EXCEPT ![r] = "readClock"] /\ pc'[r] = "readClock" /\ at' = at
      /\ local' = [local EXCEPT ![r] = NoLocals] /\ local'[r] = NoLocals
  BY DEF Again, Remember, Move, Ranges
<1>2. NoLocals \in Locals
  BY DEF NoLocals, Locals, Nil
<1>3. InOrder(r)'
  BY <1>1 DEF InOrder, Loop, BucketOnly, Asking, Arg, Rule, Controllers
<1>4. QED
  BY <1>1, <1>2, <1>3, StaysMoves DEF PCs, InQPS

-----------------------------------------------------------------------------
(* What a step leaves to the others                                         *)

\* What the step does to the counters: those in the caches are owned, those of
\* requests that have not begun are untouched, and all are within bounds.
KeepsBuckets ==
  /\ Stores'
  /\ \A k \in Controllers, arg \in Args :
       Holds(tokenCounter'[k], arg) => CounterFor(k, arg, tokenCounter'[k].items[arg])
  /\ \A k \in Controllers, q \in Requests : pc[q] = "new" => token'[k][q] = token[k][q]
  /\ TokensInBucket'

\* A step that moves its request and keeps the buckets keeps the invariant: the
\* other requests and the counters they hold are as they were.
LEMMA StepKeeps ==
  ASSUME IInv, NEW r \in Requests, pc[r] # "new", Moves(r), KeepsBuckets,
         UNCHANGED <<clock, tcs, request>>
  PROVE  IInv'
<1>1. UNCHANGED <<clock, tcs, args, batch>> /\ Controllers' = Controllers
  BY DEF request, Controllers
<1>2. \A q \in Requests : pc[q] # "new" => pc'[q] # "new"
  BY DEF IInv, Ranges, Moves
<1>3. Ranges'
  <2>1. pc' \in [Requests -> PCs] /\ at' \in [Requests -> Nat] /\ local' \in [Requests -> Locals]
    BY DEF IInv, Ranges, Moves
  <2>2. args' \in [Requests -> [Controllers' -> Args \cup {NoArg}]] /\ Stores'
    BY <1>1 DEF IInv, Ranges, KeepsBuckets
  <2>3. QED
    BY <1>1, <2>1, <2>2 DEF IInv, Ranges
<1>4. ASSUME NEW k, NEW arg, NEW c, CounterFor(k, arg, c)
      PROVE  CounterFor(k, arg, c)'
  BY <1>1, <1>2, <1>4 DEF CounterFor
<1>5. Owned'
  BY <1>1, <1>2 DEF Owned, KeepsBuckets, CounterFor, Holds
<1>6. Fresh'
  BY <1>1 DEF IInv, Ranges, Moves, KeepsBuckets, Fresh
<1>7. ASSUME NEW q \in Requests
      PROVE  InOrder(q)'
  <2>1. CASE q = r
    BY <2>1 DEF Moves
  <2>2. CASE q # r
    <3>1. pc'[q] = pc[q] /\ at'[q] = at[q] /\ local'[q] = local[q]
      BY <2>2 DEF IInv, Ranges, Moves
    <3>2. /\ Arg(q)' = Arg(q) /\ Rule(q)' = Rule(q)
          /\ TokenCount(at[q], Arg(q))' = TokenCount(at[q], Arg(q))
          /\ MaxCount(at[q], Arg(q))' = MaxCount(at[q], Arg(q))
      BY <1>1, <3>1 DEF Arg, Rule, MaxCount, TokenCount
    <3>3. CounterFor(at[q], Arg(q), local[q].rest) => CounterFor(at[q], Arg(q), local[q].rest)'
      BY <1>1, <1>2, <3>1, <3>2 DEF CounterFor
    <3>4. InOrder(q)
      BY DEF IInv
    <3>5. QED
      BY <1>1, <3>1, <3>2, <3>3, <3>4 DEF InOrder
  <2>3. QED
    BY <2>1, <2>2
<1>8. QED
  BY <1>3, <1>5, <1>6, <1>7 DEF IInv, KeepsBuckets

\* A step that leaves the tokens and their pointers alone keeps the buckets.
LEMMA QuietKeeps ==
  ASSUME IInv, Stores', UNCHANGED <<tcs, request, token>>,
         \A k \in Controllers : tokenCounter'[k].items = tokenCounter[k].items
  PROVE  KeepsBuckets
<1>1. \A k \in Controllers, arg \in Args :
        Holds(tokenCounter'[k], arg) => CounterFor(k, arg, tokenCounter'[k].items[arg])
  BY DEF IInv, Owned, Holds
<1>2. TokensInBucket'
  BY DEF IInv, TokensInBucket, request, Controllers, MaxCount, TokenCount
<1>3. QED
  BY <1>1, <1>2 DEF KeepsBuckets

\* Tokens that are new in the cache are what a full bucket has left.
LEMMA AddTokensKeeps ==
  ASSUME IInv, NEW r \in Requests, pc[r] \in {"firstTokens", "refill"}, AddTokens(r),
         UNCHANGED <<tcs, request>>
  PROVE  KeepsBuckets
<1> DEFINE k == at[r]
           a == Arg(r)
           d == AddIfAbsent(tokenCounter[k], Rule(r).capacity, a, r)
<1>1. k \in Controllers /\ a \in Args /\ batch[r] <= MaxCount(k, a)
  BY DEF IInv, InOrder, Loop, BucketOnly
<1>2. /\ IsCache(d)
      /\ \A b \in Args : \/ d.items[b] = tokenCounter[k].items[b]
                         \/ d.items[b] = Nil
                         \/ b = a /\ tokenCounter[k].items[a] = Nil /\ d.items[b] = r
  <2>1. IsCache(tokenCounter[k])
    BY <1>1 DEF IInv, Ranges, Stores, AreCaches
  <2> HIDE DEF k, a
  <2>2. QED
    BY <1>1, <2>1, AddIfAbsentPointers
<1>3. tokenCounter' = [tokenCounter EXCEPT ![k] = d]
  BY DEF AddTokens
<1>4. CounterFor(k, a, r)
  BY <1>1 DEF CounterFor, Arg
<1>5. UNCHANGED <<timeCounter, concurrentCounter, time, tcs, args, batch>>
  BY DEF AddTokens, request
<1>6. MaxCount(k, a) - batch[r] \in Nat /\ MaxCount(k, a) - batch[r] <= MaxCount(k, a)
  BY <1>1, MaxCountInt DEF IInv, Ranges
<1>7. token' = token \/ token' = [token EXCEPT ![k][r] = MaxCount(k, a) - batch[r]]
  BY DEF AddTokens
<1> DEFINE v == MaxCount(k, a) - batch[r]
<1>8. token \in [Controllers -> [Requests -> Int]] /\ v \in Int
  BY <1>6 DEF IInv, Ranges, Stores
<1>9. k \in Controllers /\ v \in Nat /\ v <= MaxCount(k, a)
       /\ (token' = token \/ token' = [token EXCEPT ![k][r] = v])
  BY <1>1, <1>6, <1>7
<1> HIDE DEF d, v
<1>10. /\ token' \in [Controllers -> [Requests -> Int]]
       /\ \A j \in Controllers, q \in Requests :
            token'[j][q] = token[j][q] \/ (j = k /\ q = r /\ token'[j][q] = v)
  <2> HIDE DEF k
  <2>1. CASE token' = token
    BY <1>8, <2>1
  <2>2. CASE token' = [token EXCEPT ![k][r] = v]
    BY <1>8, <1>9, <2>2, WriteOne
  <2>3. QED
    BY <1>9, <2>1, <2>2
<1>11. Stores'
  <2>1. AreCaches(tokenCounter)'
    BY <1>2, <1>3, <1>5 DEF IInv, Ranges, Stores, AreCaches, Controllers
  <2>2. QED
    BY <1>5, <1>10, <2>1 DEF IInv, Ranges, Stores, AreCaches, Controllers
<1>12. ASSUME NEW j \in Controllers, NEW arg \in Args, Holds(tokenCounter'[j], arg)
      PROVE  CounterFor(j, arg, tokenCounter'[j].items[arg])
  <2>1. CASE j # k
    BY <1>3, <1>12, <2>1 DEF IInv, Ranges, Stores, AreCaches, Owned
  <2>2. CASE j = k
    <3>1. tokenCounter'[j] = d
      BY <1>3, <2>2 DEF IInv, Ranges, Stores, AreCaches
    <3>2. QED
      BY <1>2, <1>4, <1>12, <2>2, <3>1 DEF IInv, Owned, Holds
  <2>3. QED
    BY <2>1, <2>2
<1>13. ASSUME NEW j \in Controllers, NEW q \in Requests, pc[q] = "new"
       PROVE  token'[j][q] = token[j][q]
  BY <1>13, <1>10
<1>14. TokensInBucket'
  <2> SUFFICES ASSUME NEW j \in Controllers, NEW q \in Requests
               PROVE  /\ token'[j][q] >= 0
                      /\ token'[j][q] > 0 => token'[j][q] <= MaxCount(j, args[q][j])
    BY <1>5 DEF TokensInBucket, MaxCount, TokenCount, Controllers
  <2>1. CASE token'[j][q] = token[j][q]
    BY <2>1 DEF IInv, TokensInBucket
  <2>2. CASE j = k /\ q = r /\ token'[j][q] = v
    BY <1>9, <2>2 DEF Arg
  <2>3. QED
    BY <1>10, <2>1, <2>2
<1>15. QED
  BY <1>11, <1>12, <1>13, <1>14 DEF KeepsBuckets

\* A swap of the tokens writes what the request is about to write.
LEMMA SwapKeeps ==
  ASSUME IInv, NEW r \in Requests, pc[r] \in {"swapRefill", "swapSpend"},
         token' = Swap(r, token, local[r].rest),
         UNCHANGED <<caches, time, tcs, request>>
  PROVE  KeepsBuckets
<1> DEFINE k == at[r]
           p == local[r].rest
           n == local[r].new
<1>1. /\ k \in Controllers
      /\ p \in Requests /\ pc[p] # "new" /\ args[p][k] = Arg(r)
      /\ n \in 0..MaxCount(k, Arg(r))
  BY DEF IInv, InOrder, Loop, BucketOnly, CounterFor
<1>2. token' = token \/ token' = [token EXCEPT ![k][p] = n]
  BY DEF Swap
<1>3. UNCHANGED <<timeCounter, tokenCounter, concurrentCounter, time, tcs, args, batch>>
  BY DEF caches, request
<1>4. MaxCount(k, Arg(r)) \in Int
  BY <1>1, MaxCountInt DEF IInv, Ranges
<1>5. n \in Nat /\ n <= MaxCount(k, Arg(r))
  BY <1>1, <1>4
<1> HIDE DEF n, p
<1>6. /\ token' \in [Controllers -> [Requests -> Int]]
       /\ \A j \in Controllers, q \in Requests :
            token'[j][q] = token[j][q] \/ (j = k /\ q = p /\ token'[j][q] = n)
  <2>1. token \in [Controllers -> [Requests -> Int]] /\ k \in Controllers /\ n \in Int
    BY <1>1, <1>5 DEF IInv, Ranges, Stores
  <2> HIDE DEF k
  <2>2. CASE token' = token
    BY <2>1, <2>2
  <2>3. CASE token' = [token EXCEPT ![k][p] = n]
    BY <2>1, <2>3, WriteOne
  <2>4. QED
    BY <1>2, <2>2, <2>3
<1>7. Stores'
  BY <1>3, <1>6 DEF IInv, Ranges, Stores, AreCaches, Controllers
<1>8. \A j \in Controllers, arg \in Args :
        Holds(tokenCounter'[j], arg) => CounterFor(j, arg, tokenCounter'[j].items[arg])
  BY <1>3 DEF IInv, Owned
<1>9. ASSUME NEW j \in Controllers, NEW q \in Requests, pc[q] = "new"
      PROVE  token'[j][q] = token[j][q]
  BY <1>1, <1>9, <1>6
<1>10. TokensInBucket'
  <2> SUFFICES ASSUME NEW j \in Controllers, NEW q \in Requests
               PROVE  /\ token'[j][q] >= 0
                      /\ token'[j][q] > 0 => token'[j][q] <= MaxCount(j, args[q][j])
    BY <1>3 DEF TokensInBucket, MaxCount, TokenCount, Controllers
  <2>1. CASE token'[j][q] = token[j][q]
    BY <2>1 DEF IInv, TokensInBucket
  <2>2. CASE j = k /\ q = p /\ token'[j][q] = n
    BY <1>1, <1>5, <2>2
  <2>3. QED
    BY <1>6, <2>1, <2>2
<1>11. QED
  BY <1>7, <1>8, <1>9, <1>10 DEF KeepsBuckets

\* Nothing but a moment is written.
LEMMA TimeKeeps ==
  ASSUME IInv, NEW k \in Controllers, NEW p, NEW t \in Int,
         time' = time \/ time' = [time EXCEPT ![k][p] = t],
         UNCHANGED <<caches, token, tcs, request>>
  PROVE  KeepsBuckets
<1>1. UNCHANGED <<timeCounter, tokenCounter, concurrentCounter>>
  BY DEF caches
<1>2. time' \in [Controllers -> [Requests -> Int]]
  BY DEF IInv, Ranges, Stores
<1>3. Stores'
  BY <1>1, <1>2 DEF IInv, Ranges, Stores, AreCaches, Controllers
<1>4. QED
  BY <1>1, <1>3, QuietKeeps

\* A step on neither the caches nor the moments and tokens.
LEMMA UntouchedKeeps ==
  ASSUME IInv, UNCHANGED <<caches, time, token, tcs, request>>
  PROVE  KeepsBuckets
<1>1. UNCHANGED <<timeCounter, tokenCounter, concurrentCounter>>
  BY DEF caches
<1>2. Stores'
  BY <1>1 DEF IInv, Ranges, Stores, AreCaches, Controllers
<1>3. QED
  BY <1>1, <1>2, QuietKeeps

-----------------------------------------------------------------------------
(* The steps of PerformChecking                                             *)

\* A request that goes on in the loop with the same controller is in order when
\* it is so in what changes: the counter it takes and the value it will write.
LEMMA LoopMoves ==
  ASSUME IInv, NEW r \in Requests, NEW p \in Loop \ {"readClock"}, NEW l \in Locals,
         pc[r] \in Loop, UNCHANGED <<tcs, request>>,
         pc' = [pc EXCEPT ![r] = p], at' = at, local' = [local EXCEPT ![r] = l],
         p \in BucketOnly => Rule(r).behavior = "Reject",
         pc[r] = "readClock" =>
           /\ TokenCount(at[r], Arg(r)) > 0
           /\ Rule(r).behavior = "Reject" => batch[r] <= MaxCount(at[r], Arg(r)),
         p = "loadTime" => l.last \in Requests,
         p \in {"loadOld", "swapRefill", "loadRest", "swapSpend"}
           => CounterFor(at[r], Arg(r), l.rest),
         p \in {"swapRefill", "swapSpend"} => l.new \in 0..MaxCount(at[r], Arg(r))
  PROVE  Moves(r)
<1>1. /\ UNCHANGED <<tcs, args, batch>> /\ Controllers' = Controllers
      /\ pc'[r] = p /\ at'[r] = at[r] /\ local'[r] = l
  BY DEF IInv, Ranges, request, Controllers
<1>2. /\ Arg(r)' = Arg(r) /\ Rule(r)' = Rule(r)
      /\ TokenCount(at[r], Arg(r))' = TokenCount(at[r], Arg(r))
      /\ MaxCount(at[r], Arg(r))' = MaxCount(at[r], Arg(r))
  BY <1>1 DEF Arg, Rule, MaxCount, TokenCount
<1>3. p \in PCs \ {"new"} /\ p \notin Asking
  BY DEF Loop, BucketOnly, Asking, PCs, InQPS
<1>4. CounterFor(at[r], Arg(r), l.rest) => CounterFor(at[r], Arg(r), local[r].rest)'
  BY <1>1, <1>2, <1>3 DEF IInv, Ranges, CounterFor
<1>5. InOrder(r)
  BY DEF IInv
<1>6. /\ at[r] \in Controllers /\ Arg(r) \in Args
      /\ TokenCount(at[r], Arg(r)) > 0
      /\ Rule(r).behavior = "Reject" => batch[r] <= MaxCount(at[r], Arg(r))
      /\ Rule(r).metric = "QPS"
  BY <1>5 DEF InOrder
<1>7. InOrder(r)'
  BY <1>1, <1>2, <1>3, <1>4, <1>6 DEF InOrder
<1>8. QED
  BY <1>3, <1>7, StaysMoves DEF IInv

\* The refusals before the loop, and the clock.
LEMMA ReadClockKeeps ==
  ASSUME IInv, NEW r \in Requests, ReadClock(r), UNCHANGED <<clock, tcs, request>>
  PROVE  IInv'
<1>1. KeepsBuckets
  BY UntouchedKeeps DEF ReadClock, values
<1>2. Moves(r)
  <2>1. CASE Blocked(r)
    BY <2>1, BlockedMoves DEF IInv
  <2>2. CASE ~Blocked(r)
    <3> DEFINE l == [NoLocals EXCEPT !.now = clock]
    <3>1. /\ TokenCount(at[r], Arg(r)) > 0
          /\ Rule(r).behavior = "Reject" => batch[r] <= MaxCount(at[r], Arg(r))
          /\ Remember(r, "addTime", l)
      BY <2>2 DEF ReadClock
    <3>2. l \in Locals
      BY DEF IInv, Ranges, NoLocals, Locals, Nil
    <3>3. pc' = [pc EXCEPT ![r] = "addTime"] /\ at' = at /\ local' = [local EXCEPT ![r] = l]
      BY <3>1 DEF Remember, Move
    <3> HIDE DEF l
    <3>4. QED
      BY <3>1, <3>2, <3>3, LoopMoves DEF ReadClock, Loop, BucketOnly
  <2>3. QED
    BY <2>1, <2>2
<1>3. QED
  BY <1>1, <1>2, StepKeeps DEF ReadClock

\* The moment of a new argument, or the one that is there.
LEMMA AddTimeKeeps ==
  ASSUME IInv, NEW r \in Requests, AddTime(r), UNCHANGED <<clock, tcs, request>>
  PROVE  IInv'
<1> DEFINE k == at[r]
           d == AddIfAbsent(timeCounter[k], Rule(r).capacity, Arg(r), r)
           prior == timeCounter[k].items[Arg(r)]
<1>1. pc[r] = "addTime" /\ k \in Controllers /\ Arg(r) \in Args
  BY DEF AddTime, IInv, InOrder, Loop
<1>2. IsCache(timeCounter[k])
  BY <1>1 DEF IInv, Ranges, Stores, AreCaches
<1>3. IsCache(d)
  <2> HIDE DEF k
  <2>1. QED
    BY <1>1, <1>2, AddIfAbsentPointers
<1>4. timeCounter' = [timeCounter EXCEPT ![k] = d]
      /\ UNCHANGED <<tokenCounter, concurrentCounter, token, tcs, args>>
  BY DEF AddTime, request
<1>5. local[r] \in Locals /\ local[r].now \in Int
  BY DEF IInv, Ranges, Locals
<1> HIDE DEF d
<1>6. time' \in [Controllers -> [Requests -> Int]]
  <2>1. time \in [Controllers -> [Requests -> Int]]
    BY DEF IInv, Ranges, Stores
  <2>2. CASE time' = time
    BY <2>1, <2>2
  <2>3. CASE time' = [time EXCEPT ![k][r] = local[r].now]
    <3> HIDE DEF k
    <3>1. QED
      BY <1>1, <1>5, <2>1, <2>3, WriteOne
  <2>4. QED
    BY <2>2, <2>3 DEF AddTime
<1>7. Stores'
  <2>1. AreCaches(timeCounter)'
    BY <1>3, <1>4 DEF IInv, Ranges, Stores, AreCaches, Controllers
  <2>2. QED
    BY <1>4, <1>6, <2>1 DEF IInv, Ranges, Stores, AreCaches, Controllers
<1>8. KeepsBuckets
  BY <1>4, <1>7, QuietKeeps
<1>9. Moves(r)
  <2>1. CASE Granted(r, local[r].now)
    BY <1>4, <2>1, GrantedMoves DEF IInv
  <2>2. CASE Rule(r).behavior = "Reject" /\ Continue(r, "firstTokens")
    <3>1. pc' = [pc EXCEPT ![r] = "firstTokens"] /\ at' = at
          /\ local' = [local EXCEPT ![r] = local[r]]
      BY <2>2 DEF Continue, Move, IInv, Ranges
    <3>2. QED
      BY <1>1, <1>5, <2>2, <3>1, LoopMoves DEF Loop, BucketOnly
  <2>3. CASE prior # Nil /\ Remember(r, "loadTime", [local[r] EXCEPT !.last = prior])
    <3> DEFINE l == [local[r] EXCEPT !.last = prior]
    <3>1. prior \in Requests
      BY <1>1, <1>2, <2>3 DEF IsCache
    <3>2. l \in Locals /\ l.last = prior
      BY <1>5, <3>1 DEF Locals
    <3>3. pc' = [pc EXCEPT ![r] = "loadTime"] /\ at' = at /\ local' = [local EXCEPT ![r] = l]
      BY <2>3 DEF Remember, Move
    <3> HIDE DEF l, prior
    <3>4. QED
      BY <1>1, <3>1, <3>2, <3>3, LoopMoves DEF Loop, BucketOnly
  <2>4. QED
    BY <2>1, <2>2, <2>3 DEF AddTime
<1>10. QED
  BY <1>1, <1>8, <1>9, StepKeeps

\* The first tokens of an argument.
LEMMA FirstTokensKeeps ==
  ASSUME IInv, NEW r \in Requests, FirstTokens(r), UNCHANGED <<clock, tcs, request>>
  PROVE  IInv'
<1>1. Moves(r)
  BY GrantedMoves DEF FirstTokens, request, IInv
<1>2. KeepsBuckets
  BY AddTokensKeeps DEF FirstTokens
<1>3. QED
  BY <1>1, <1>2, StepKeeps DEF FirstTokens

\* Refill or spend, queue or block: the moment decides.
LEMMA LoadTimeKeeps ==
  ASSUME IInv, NEW r \in Requests, LoadTime(r), UNCHANGED <<clock, tcs, request>>
  PROVE  IInv'
<1>1. KeepsBuckets
  BY UntouchedKeeps DEF LoadTime, values
<1>2. /\ pc[r] = "loadTime" /\ pc[r] \in Loop /\ pc[r] # "readClock"
      /\ at[r] \in Controllers /\ Arg(r) \in Args
      /\ local[r].last \in Requests /\ TokenCount(at[r], Arg(r)) > 0
  BY DEF LoadTime, IInv, InOrder, Loop
<1>3. local[r] \in Locals /\ local[r].now \in Int /\ time[at[r]][local[r].last] \in Int
  BY <1>2 DEF IInv, Ranges, Locals, Stores
<1>4. PassTime(r) \in Int
  BY <1>3 DEF PassTime
<1>5. Expected(r) \in Int
  <2>1. /\ TokenCount(at[r], Arg(r)) \in Int /\ Rule(r).durationInSec \in Int /\ batch[r] \in Int
    BY <1>2, MaxCountInt DEF IInv, Ranges, Rule
  <2>2. batch[r] * Rule(r).durationInSec \in Int
    BY <2>1
  <2>3. IntervalCost(r) \in Int
    BY <1>2, <2>1, <2>2 DEF IntervalCost
  <2>4. QED
    BY <1>3, <2>3 DEF Expected
<1>6. Moves(r)
  <2>1. CASE Blocked(r)
    BY <2>1, BlockedMoves DEF IInv
  <2>2. CASE Rule(r).behavior = "Reject" /\ Continue(r, "spend")
    <3>1. pc' = [pc EXCEPT ![r] = "spend"] /\ at' = at /\ local' = [local EXCEPT ![r] = local[r]]
      BY <2>2 DEF Continue, Move, IInv, Ranges
    <3>2. QED
      BY <1>2, <1>3, <2>2, <3>1, LoopMoves DEF Loop, BucketOnly
  <2>3. CASE Rule(r).behavior = "Reject" /\ Remember(r, "refill", [local[r] EXCEPT !.new = PassTime(r)])
    <3> DEFINE l == [local[r] EXCEPT !.new = PassTime(r)]
    <3>1. l \in Locals
      BY <1>3, <1>4 DEF Locals
    <3>2. pc' = [pc EXCEPT ![r] = "refill"] /\ at' = at /\ local' = [local EXCEPT ![r] = l]
      BY <2>3 DEF Remember, Move
    <3> HIDE DEF l
    <3>3. QED
      BY <1>2, <2>3, <3>1, <3>2, LoopMoves DEF Loop, BucketOnly
  <2>4. CASE Remember(r, "swapTime", [local[r] EXCEPT !.old = time[at[r]][local[r].last],
                                                      !.new = Expected(r)])
    <3> DEFINE l == [local[r] EXCEPT !.old = time[at[r]][local[r].last], !.new = Expected(r)]
    <3>1. l \in Locals
      BY <1>3, <1>5 DEF Locals
    <3>2. pc' = [pc EXCEPT ![r] = "swapTime"] /\ at' = at /\ local' = [local EXCEPT ![r] = l]
      BY <2>4 DEF Remember, Move
    <3> HIDE DEF l
    <3>3. QED
      BY <1>2, <3>1, <3>2, LoopMoves DEF Loop, BucketOnly
  <2>5. QED
    BY <2>1, <2>2, <2>3, <2>4 DEF LoadTime
<1>7. QED
  BY <1>1, <1>2, <1>6, StepKeeps

\* New tokens, or the ones that are there.
LEMMA RefillKeeps ==
  ASSUME IInv, NEW r \in Requests, Refill(r), UNCHANGED <<clock, tcs, request>>
  PROVE  IInv'
<1> DEFINE prior == tokenCounter[at[r]].items[Arg(r)]
<1>1. KeepsBuckets
  BY AddTokensKeeps DEF Refill
<1>2. /\ pc[r] = "refill" /\ pc[r] \in Loop /\ pc[r] # "readClock"
      /\ at[r] \in Controllers /\ Arg(r) \in Args /\ Rule(r).behavior = "Reject"
  BY DEF Refill, IInv, InOrder, Loop, BucketOnly
<1>3. local[r] \in Locals
  BY DEF IInv, Ranges
<1>4. Moves(r)
  <2>1. CASE Continue(r, "stamp")
    <3>1. pc' = [pc EXCEPT ![r] = "stamp"] /\ at' = at /\ local' = [local EXCEPT ![r] = local[r]]
      BY <2>1 DEF Continue, Move, IInv, Ranges
    <3>2. QED
      BY <1>2, <1>3, <3>1, LoopMoves DEF Loop, BucketOnly
  <2>2. CASE prior # Nil /\ Remember(r, "loadOld", [local[r] EXCEPT !.rest = prior])
    <3> DEFINE l == [local[r] EXCEPT !.rest = prior]
    <3>1. CounterFor(at[r], Arg(r), prior)
      BY <1>2, <2>2 DEF IInv, Owned, Holds
    <3>2. l \in Locals /\ l.rest = prior
      BY <1>3, <3>1 DEF Locals, CounterFor
    <3>3. pc' = [pc EXCEPT ![r] = "loadOld"] /\ at' = at /\ local' = [local EXCEPT ![r] = l]
      BY <2>2 DEF Remember, Move
    <3> HIDE DEF l, prior
    <3>4. QED
      BY <1>2, <3>1, <3>2, <3>3, LoopMoves DEF Loop, BucketOnly
  <2>3. QED
    BY <2>1, <2>2 DEF Refill
<1>5. QED
  BY <1>1, <1>2, <1>4, StepKeeps

\* What time has added, no more than the bucket takes and no less than nothing.
LEMMA LoadOldKeeps ==
  ASSUME IInv, NEW r \in Requests, LoadOld(r), UNCHANGED <<clock, tcs, request>>
  PROVE  IInv'
<1> DEFINE k == at[r]
           m == MaxCount(k, Arg(r))
           restQps == token[k][local[r].rest]
           toAdd == (local[r].new * TokenCount(k, Arg(r))) \div Rule(r).durationInSec
           newQps == Smaller(toAdd + restQps, m) - batch[r]
<1>1. KeepsBuckets
  BY UntouchedKeeps DEF LoadOld, values
<1>2. /\ pc[r] = "loadOld" /\ pc[r] \in Loop /\ pc[r] # "readClock"
      /\ k \in Controllers /\ Arg(r) \in Args /\ Rule(r).behavior = "Reject"
      /\ CounterFor(k, Arg(r), local[r].rest) /\ Rule(r).metric = "QPS"
  BY DEF LoadOld, IInv, InOrder, Loop, BucketOnly
<1>3. local[r] \in Locals /\ local[r].new \in Int /\ restQps \in Int /\ batch[r] \in Nat \ {0}
  BY <1>2 DEF IInv, Ranges, Locals, Stores, CounterFor
<1>4. TokenCount(k, Arg(r)) \in Int /\ m \in Int /\ Rule(r).durationInSec \in Nat \ {0}
  BY <1>2, MaxCountInt DEF IInv, Ranges, Rule
<1>5. toAdd \in Int
  <2>1. local[r].new * TokenCount(k, Arg(r)) \in Int
    BY <1>3, <1>4
  <2>2. QED
    BY <1>4, <2>1
<1> HIDE DEF m, restQps, toAdd
<1>6. newQps \in Int /\ newQps <= m
  BY <1>3, <1>4, <1>5 DEF Smaller
<1>7. Moves(r)
  <2>1. CASE Blocked(r)
    BY <2>1, BlockedMoves DEF IInv
  <2>2. CASE ~(newQps < 0)
             /\ Remember(r, "swapRefill", [local[r] EXCEPT !.old = restQps, !.new = newQps])
    <3> DEFINE l == [local[r] EXCEPT !.old = restQps, !.new = newQps]
    <3>1. newQps \in 0..m
      BY <1>4, <1>6, <2>2
    <3> HIDE DEF newQps
    <3>2. l \in Locals /\ l.rest = local[r].rest /\ l.new = newQps
      BY <1>3, <1>6 DEF Locals
    <3>3. pc' = [pc EXCEPT ![r] = "swapRefill"] /\ at' = at /\ local' = [local EXCEPT ![r] = l]
      BY <2>2 DEF Remember, Move
    <3> HIDE DEF l
    <3>4. QED
      BY <1>2, <3>1, <3>2, <3>3, LoopMoves DEF Loop, BucketOnly, m
  <2>3. QED
    BY <2>1, <2>2 DEF LoadOld, restQps, toAdd, m
<1>8. QED
  BY <1>1, <1>2, <1>7, StepKeeps

\* The swap of a refill.
LEMMA SwapRefillKeeps ==
  ASSUME IInv, NEW r \in Requests, SwapRefill(r), UNCHANGED <<clock, tcs, request>>
  PROVE  IInv'
<1>1. KeepsBuckets
  BY SwapKeeps DEF SwapRefill
<1>2. /\ pc[r] = "swapRefill" /\ pc[r] \in Loop /\ pc[r] # "readClock"
      /\ Rule(r).behavior = "Reject" /\ InOrder(r)
  BY DEF SwapRefill, IInv, InOrder, Loop, BucketOnly
<1>3. Moves(r)
  <2>1. CASE Continue(r, "stamp")
    <3>1. pc' = [pc EXCEPT ![r] = "stamp"] /\ at' = at /\ local' = [local EXCEPT ![r] = local[r]]
      BY <2>1 DEF Continue, Move, IInv, Ranges
    <3>2. local[r] \in Locals
      BY DEF IInv, Ranges
    <3>3. QED
      BY <1>2, <3>1, <3>2, LoopMoves DEF Loop, BucketOnly
  <2>2. CASE Again(r)
    BY <1>2, <2>2, AgainMoves DEF IInv, request
  <2>3. QED
    BY <2>1, <2>2 DEF SwapRefill
<1>4. QED
  BY <1>1, <1>2, <1>3, StepKeeps

\* The moment of a refill.
LEMMA StampKeeps ==
  ASSUME IInv, NEW r \in Requests, Stamp(r), UNCHANGED <<clock, tcs, request>>
  PROVE  IInv'
<1>1. at[r] \in Controllers /\ local[r].now \in Int /\ pc[r] # "new"
  BY DEF Stamp, IInv, InOrder, Loop, BucketOnly, Ranges, Locals
<1>2. KeepsBuckets
  BY <1>1, TimeKeeps DEF Stamp
<1>3. Moves(r)
  BY GrantedMoves DEF Stamp, request, IInv
<1>4. QED
  BY <1>1, <1>2, <1>3, StepKeeps

\* The tokens within the window, if the cache has them.
LEMMA SpendKeeps ==
  ASSUME IInv, NEW r \in Requests, Spend(r), UNCHANGED <<clock, tcs, request>>
  PROVE  IInv'
<1> DEFINE k == at[r]
           d == Get(tokenCounter[k], Arg(r))
           prior == tokenCounter[k].items[Arg(r)]
<1>1. /\ pc[r] = "spend" /\ pc[r] \in Loop /\ pc[r] # "readClock" /\ InOrder(r)
      /\ k \in Controllers /\ Arg(r) \in Args /\ Rule(r).behavior = "Reject"
  BY DEF Spend, IInv, InOrder, Loop, BucketOnly
<1>2. IsCache(d) /\ d.items = tokenCounter[k].items
  <2>1. IsCache(tokenCounter[k])
    BY <1>1 DEF IInv, Ranges, Stores, AreCaches
  <2> HIDE DEF k
  <2>2. QED
    BY <2>1, GetPointers
<1>3. tokenCounter' = [tokenCounter EXCEPT ![k] = d]
      /\ UNCHANGED <<timeCounter, concurrentCounter, time, token, tcs, args>>
  BY DEF Spend, values, request
<1> HIDE DEF d
<1>4. Stores'
  <2>1. AreCaches(tokenCounter)'
    BY <1>2, <1>3 DEF IInv, Ranges, Stores, AreCaches, Controllers
  <2>2. QED
    BY <1>3, <2>1 DEF IInv, Ranges, Stores, AreCaches, Controllers
<1>5. \A j \in Controllers : tokenCounter'[j].items = tokenCounter[j].items
  BY <1>2, <1>3 DEF IInv, Ranges, Stores, AreCaches
<1>6. KeepsBuckets
  BY <1>3, <1>4, <1>5, QuietKeeps
<1>7. Moves(r)
  <2>1. CASE Again(r)
    BY <1>1, <1>3, <2>1, AgainMoves DEF IInv
  <2>2. CASE prior # Nil /\ Remember(r, "loadRest", [local[r] EXCEPT !.rest = prior])
    <3> DEFINE l == [local[r] EXCEPT !.rest = prior]
    <3>1. CounterFor(k, Arg(r), prior)
      BY <1>1, <2>2 DEF IInv, Owned, Holds
    <3>2. l \in Locals /\ l.rest = prior
      BY <3>1 DEF IInv, Ranges, Locals, CounterFor
    <3>3. pc' = [pc EXCEPT ![r] = "loadRest"] /\ at' = at /\ local' = [local EXCEPT ![r] = l]
      BY <2>2 DEF Remember, Move
    <3> HIDE DEF l, prior
    <3>4. QED
      BY <1>1, <3>1, <3>2, <3>3, LoopMoves DEF Loop, BucketOnly
  <2>3. QED
    BY <2>1, <2>2 DEF Spend
<1>8. QED
  BY <1>1, <1>6, <1>7, StepKeeps

\* What is left, if that is enough.
LEMMA LoadRestKeeps ==
  ASSUME IInv, NEW r \in Requests, LoadRest(r), UNCHANGED <<clock, tcs, request>>
  PROVE  IInv'
<1> DEFINE k == at[r]
           m == MaxCount(k, Arg(r))
           oldRest == token[k][local[r].rest]
<1>1. KeepsBuckets
  BY UntouchedKeeps DEF LoadRest, values
<1>2. /\ pc[r] = "loadRest" /\ pc[r] \in Loop /\ pc[r] # "readClock"
      /\ k \in Controllers /\ Arg(r) \in Args /\ Rule(r).behavior = "Reject"
      /\ CounterFor(k, Arg(r), local[r].rest)
  BY DEF LoadRest, IInv, InOrder, Loop, BucketOnly
<1>3. local[r] \in Locals /\ oldRest \in Int /\ batch[r] \in Nat \ {0} /\ m \in Int
  BY <1>2, MaxCountInt DEF IInv, Ranges, Locals, Stores, CounterFor
<1>4. oldRest > 0 => oldRest <= m
  BY <1>2 DEF IInv, TokensInBucket, CounterFor
<1> HIDE DEF m, oldRest
<1>5. Moves(r)
  <2>1. CASE Blocked(r)
    BY <2>1, BlockedMoves DEF IInv
  <2>2. CASE ~(oldRest < batch[r])
             /\ Remember(r, "swapSpend", [local[r] EXCEPT !.old = oldRest, !.new = oldRest - batch[r]])
    <3> DEFINE n == oldRest - batch[r]
               l == [local[r] EXCEPT !.old = oldRest, !.new = n]
    <3>1. n \in Int /\ n \in 0..m
      BY <1>3, <1>4, <2>2
    <3>2. pc' = [pc EXCEPT ![r] = "swapSpend"] /\ at' = at /\ local' = [local EXCEPT ![r] = l]
      BY <2>2 DEF Remember, Move
    <3> HIDE DEF n
    <3>3. l \in Locals /\ l.rest = local[r].rest /\ l.new = n
      BY <1>3, <3>1 DEF Locals
    <3> HIDE DEF l
    <3>4. QED
      BY <1>2, <3>1, <3>2, <3>3, LoopMoves DEF Loop, BucketOnly, m
  <2>3. QED
    BY <2>1, <2>2 DEF LoadRest, oldRest
<1>6. QED
  BY <1>1, <1>2, <1>5, StepKeeps

\* The swap of a spending.
LEMMA SwapSpendKeeps ==
  ASSUME IInv, NEW r \in Requests, SwapSpend(r), UNCHANGED <<clock, tcs, request>>
  PROVE  IInv'
<1>1. KeepsBuckets
  BY SwapKeeps DEF SwapSpend
<1>2. pc[r] = "swapSpend" /\ pc[r] \in Loop /\ InOrder(r)
  BY DEF SwapSpend, IInv, Loop, BucketOnly
<1>3. Moves(r)
  BY <1>2, GrantedMoves, AgainMoves DEF SwapSpend, request, IInv
<1>4. QED
  BY <1>1, <1>2, <1>3, StepKeeps

\* Throttling: the present takes the place of the end of the queue.
LEMMA SwapTimeKeeps ==
  ASSUME IInv, NEW r \in Requests, SwapTime(r), UNCHANGED <<clock, tcs, request>>
  PROVE  IInv'
<1>1. /\ pc[r] = "swapTime" /\ pc[r] \in Loop /\ pc[r] # "readClock" /\ InOrder(r)
      /\ at[r] \in Controllers /\ local[r] \in Locals /\ local[r].now \in Int
  BY DEF SwapTime, IInv, InOrder, Loop, BucketOnly, Ranges, Locals
<1>2. KeepsBuckets
  <2>1. time' = time \/ time' = [time EXCEPT ![at[r]][local[r].last] = local[r].now]
    BY DEF SwapTime
  <2>2. QED
    BY <1>1, <2>1, TimeKeeps DEF SwapTime
<1>3. Moves(r)
  <2>1. CASE Granted(r, local[r].now)
    BY <2>1, GrantedMoves DEF request, IInv
  <2>2. CASE Again(r)
    BY <1>1, <2>2, AgainMoves DEF request, IInv
  <2>3. CASE Continue(r, "stampExpected")
    <3>1. /\ pc' = [pc EXCEPT ![r] = "stampExpected"] /\ at' = at
          /\ local' = [local EXCEPT ![r] = local[r]]
      BY <2>3 DEF Continue, Move, IInv, Ranges
    <3>2. QED
      BY <1>1, <3>1, LoopMoves DEF Loop, BucketOnly
  <2>4. QED
    BY <2>1, <2>2, <2>3 DEF SwapTime
<1>4. QED
  BY <1>1, <1>2, <1>3, StepKeeps

\* Throttling: the end of the queue, and to sleep.
LEMMA StampExpectedKeeps ==
  ASSUME IInv, NEW r \in Requests, StampExpected(r), UNCHANGED <<clock, tcs, request>>
  PROVE  IInv'
<1> DEFINE wake == Smaller(clock + local[r].new - local[r].now, MaxClock)
           l == [NoLocals EXCEPT !.new = wake]
<1>1. /\ pc[r] = "stampExpected" /\ at[r] \in Controllers
      /\ local[r].new \in Int /\ local[r].now \in Int /\ clock \in Int
  BY DEF StampExpected, IInv, InOrder, Loop, BucketOnly, Ranges, Locals
<1>2. KeepsBuckets
  BY <1>1, TimeKeeps DEF StampExpected
<1>3. wake \in Int
  BY <1>1, HotSpotAssumption DEF Smaller
<1>4. pc' = [pc EXCEPT ![r] = "sleeping"] /\ at' = at /\ local' = [local EXCEPT ![r] = l]
  BY DEF StampExpected, Move
<1> HIDE DEF wake
<1>5. l \in Locals
  BY <1>3 DEF NoLocals, Locals, Nil
<1>6. "sleeping" \in PCs \ {"new"}
  BY DEF PCs, InQPS
<1>7. InOrder(r)'
  <2>1. pc'[r] = "sleeping"
    BY <1>4 DEF IInv, Ranges
  <2>2. QED
    BY <2>1 DEF InOrder, Loop, BucketOnly, Asking
<1> HIDE DEF l
<1>8. Moves(r)
  BY <1>4, <1>5, <1>6, <1>7, StaysMoves DEF IInv
<1>9. QED
  BY <1>1, <1>2, <1>8, StepKeeps

-----------------------------------------------------------------------------
(* The other steps                                                          *)

\* Awake, the request goes on with the next controller.
LEMMA WakeKeeps ==
  ASSUME IInv, NEW r \in Requests, Wake(r), UNCHANGED <<clock, tcs, request>>
  PROVE  IInv'
<1>1. KeepsBuckets
  BY UntouchedKeeps DEF Wake, values
<1>2. at[r] + 1 \in Nat \ {0} /\ args' \in [Requests -> [Controllers -> Args \cup {NoArg}]]
      /\ tcs' = tcs
  BY DEF IInv, Ranges, request
<1>3. Moves(r)
  BY <1>2, GoOnMoves DEF Wake, IInv
<1>4. QED
  BY <1>1, <1>3, StepKeeps DEF Wake

\* A pointer among the caches of concurrency: one of a request, or none.
LEMMA AddConcurrentKeeps ==
  ASSUME IInv, NEW r \in Requests, AddConcurrent(r), UNCHANGED <<clock, tcs, request>>
  PROVE  IInv'
<1> DEFINE k == at[r]
           d == AddIfAbsent(concurrentCounter[k], Rule(r).capacity, Arg(r), r)
           prior == concurrentCounter[k].items[Arg(r)]
<1>1. pc[r] = "addConcurrent" /\ k \in Controllers /\ Arg(r) \in Args
  BY DEF AddConcurrent, IInv, InOrder, Asking
<1>2. IsCache(concurrentCounter[k])
  BY <1>1 DEF IInv, Ranges, Stores, AreCaches
<1>3. IsCache(d)
  <2> HIDE DEF k
  <2>1. QED
    BY <1>1, <1>2, AddIfAbsentPointers
<1>4. concurrentCounter' = [concurrentCounter EXCEPT ![k] = d]
      /\ UNCHANGED <<timeCounter, tokenCounter, time, token, tcs, args>>
  BY DEF AddConcurrent, request
<1> HIDE DEF d
<1>5. Stores'
  <2>1. AreCaches(concurrentCounter)'
    BY <1>3, <1>4 DEF IInv, Ranges, Stores, AreCaches, Controllers
  <2>2. QED
    BY <1>4, <2>1 DEF IInv, Ranges, Stores, AreCaches, Controllers
<1>6. KeepsBuckets
  BY <1>4, <1>5, QuietKeeps
<1>7. Moves(r)
  <2>1. CASE Granted(r, Never)
    BY <1>4, <2>1, GrantedMoves DEF IInv
  <2>2. CASE prior # Nil /\ Remember(r, "loadConcurrent", [local[r] EXCEPT !.rest = prior])
    <3> DEFINE l == [local[r] EXCEPT !.rest = prior]
    <3>1. prior \in Requests
      BY <1>1, <1>2, <2>2 DEF IsCache
    <3>2. l \in Locals
      BY <3>1 DEF IInv, Ranges, Locals
    <3>3. /\ pc' = [pc EXCEPT ![r] = "loadConcurrent"] /\ at' = at
          /\ local' = [local EXCEPT ![r] = l]
      BY <2>2 DEF Remember, Move
    <3>4. InOrder(r)'
      <4>1. pc'[r] = "loadConcurrent"
        BY <3>3 DEF IInv, Ranges
      <4>2. QED
        BY <4>1 DEF InOrder, Loop, BucketOnly, Asking
    <3> HIDE DEF l, prior
    <3>5. QED
      BY <3>2, <3>3, <3>4, StaysMoves DEF IInv, PCs, InConcurrency
  <2>3. QED
    BY <2>1, <2>2 DEF AddConcurrent
<1>8. QED
  BY <1>1, <1>6, <1>7, StepKeeps

\* The comparison with the threshold of the concurrency.
LEMMA LoadConcurrentKeeps ==
  ASSUME IInv, NEW r \in Requests, LoadConcurrent(r), UNCHANGED <<clock, tcs, request>>
  PROVE  IInv'
<1>1. KeepsBuckets
  BY UntouchedKeeps DEF LoadConcurrent, values
<1>2. Moves(r)
  BY GrantedMoves, BlockedMoves DEF LoadConcurrent, request, IInv
<1>3. QED
  BY <1>1, <1>2, StepKeeps DEF LoadConcurrent

\* The verdict of the slots.
LEMMA DecideKeeps ==
  ASSUME IInv, NEW r \in Requests, Decide(r), UNCHANGED <<clock, tcs, request>>
  PROVE  IInv'
<1>1. KeepsBuckets
  BY UntouchedKeeps DEF Decide, values
<1>2. Moves(r)
  <2>1. CASE Move(r, "blocked") /\ UNCHANGED at
    <3>1. pc' = [pc EXCEPT ![r] = "blocked"] /\ at' = at /\ local' = [local EXCEPT ![r] = local[r]]
      BY <2>1 DEF Decide, Move, IInv, Ranges
    <3>2. pc'[r] = "blocked" /\ local[r] \in Locals
      BY <3>1 DEF IInv, Ranges
    <3>3. InOrder(r)'
      BY <3>2 DEF InOrder, Loop, BucketOnly, Asking
    <3>4. QED
      BY <3>1, <3>2, <3>3, StaysMoves DEF IInv, PCs
  <2>2. CASE CountOn(r, 1, "passing", "running")
    BY <2>2, CountOnMoves DEF Decide, request, IInv
  <2>3. QED
    BY <2>1, <2>2 DEF Decide
<1>3. QED
  BY <1>1, <1>2, StepKeeps DEF Decide

\* A stat slot looks for a counter.
LEMMA LookUpKeeps ==
  ASSUME IInv, NEW r \in Requests, NEW looking \in {"passing", "completing"},
         NEW adding \in {"addPassed", "addCompleted"}, NEW after \in {"running", "done"},
         LookUp(r, looking, adding, after), UNCHANGED <<clock, tcs, request>>
  PROVE  IInv'
<1> DEFINE k == at[r]
           d == Get(concurrentCounter[k], Arg(r))
           prior == concurrentCounter[k].items[Arg(r)]
<1>1. pc[r] \in Asking /\ pc[r] # "new" /\ k \in Controllers /\ Arg(r) \in Args
  BY DEF LookUp, IInv, InOrder, Asking
<1>2. IsCache(concurrentCounter[k])
  BY <1>1 DEF IInv, Ranges, Stores, AreCaches
<1>3. IsCache(d)
  <2> HIDE DEF k
  <2>1. QED
    BY <1>2, GetPointers
<1>4. concurrentCounter' = [concurrentCounter EXCEPT ![k] = d]
      /\ UNCHANGED <<timeCounter, tokenCounter, time, token, tcs, args>>
  BY DEF LookUp, values, request
<1> HIDE DEF d
<1>5. Stores'
  <2>1. AreCaches(concurrentCounter)'
    BY <1>3, <1>4 DEF IInv, Ranges, Stores, AreCaches, Controllers
  <2>2. QED
    BY <1>4, <2>1 DEF IInv, Ranges, Stores, AreCaches, Controllers
<1>6. KeepsBuckets
  BY <1>4, <1>5, QuietKeeps
<1>7. Moves(r)
  <2>1. CASE CountOn(r, k + 1, looking, after) /\ UNCHANGED local
    <3>1. k + 1 \in Nat \ {0}
      BY DEF IInv, Ranges
    <3> HIDE DEF k
    <3>2. QED
      BY <1>4, <2>1, <3>1, CountOnMoves DEF IInv
  <2>2. CASE /\ prior # Nil /\ Move(r, adding) /\ UNCHANGED at
             /\ local' = [local EXCEPT ![r].rest = prior]
    <3> DEFINE l == [local[r] EXCEPT !.rest = prior]
    <3>1. prior \in Requests
      BY <1>1, <1>2, <2>2 DEF IsCache
    <3>2. l \in Locals
      BY <3>1 DEF IInv, Ranges, Locals
    <3>3. pc' = [pc EXCEPT ![r] = adding] /\ at' = at /\ local' = [local EXCEPT ![r] = l]
      BY <2>2 DEF Move
    <3>4. InOrder(r)'
      <4>1. pc'[r] = adding
        BY <3>3 DEF IInv, Ranges
      <4>2. QED
        BY <4>1 DEF InOrder, Loop, BucketOnly, Asking
    <3> HIDE DEF l, prior
    <3>5. QED
      BY <3>2, <3>3, <3>4, StaysMoves DEF IInv, PCs, InStat
  <2>3. QED
    BY <2>1, <2>2 DEF LookUp
<1>8. QED
  BY <1>1, <1>6, <1>7, StepKeeps

\* A stat slot adds to a counter.
LEMMA AddKeeps ==
  ASSUME IInv, NEW r \in Requests, NEW n, NEW looking \in {"passing", "completing"},
         NEW adding \in {"addPassed", "addCompleted"}, NEW after \in {"running", "done"},
         Add(r, n, adding, looking, after), UNCHANGED <<clock, tcs, request>>
  PROVE  IInv'
<1>1. KeepsBuckets
  BY UntouchedKeeps DEF Add
<1>2. at[r] + 1 \in Nat \ {0}
  BY DEF IInv, Ranges
<1>3. Moves(r)
  BY <1>2, CountOnMoves DEF Add, request, IInv
<1>4. QED
  BY <1>1, <1>3, StepKeeps DEF Add

\* The entry is exited.
LEMMA ExitKeeps ==
  ASSUME IInv, NEW r \in Requests, Exit(r), UNCHANGED <<clock, tcs, request>>
  PROVE  IInv'
<1>1. KeepsBuckets
  BY UntouchedKeeps DEF Exit, values
<1>2. Moves(r)
  BY CountOnMoves DEF Exit, request, IInv
<1>3. QED
  BY <1>1, <1>2, StepKeeps DEF Exit

\* The arguments of a request become known as it arrives: it has no tokens yet.
LEMMA BeginKeeps ==
  ASSUME IInv, NEW r \in Requests, Begin(r)
  PROVE  IInv'
<1>1. /\ pc[r] = "new" /\ GoOn(r, 1)
      /\ UNCHANGED <<clock, tcs, timeCounter, tokenCounter, concurrentCounter, time, token, local>>
      /\ Controllers' = Controllers
  BY DEF Begin, caches, values, Controllers
<1>2. PICK a \in [Controllers -> Args \cup {NoArg}], b \in Batches :
        args' = [args EXCEPT ![r] = a] /\ batch' = [batch EXCEPT ![r] = b]
  <2>1. PICK in \in Inputs, b \in Batches :
          /\ args' = [args EXCEPT ![r] = [k \in Controllers |-> ExtractArgs(tcs[k], in)]]
          /\ batch' = [batch EXCEPT ![r] = b]
    BY DEF Begin
  <2>2. [k \in Controllers |-> ExtractArgs(tcs[k], in)] \in [Controllers -> Args \cup {NoArg}]
    BY HotSpotAssumption DEF IInv, Ranges, Controllers
  <2>3. QED
    BY <2>1, <2>2
<1>3. /\ args' \in [Requests -> [Controllers -> Args \cup {NoArg}]]
      /\ batch' \in [Requests -> Nat \ {0}]
  BY <1>2, HotSpotAssumption DEF IInv, Ranges
<1>4. \A q \in Requests \ {r} : args'[q] = args[q] /\ batch'[q] = batch[q]
  BY <1>2 DEF IInv, Ranges
<1>5. /\ pc' = [pc EXCEPT ![r] = pc'[r]]
      /\ pc'[r] \in {"addConcurrent", "readClock", "checked"}
      /\ at' = [at EXCEPT ![r] = at'[r]] /\ at'[r] \in Nat
      /\ pc'[r] # "checked" => at'[r] \in Controllers /\ args'[r][at'[r]] \in Args
      /\ pc'[r] = "readClock" => tcs[at'[r]].metric = "QPS"
  BY <1>1, <1>3, GoOnPlace DEF IInv
<1>6. Ranges'
  <2>1. pc' \in [Requests -> PCs] /\ at' \in [Requests -> Nat]
    BY <1>5 DEF IInv, Ranges, PCs, InQPS, InConcurrency
  <2>2. Stores'
    BY <1>1 DEF IInv, Ranges, Stores, AreCaches
  <2>3. QED
    BY <1>1, <1>3, <2>1, <2>2 DEF IInv, Ranges
<1>7. ASSUME NEW k, NEW arg, NEW p, CounterFor(k, arg, p)
      PROVE  p # r /\ CounterFor(k, arg, p)'
  BY <1>1, <1>4, <1>5, <1>7 DEF IInv, Ranges, CounterFor
<1>8. Owned'
  BY <1>1, <1>7 DEF IInv, Owned, Holds
<1>9. Fresh'
  BY <1>1, <1>5 DEF IInv, Ranges, Fresh
<1>10. ASSUME NEW q \in Requests
       PROVE  InOrder(q)'
  <2>1. CASE q = r
    BY <1>1, <1>5, <2>1 DEF InOrder, Loop, BucketOnly, Asking, Arg, Rule
  <2>2. CASE q # r
    <3>1. pc'[q] = pc[q] /\ at'[q] = at[q] /\ local'[q] = local[q] /\ args'[q] = args[q]
          /\ batch'[q] = batch[q]
      BY <1>1, <1>4, <1>5, <2>2 DEF IInv, Ranges
    <3>2. /\ Arg(q)' = Arg(q) /\ Rule(q)' = Rule(q)
          /\ TokenCount(at[q], Arg(q))' = TokenCount(at[q], Arg(q))
          /\ MaxCount(at[q], Arg(q))' = MaxCount(at[q], Arg(q))
      BY <1>1, <3>1 DEF Arg, Rule, MaxCount, TokenCount
    <3>3. CounterFor(at[q], Arg(q), local[q].rest) => CounterFor(at[q], Arg(q), local[q].rest)'
      BY <1>1, <1>4, <1>5, <3>1, <3>2 DEF IInv, Ranges, CounterFor
    <3>4. InOrder(q)
      BY DEF IInv
    <3>5. QED
      BY <1>1, <3>1, <3>2, <3>3, <3>4 DEF InOrder
  <2>3. QED
    BY <2>1, <2>2
<1>11. TokensInBucket'
  <2> SUFFICES ASSUME NEW j \in Controllers, NEW q \in Requests
               PROVE  /\ token[j][q] >= 0
                      /\ token[j][q] > 0 => token[j][q] <= MaxCount(j, args'[q][j])
    BY <1>1 DEF TokensInBucket, MaxCount, TokenCount
  <2>1. CASE q = r
    BY <1>1, <2>1 DEF IInv, Fresh
  <2>2. CASE q # r
    BY <1>4, <2>2 DEF IInv, TokensInBucket
  <2>3. QED
    BY <2>1, <2>2
<1>12. QED
  BY <1>6, <1>8, <1>9, <1>10, <1>11 DEF IInv

-----------------------------------------------------------------------------
(* The theorem                                                              *)

\* The initial states are in order.
LEMMA InitOrder == Init => IInv
<1> SUFFICES ASSUME Init PROVE IInv
  OBVIOUS
<1>1. NewLRU = [items |-> NewLRU.items, evictList |-> NewLRU.evictList]
      /\ NewLRU.items = [a \in Args |-> Nil]
  BY DEF NewLRU
<1>2. IsCache(NewLRU)
  BY <1>1 DEF IsCache
<1>3. \A a \in Args : ~Holds(NewLRU, a)
  BY <1>1 DEF Holds
<1> HIDE DEF NewLRU
<1>4. NoLocals \in Locals
  BY DEF NoLocals, Locals, Nil
<1>5. Stores
  BY <1>2 DEF Init, Stores, AreCaches
<1>6. Ranges
  BY <1>4, <1>5, HotSpotAssumption DEF Init, Ranges, PCs
<1>7. Owned
  BY <1>3 DEF Init, Owned
<1>8. Fresh /\ TokensInBucket
  BY DEF Init, Fresh, TokensInBucket
<1>9. \A r \in Requests : InOrder(r)
  BY DEF Init, InOrder, Loop, BucketOnly, Asking
<1>10. QED
  BY <1>6, <1>7, <1>8, <1>9 DEF IInv

\* Every step keeps the order.
LEMMA NextOrder == IInv /\ [Next]_vars => IInv'
<1> SUFFICES ASSUME IInv, [Next]_vars PROVE IInv'
  OBVIOUS
<1>1. ASSUME NEW r \in Requests, Begin(r)
      PROVE  IInv'
  BY <1>1, BeginKeeps
<1>2. ASSUME NEW r \in Requests, Step(r)
      PROVE  IInv'
  <2>1. UNCHANGED <<clock, tcs, request>>
    BY <1>2 DEF Step
  <2>2. CASE OnEntryPassed(r) \/ OnCompleted(r)
    BY <2>1, <2>2, LookUpKeeps DEF OnEntryPassed, OnCompleted
  <2>3. CASE AddPassed(r) \/ AddCompleted(r)
    BY <2>1, <2>3, AddKeeps DEF AddPassed, AddCompleted
  <2>4. QED
    BY <1>2, <2>1, <2>2, <2>3, ReadClockKeeps, AddTimeKeeps, FirstTokensKeeps, LoadTimeKeeps,
       RefillKeeps, LoadOldKeeps, SwapRefillKeeps, StampKeeps, SpendKeeps, LoadRestKeeps,
       SwapSpendKeeps, SwapTimeKeeps, StampExpectedKeeps, WakeKeeps, AddConcurrentKeeps,
       LoadConcurrentKeeps, DecideKeeps, ExitKeeps
       DEF Step
<1>3. ASSUME UNCHANGED <<tcs, caches, values, pc, request, at, local>>, clock' \in Int
      PROVE  IInv'
  <2>1. /\ UNCHANGED <<tcs, timeCounter, tokenCounter, concurrentCounter, time, token,
                        pc, args, batch, at, local>>
        /\ Controllers' = Controllers
    BY <1>3 DEF caches, values, request, Controllers
  <2>2. Ranges'
    BY <1>3, <2>1 DEF IInv, Ranges, Stores, AreCaches
  <2>3. Owned' /\ Fresh'
    BY <2>1 DEF IInv, Owned, Fresh, CounterFor, Holds
  <2>4. TokensInBucket'
    BY <2>1 DEF IInv, TokensInBucket, MaxCount, TokenCount
  <2>5. \A r \in Requests : InOrder(r)'
    BY <2>1 DEF IInv, InOrder, Arg, Rule, MaxCount, TokenCount, CounterFor
  <2>6. QED
    BY <2>2, <2>3, <2>4, <2>5 DEF IInv
<1>4. CASE Tick
  BY <1>3, <1>4 DEF Tick, IInv, Ranges
<1>5. CASE UNCHANGED vars
  BY <1>3, <1>5 DEF vars, IInv, Ranges
<1>6. QED
  BY <1>1, <1>2, <1>4, <1>5 DEF Next, Finished

\* The token buckets never hold less than nothing nor more than the rule allows
\* for the argument, whoever races with whom for a counter, a refill or a swap
\* (PerformChecking of rejectTrafficShapingController).
THEOREM TokensAlwaysInBucket == Spec => []TokensInBucket
<1>1. IInv => TokensInBucket
  BY DEF IInv
<1>2. QED
  BY <1>1, InitOrder, NextOrder, PTL DEF Spec

-----------------------------------------------------------------------------
(* The list of a cache                                                      *)

\* A list of keys without repetition.
IsList(s) == s \in Seq(Args) /\ \A i, j \in 1..Len(s) : s[i] = s[j] => i = j

\* Moving a key to the front, or pushing it there, repeats none and loses none.
LEMMA ToFrontList ==
  ASSUME NEW s, IsList(s), NEW key \in Args
  PROVE  LET t == ToFront(s, key)
         IN  /\ IsList(t)
             /\ ToSet(t) = ToSet(s) \cup {key}
             /\ Len(t) = IF key \in ToSet(s) THEN Len(s) ELSE Len(s) + 1
             /\ t[1] = key
<1> DEFINE t == ToFront(s, key)
<1>1. s \in Seq(Args) /\ Len(s) \in Nat /\ DOMAIN s = 1..Len(s) /\ \A i \in 1..Len(s) : s[i] \in Args
  BY LenProperties DEF IsList
<1>2. <<key>> \in Seq(Args) /\ Len(<<key>>) = 1 /\ <<key>>[1] = key
  OBVIOUS
<1>3. ToSet(s) = {s[i] : i \in 1..Len(s)}
  BY <1>1 DEF ToSet
<1>4. CASE key \notin ToSet(s)
  <2>1. t = <<key>> \o s
    BY <1>4 DEF ToFront
  <2>2. /\ t \in Seq(Args) /\ Len(t) = 1 + Len(s)
        /\ \A i \in 1..(1 + Len(s)) : t[i] = IF i <= 1 THEN <<key>>[i] ELSE s[i - 1]
    BY <1>1, <1>2, <2>1, ConcatProperties
  <2> HIDE DEF t
  <2>3. \A i \in 1..(1 + Len(s)) : t[i] = IF i = 1 THEN key ELSE s[i - 1]
    BY <1>1, <1>2, <2>2
  <2>4. \A i \in 2..(1 + Len(s)) : t[i] = s[i - 1] /\ i - 1 \in 1..Len(s)
    BY <1>1, <2>3
  <2>5. t[1] = key
    BY <1>1, <2>3
  <2>6. \A i \in 1..Len(s) : t[i + 1] = s[i]
    BY <1>1, <2>3
  <2>7. DOMAIN t = 1..Len(t)
    BY <2>2, LenProperties
  <2>8. ToSet(t) = ToSet(s) \cup {key}
    <3>1. ASSUME NEW i \in 1..Len(t) PROVE t[i] \in ToSet(s) \cup {key}
      <4>1. CASE i = 1
        BY <2>5, <4>1
      <4>2. CASE i # 1
        <5>1. i \in 2..(1 + Len(s))
          BY <1>1, <2>2, <4>2
        <5>2. QED BY <1>3, <2>4, <5>1
      <4>3. QED BY <4>1, <4>2
    <3>2. ASSUME NEW i \in 1..Len(s) PROVE s[i] \in {t[j] : j \in 1..Len(t)}
      <4>1. i + 1 \in 1..Len(t)
        BY <1>1, <2>2
      <4>2. QED BY <2>6, <4>1
    <3>3. key \in {t[j] : j \in 1..Len(t)}
      BY <1>1, <2>2, <2>5
    <3>4. ToSet(t) = {t[j] : j \in 1..Len(t)}
      BY <2>7 DEF ToSet
    <3>5. QED BY <1>3, <3>1, <3>2, <3>3, <3>4
  <2>9. ASSUME NEW i \in 1..Len(t), NEW j \in 1..Len(t), t[i] = t[j] PROVE i = j
    <3>1. \A n \in 1..Len(s) : s[n] # key
      BY <1>3, <1>4
    <3>2. CASE i = 1 \/ j = 1
      BY <1>1, <2>2, <2>4, <2>5, <2>9, <3>1, <3>2
    <3>3. CASE i # 1 /\ j # 1
      <4>1. i - 1 \in 1..Len(s) /\ j - 1 \in 1..Len(s) /\ s[i - 1] = s[j - 1]
        BY <1>1, <2>2, <2>3, <2>9, <3>3
      <4>2. i - 1 = j - 1
        BY <4>1 DEF IsList
      <4>3. QED BY <1>1, <2>2, <4>2
    <3>4. QED BY <3>2, <3>3
  <2>10. IsList(t)
    BY <2>2, <2>9 DEF IsList
  <2>11. QED BY <1>4, <2>2, <2>5, <2>8, <2>10, <1>1 DEF t
<1>5. CASE key \in ToSet(s)
  <2> DEFINE n == CHOOSE i \in DOMAIN s : s[i] = key
             u == SubSeq(s, 1, n - 1)
             v == SubSeq(s, n + 1, Len(s))
  <2>1. n \in 1..Len(s) /\ s[n] = key
    BY <1>1, <1>3, <1>5
  <2>2. t = <<key>> \o (u \o v)
    BY <1>5 DEF ToFront, RemoveAt
  <2> HIDE DEF t, n
  <2>3. /\ u \in Seq(Args) /\ Len(u) = n - 1 /\ \A i \in 1..(n - 1) : u[i] = s[i]
    <3>1. /\ u \in Seq(Args) /\ Len(u) = IF 1 <= n - 1 THEN (n - 1) - 1 + 1 ELSE 0
          /\ \A i \in 1..((n - 1) - 1 + 1) : u[i] = s[1 + i - 1]
      <4>1. 1 \in Int /\ n - 1 \in Int /\ \A i \in 1..(n - 1) : s[i] \in Args
        BY <1>1, <2>1
      <4> HIDE DEF u
      <4>2. QED BY <4>1, SubSeqProperties DEF u
    <3> HIDE DEF u
    <3>2. QED BY <1>1, <2>1, <3>1
  <2>4. /\ v \in Seq(Args) /\ Len(v) = Len(s) - n /\ \A i \in 1..(Len(s) - n) : v[i] = s[n + i]
    <3>1. /\ v \in Seq(Args) /\ Len(v) = IF n + 1 <= Len(s) THEN Len(s) - (n + 1) + 1 ELSE 0
          /\ \A i \in 1..(Len(s) - (n + 1) + 1) : v[i] = s[n + 1 + i - 1]
      <4>1. n + 1 \in Int /\ Len(s) \in Int /\ \A i \in (n + 1)..Len(s) : s[i] \in Args
        BY <1>1, <2>1
      <4> HIDE DEF v
      <4>2. QED BY <4>1, SubSeqProperties DEF v
    <3> HIDE DEF v
    <3>2. Len(v) = Len(s) - n /\ Len(s) - (n + 1) + 1 = Len(s) - n
      <4>0. \A a \in Nat : \A b \in 1..a : a - (b + 1) + 1 = a - b /\ (~(b + 1 <= a) => a - b = 0)
        OBVIOUS
      <4>1. Len(s) - (n + 1) + 1 = Len(s) - n /\ (~(n + 1 <= Len(s)) => Len(s) - n = 0)
        BY <1>1, <2>1, <4>0, Zenon
      <4>2. Len(v) = IF n + 1 <= Len(s) THEN Len(s) - (n + 1) + 1 ELSE 0
        BY <3>1
      <4>3. QED BY <4>1, <4>2
    <3>3. \A i \in 1..(Len(s) - n) : n + 1 + i - 1 = n + i
      BY <1>1, <2>1
    <3>4. QED BY <3>1, <3>2, <3>3
  <2> HIDE DEF u, v
  <2>5. /\ u \o v \in Seq(Args) /\ Len(u \o v) = Len(u) + Len(v)
        /\ \A i \in 1..(Len(u) + Len(v)) : (u \o v)[i] = IF i <= Len(u) THEN u[i] ELSE v[i - Len(u)]
    BY <2>3, <2>4, ConcatProperties
  <2> DEFINE w == u \o v
  <2>6. w \in Seq(Args) /\ Len(w) = Len(s) - 1
    BY <1>1, <2>1, <2>3, <2>4, <2>5
  <2>7. \A i \in 1..(Len(s) - 1) : w[i] = IF i < n THEN s[i] ELSE s[i + 1]
    <3>1. SUFFICES ASSUME NEW i \in 1..(Len(s) - 1) PROVE w[i] = IF i < n THEN s[i] ELSE s[i + 1]
      OBVIOUS
    <3>2. w[i] = IF i <= n - 1 THEN u[i] ELSE v[i - (n - 1)]
      BY <1>1, <2>1, <2>3, <2>4, <2>5
    <3> HIDE DEF w
    <3>3. CASE i < n
      BY <1>1, <2>1, <2>3, <3>2, <3>3
    <3>4. CASE ~(i < n)
      <4>1. i - (n - 1) \in 1..(Len(s) - n) /\ n + (i - (n - 1)) = i + 1 /\ ~(i <= n - 1)
        BY <1>1, <2>1, <3>4
      <4>2. v[i - (n - 1)] = s[n + (i - (n - 1))]
        BY <2>4, <4>1
      <4>3. QED BY <3>2, <3>4, <4>1, <4>2
    <3>5. QED BY <3>3, <3>4
  <2>8. t = <<key>> \o w
    BY <2>2
  <2> HIDE DEF w
  <2>9. /\ t \in Seq(Args) /\ Len(t) = 1 + Len(w)
        /\ \A i \in 1..(1 + Len(w)) : t[i] = IF i <= 1 THEN <<key>>[i] ELSE w[i - 1]
    BY <1>1, <1>2, <2>6, <2>8, ConcatProperties
  <2>10. Len(t) = Len(s)
    BY <1>1, <2>6, <2>9
  <2>11. t[1] = key
    BY <1>1, <1>2, <2>1, <2>9, <2>6
  \* Where the element that comes to stand at i comes from.
  <2> DEFINE from(i) == IF i = 1 THEN n ELSE IF i <= n THEN i - 1 ELSE i
  <2>12. \A i \in 1..Len(s) : from(i) \in 1..Len(s) /\ t[i] = s[from(i)]
    <3>1. SUFFICES ASSUME NEW i \in 1..Len(s) PROVE from(i) \in 1..Len(s) /\ t[i] = s[from(i)]
      OBVIOUS
    <3>2. from(i) \in 1..Len(s)
      BY <1>1, <2>1
    <3>3. CASE i = 1
      BY <2>1, <2>11, <3>3
    <3>4. CASE i # 1
      <4>1. i - 1 \in 1..(Len(s) - 1) /\ ~(i <= 1) /\ i \in 1..(1 + Len(w)) /\ (i - 1) + 1 = i
        BY <1>1, <2>6, <3>4
      <4>2. t[i] = w[i - 1]
        BY <2>9, <4>1
      <4>3. w[i - 1] = IF i - 1 < n THEN s[i - 1] ELSE s[(i - 1) + 1]
        BY <2>7, <4>1
      <4>4. i - 1 < n <=> i <= n
        BY <1>1, <2>1
      <4>5. QED BY <3>2, <3>4, <4>1, <4>2, <4>3, <4>4
    <3>5. QED BY <3>2, <3>3, <3>4
  <2>13. \A i, j \in 1..Len(s) : from(i) = from(j) => i = j
    BY <1>1, <2>1
  <2>14. \A j \in 1..Len(s) : \E i \in 1..Len(s) : from(i) = j
    <3>1. SUFFICES ASSUME NEW j \in 1..Len(s) PROVE \E i \in 1..Len(s) : from(i) = j
      OBVIOUS
    <3>2. CASE j = n
      BY <1>1, <2>1, <3>2
    <3>3. CASE j < n
      <4>1. j + 1 \in 1..Len(s) /\ from(j + 1) = j
        BY <1>1, <2>1, <3>3
      <4>2. QED BY <4>1
    <3>4. CASE j > n
      BY <1>1, <2>1, <3>4
    <3>5. QED BY <1>1, <2>1, <3>2, <3>3, <3>4
  <2> HIDE DEF from
  <2>15. DOMAIN t = 1..Len(s)
    BY <2>9, <2>10, LenProperties
  <2>16. ToSet(t) = ToSet(s)
    <3>1. ToSet(t) = {t[i] : i \in 1..Len(s)}
      BY <2>15 DEF ToSet
    <3>2. ASSUME NEW a \in ToSet(t) PROVE a \in ToSet(s)
      <4>1. PICK i \in 1..Len(s) : a = t[i]
        BY <3>1, <3>2
      <4>2. QED BY <1>3, <2>12, <4>1
    <3>3. ASSUME NEW a \in ToSet(s) PROVE a \in ToSet(t)
      <4>1. PICK j \in 1..Len(s) : a = s[j]
        BY <1>3, <3>3
      <4>2. PICK i \in 1..Len(s) : from(i) = j
        BY <2>14
      <4>3. QED BY <2>12, <3>1, <4>1, <4>2
    <3>4. QED BY <3>2, <3>3
  <2>17. IsList(t)
    <3>1. ASSUME NEW i \in 1..Len(t), NEW j \in 1..Len(t), t[i] = t[j] PROVE i = j
      <4>1. s[from(i)] = s[from(j)] /\ from(i) \in 1..Len(s) /\ from(j) \in 1..Len(s)
        BY <2>10, <2>12, <3>1
      <4>2. from(i) = from(j)
        BY <4>1 DEF IsList
      <4>3. QED BY <2>10, <2>13, <4>2
    <3>2. QED BY <2>9, <3>1 DEF IsList
  <2>18. QED BY <1>5, <2>10, <2>11, <2>16, <2>17 DEF t
<1>6. QED BY <1>4, <1>5

\* A list repeats no key, so it is no longer than any set that has them all.
LEMMA ListLength ==
  ASSUME NEW s, IsList(s), NEW S, IsFiniteSet(S), ToSet(s) \subseteq S
  PROVE  Len(s) \in Nat /\ Len(s) <= Cardinality(S)
<1>1. Len(s) \in Nat /\ s \in [1..Len(s) -> Args] /\ DOMAIN s = 1..Len(s)
  BY LenProperties DEF IsList
<1>2. s \in [1..Len(s) -> S]
  BY <1>1 DEF ToSet
<1>3. s \in Injection(1..Len(s), S)
  BY <1>1, <1>2 DEF IsList, Injection, IsInjective
<1>4. Cardinality(1..Len(s)) <= Cardinality(S)
  BY <1>3, FS_Injection
<1>5. Cardinality(1..Len(s)) = Len(s)
  <2>1. Cardinality(1..Len(s)) = IF 1 > Len(s) THEN 0 ELSE Len(s) - 1 + 1
    BY <1>1, FS_Interval
  <2>2. QED BY <1>1, <2>1
<1>6. QED BY <1>1, <1>4, <1>5

\* Without its last key a list has all the others.
LEMMA FrontList ==
  ASSUME NEW s, IsList(s), Len(s) # 0
  PROVE  /\ IsList(Front(s)) /\ Len(Front(s)) = Len(s) - 1
         /\ ToSet(Front(s)) = ToSet(s) \ {Last(s)}
         /\ Last(s) \in ToSet(s)
<1> DEFINE u == Front(s)
<1>1. Len(s) \in Nat \ {0} /\ DOMAIN s = 1..Len(s) /\ (\A i \in 1..Len(s) : s[i] \in Args)
  BY LenProperties DEF IsList
<1>2. /\ u \in Seq(Args) /\ Len(u) = Len(s) - 1
      /\ \A i \in 1..(Len(s) - 1) : u[i] = s[i]
  <2>1. /\ u \in Seq(Args) /\ Len(u) = IF 1 <= Len(s) - 1 THEN (Len(s) - 1) - 1 + 1 ELSE 0
        /\ \A i \in 1..((Len(s) - 1) - 1 + 1) : u[i] = s[1 + i - 1]
    <3>1. 1 \in Int /\ Len(s) - 1 \in Int /\ \A i \in 1..(Len(s) - 1) : s[i] \in Args
      BY <1>1
    <3> HIDE DEF u
    <3>2. QED BY <3>1, SubSeqProperties DEF u, Front
  <2> HIDE DEF u
  <2>2. \A n \in Nat \ {0} : /\ (IF 1 <= n - 1 THEN (n - 1) - 1 + 1 ELSE 0) = n - 1
                             /\ \A i \in 1..(n - 1) : i \in 1..((n - 1) - 1 + 1) /\ 1 + i - 1 = i
    OBVIOUS
  <2>3. Len(u) = Len(s) - 1
    BY <1>1, <2>1, <2>2, Zenon
  <2>4. ASSUME NEW i \in 1..(Len(s) - 1) PROVE u[i] = s[i]
    <3>1. i \in 1..((Len(s) - 1) - 1 + 1) /\ 1 + i - 1 = i
      BY <1>1, <2>2, <2>4, Zenon
    <3>2. QED BY <2>1, <3>1
  <2>5. QED BY <2>1, <2>3, <2>4
<1> HIDE DEF u
<1>3. DOMAIN u = 1..(Len(s) - 1)
  BY <1>2, LenProperties
<1>4. IsList(u)
  BY <1>1, <1>2 DEF IsList
<1>5. ToSet(s) = {s[i] : i \in 1..Len(s)} /\ ToSet(u) = {u[i] : i \in 1..(Len(s) - 1)}
  BY <1>1, <1>3 DEF ToSet
<1>6. Last(s) = s[Len(s)] /\ Last(s) \in ToSet(s)
  BY <1>1, <1>5 DEF Last
<1>7. ASSUME NEW a \in ToSet(u) PROVE a \in ToSet(s) \ {Last(s)}
  <2>1. PICK i \in 1..(Len(s) - 1) : a = u[i]
    BY <1>5, <1>7
  <2>2. i \in 1..Len(s) /\ i # Len(s) /\ Len(s) \in 1..Len(s) /\ a = s[i]
    <3>1. \A n \in Nat \ {0} : n \in 1..n /\ \A j \in 1..(n - 1) : j \in 1..n /\ j # n
      OBVIOUS
    <3>2. i \in 1..Len(s) /\ i # Len(s) /\ Len(s) \in 1..Len(s)
      BY <1>1, <2>1, <3>1, Zenon
    <3>3. QED BY <1>2, <2>1, <3>2
  <2>3. s[i] # s[Len(s)]
    BY <2>2 DEF IsList
  <2>4. QED BY <1>5, <1>6, <2>2, <2>3
<1>8. ASSUME NEW a \in ToSet(s) \ {Last(s)} PROVE a \in ToSet(u)
  <2>1. PICK i \in 1..Len(s) : a = s[i]
    BY <1>5, <1>8
  <2>2. i \in 1..(Len(s) - 1)
    BY <1>1, <1>6, <1>8, <2>1
  <2>3. QED BY <1>2, <1>5, <2>1, <2>2
<1>9. ToSet(u) = ToSet(s) \ {Last(s)}
  BY <1>7, <1>8
<1>10. QED BY <1>2, <1>4, <1>6, <1>9 DEF u

\* A cache whose list has the keys of its map.
IsLru(c) ==
  /\ IsCache(c) /\ IsList(c.evictList)
  /\ ToSet(c.evictList) = {a \in Args : Holds(c, a)}

\* What AddIfAbsent makes of a cache.
LEMMA AddIfAbsentIs ==
  ASSUME NEW c, IsCache(c), NEW size, NEW key \in Args, NEW p \in Requests
  PROVE  LET d == AddIfAbsent(c, size, key, p)
             i == [c.items EXCEPT ![key] = p]
             o == ToFront(c.evictList, key)
         IN  /\ Holds(c, key) => d = [items |-> c.items, evictList |-> o]
             /\ ~Holds(c, key) /\ Len(o) > size
                  => d = [items |-> [i EXCEPT ![Last(o)] = Nil], evictList |-> Front(o)]
             /\ ~Holds(c, key) /\ ~(Len(o) > size) => d = [items |-> i, evictList |-> o]
<1> DEFINE d == AddIfAbsent(c, size, key, p)
           im == c.items
           ev == c.evictList
           i == [im EXCEPT ![key] = p]
           o == ToFront(ev, key)
           pushed == Push(c, key, p)
<1>1. c = [items |-> im, evictList |-> ev]
  BY DEF IsCache
<1>2. CASE Holds(c, key)
  <2>1. d = [c EXCEPT !.evictList = ToFront(ev, key)]
    BY <1>2 DEF AddIfAbsent, Touch
  <2>2. QED BY <1>1, <1>2, <2>1
<1>3. CASE ~Holds(c, key)
  <2>1. pushed = [items |-> i, evictList |-> o]
    <3> HIDE DEF im, ev
    <3>1. [c EXCEPT !.items[key] = p] = [items |-> i, evictList |-> ev]
      BY <1>1
    <3>2. pushed = [[items |-> i, evictList |-> ev] EXCEPT !.evictList = ToFront(ev, key)]
      BY <3>1 DEF Push, Touch
    <3> HIDE DEF pushed, i
    <3>3. QED BY <3>2
  <2>2. d = IF Len(pushed.evictList) > size
            THEN [items |-> [pushed.items EXCEPT ![Last(pushed.evictList)] = Nil],
                  evictList |-> Front(pushed.evictList)]
            ELSE pushed
    BY <1>3 DEF AddIfAbsent, RemoveOldest
  <2> HIDE DEF pushed, d, i, o
  <2>3. pushed.items = i /\ pushed.evictList = o
    BY <2>1
  <2>4. QED BY <1>3, <2>1, <2>2, <2>3 DEF d, i, o
<1>4. QED BY <1>2, <1>3

\* AddIfAbsent keeps a cache consistent and within its size; while there is room
\* it takes nothing away.
LEMMA AddIfAbsentKeeps ==
  ASSUME NEW c, IsLru(c), NEW size \in Nat \ {0}, Len(c.evictList) <= size,
         NEW key \in Args, NEW p \in Requests
  PROVE  LET d == AddIfAbsent(c, size, key, p)
         IN  /\ IsLru(d) /\ Len(d.evictList) <= size
             /\ Holds(c, key) => d.items = c.items
             /\ ~Holds(c, key) /\ Len(c.evictList) < size => d.items = [c.items EXCEPT ![key] = p]
<1> DEFINE d == AddIfAbsent(c, size, key, p)
           s == c.evictList
           i == [c.items EXCEPT ![key] = p]
           o == ToFront(s, key)
<1>1. IsCache(c) /\ IsList(s) /\ ToSet(s) = {a \in Args : c.items[a] # Nil}
      /\ c.items \in [Args -> Requests \cup {Nil}] /\ Len(s) \in Nat
  BY LenProperties DEF IsLru, IsCache, Holds, IsList
<1>2. IsList(o) /\ ToSet(o) = ToSet(s) \cup {key}
      /\ Len(o) = IF key \in ToSet(s) THEN Len(s) ELSE Len(s) + 1
  BY <1>1, ToFrontList
<1>3. /\ Holds(c, key) => d = [items |-> c.items, evictList |-> o]
      /\ ~Holds(c, key) /\ Len(o) > size
           => d = [items |-> [i EXCEPT ![Last(o)] = Nil], evictList |-> Front(o)]
      /\ ~Holds(c, key) /\ ~(Len(o) > size) => d = [items |-> i, evictList |-> o]
  BY <1>1, AddIfAbsentIs
<1>4. Holds(c, key) <=> key \in ToSet(s)
  BY <1>1 DEF Holds
<1>5. i \in [Args -> Requests \cup {Nil}] /\ \A a \in Args : i[a] = IF a = key THEN p ELSE c.items[a]
  BY <1>1
<1>6. p # Nil
  BY DEF Requests, Nil
<1> HIDE DEF d, i, o, s
<1>7. CASE Holds(c, key)
  <2>1. d.items = c.items /\ d.evictList = o /\ d = [items |-> d.items, evictList |-> d.evictList]
    BY <1>3, <1>7
  <2>2. ToSet(o) = ToSet(s) /\ Len(o) = Len(s)
    BY <1>2, <1>4, <1>7
  <2>3. IsCache(d) /\ ToSet(o) = {a \in Args : d.items[a] # Nil}
    BY <1>1, <2>1, <2>2 DEF IsCache
  <2>4. QED BY <1>2, <1>7, <2>1, <2>2, <2>3 DEF IsLru, Holds, d, s
<1>8. CASE ~Holds(c, key) /\ ~(Len(o) > size)
  <2>1. d.items = i /\ d.evictList = o /\ d = [items |-> d.items, evictList |-> d.evictList]
    BY <1>3, <1>8
  <2>2. IsCache(d)
    BY <1>5, <2>1 DEF IsCache
  <2>3. ToSet(o) = {a \in Args : d.items[a] # Nil}
    BY <1>1, <1>2, <1>5, <1>6, <2>1
  <2>4. Len(o) <= size
    BY <1>1, <1>2, <1>8
  <2>5. QED BY <1>2, <1>8, <2>1, <2>2, <2>3, <2>4 DEF IsLru, Holds, d, i
<1>9. CASE ~Holds(c, key) /\ Len(o) > size
  <2>1. d.items = [i EXCEPT ![Last(o)] = Nil] /\ d.evictList = Front(o)
        /\ d = [items |-> d.items, evictList |-> d.evictList]
    BY <1>3, <1>9
  <2>2. Len(o) = Len(s) + 1 /\ Len(o) # 0
    BY <1>1, <1>2, <1>4, <1>9
  <2>3. IsList(Front(o)) /\ Len(Front(o)) = Len(o) - 1 /\ ToSet(Front(o)) = ToSet(o) \ {Last(o)}
        /\ Last(o) \in ToSet(o)
    BY <1>2, <2>2, FrontList
  <2>4. d.items \in [Args -> Requests \cup {Nil}]
        /\ \A a \in Args : d.items[a] = IF a = Last(o) THEN Nil ELSE i[a]
    BY <1>5, <2>1
  <2>5. IsCache(d)
    BY <2>1, <2>4 DEF IsCache
  <2>6. ToSet(o) = {a \in Args : i[a] # Nil}
    BY <1>1, <1>2, <1>5, <1>6
  <2>7. ToSet(Front(o)) = {a \in Args : d.items[a] # Nil}
    BY <2>3, <2>4, <2>6
  <2>8. Len(s) <= size /\ ~(Len(s) < size)
    BY <1>1, <1>9, <2>2 DEF s
  <2>9. Len(Front(o)) <= size
    BY <1>1, <2>2, <2>3, <2>8
  <2>10. QED BY <1>9, <2>1, <2>3, <2>5, <2>7, <2>8, <2>9 DEF IsLru, Holds, d, s
<1>10. QED BY <1>7, <1>8, <1>9 DEF d, i, s

\* Get keeps the map, and the list but for its order.
LEMMA GetKeeps ==
  ASSUME NEW c, IsLru(c), NEW key \in Args
  PROVE  /\ IsLru(Get(c, key)) /\ Get(c, key).items = c.items
         /\ Len(Get(c, key).evictList) = Len(c.evictList)
<1> DEFINE o == ToFront(c.evictList, key)
           d == Get(c, key)
<1>1. CASE Holds(c, key)
  <2>1. d = [items |-> c.items, evictList |-> o]
    BY <1>1 DEF IsLru, IsCache, Get, Touch
  <2>2. IsList(o) /\ ToSet(o) = ToSet(c.evictList) \cup {key}
        /\ Len(o) = IF key \in ToSet(c.evictList) THEN Len(c.evictList) ELSE Len(c.evictList) + 1
    BY ToFrontList DEF IsLru
  <2>3. key \in ToSet(c.evictList)
    BY <1>1 DEF IsLru
  <2> HIDE DEF o, d
  <2>4. d.items = c.items /\ d.evictList = o
    BY <2>1
  <2>5. ToSet(o) = {a \in Args : Holds(d, a)}
    BY <2>2, <2>3, <2>4 DEF IsLru, Holds
  <2>6. IsCache(d)
    BY <2>1, <2>4 DEF IsLru, IsCache
  <2>7. QED BY <2>2, <2>3, <2>4, <2>5, <2>6 DEF IsLru, d
<1>2. CASE ~Holds(c, key)
  BY <1>2 DEF Get
<1>3. QED
  BY <1>1, <1>2

-----------------------------------------------------------------------------
(* What is true of the counters of concurrency                              *)

\* A controller whose counters the theorem is about.
Sure(k) == tcs[k].metric = "Concurrency" /\ NoEviction(k) /\ ~tcs[k].limitApp

\* The check of a request by controller k is over: it has added its argument.
Past(r, k) ==
  /\ args[r][k] \in Args
  /\ \/ pc[r] \in InQPS \cup InConcurrency /\ at[r] > k
     \/ pc[r] \in InStat \cup {"checked"}

Asked == InConcurrency \cup (InStat \ {"running"})
Loaded == {"loadConcurrent", "addPassed", "addCompleted"}

\* A request is at a controller of the right metric, and one that is about to
\* read or write a counter has taken one.
Placed(r) ==
  /\ pc[r] = "new" => \A k \in Controllers : args[r][k] = NoArg
  /\ pc[r] \in InQPS => at[r] \in Controllers /\ Rule(r).metric = "QPS"
  /\ pc[r] \in Asked => at[r] \in Controllers /\ Arg(r) \in Args /\ Rule(r).metric = "Concurrency"
  /\ pc[r] \in Loaded => local[r].rest \in Requests

\* The counters of a request that was checked are still there, and it has the
\* right one in its hands.
Counted(r) ==
  /\ \A k \in Controllers : Sure(k) /\ Past(r, k) => Holds(concurrentCounter[k], args[r][k])
  /\ pc[r] \in Loaded /\ Sure(at[r])
       => /\ Holds(concurrentCounter[at[r]], Arg(r))
          /\ local[r].rest = concurrentCounter[at[r]].items[Arg(r)]

\* The counters of concurrency in the caches are for the arguments they are found under.
Belonging ==
  \A k \in Controllers, arg \in Args :
    Holds(concurrentCounter[k], arg) => CounterFor(k, arg, concurrentCounter[k].items[arg])

\* The caches of concurrency are consistent and within their size.
Room ==
  \A k \in Controllers :
    IsLru(concurrentCounter[k]) /\ Len(concurrentCounter[k].evictList) <= tcs[k].capacity

CInv ==
  /\ concurrent \in [Controllers -> [Requests -> Int]]
  /\ Belonging /\ Room
  /\ \A r \in Requests : Placed(r) /\ Counted(r)
  /\ ConcurrencyExact

\* Whether a request is in flight for controller k, whatever its argument.
Flies(r, k) ==
  \/ pc[r] \in {"passing", "addPassed"} /\ at[r] > k
  \/ pc[r] = "running"
  \/ pc[r] \in {"completing", "addCompleted"} /\ at[r] <= k

\* The others stay where they are.
Alone(r) ==
  \A q \in Requests \ {r} : pc'[q] = pc[q] /\ at'[q] = at[q] /\ local'[q] = local[q]

\* While a cache has room for all arguments, its counters stay in it.
PointersStay ==
  \A k \in Controllers, arg \in Args :
    Sure(k) /\ Holds(concurrentCounter[k], arg)
      => concurrentCounter'[k].items[arg] = concurrentCounter[k].items[arg]

LEMMA SureStays ==
  ASSUME UNCHANGED <<tcs, args>>, NEW k
  PROVE  Sure(k)' <=> Sure(k)
BY DEF Sure, NoEviction

\* Who does not move keeps what it knows.
LEMMA OthersKnow ==
  ASSUME Ranges, UNCHANGED <<tcs, args>>, NEW r \in Requests, Alone(r), PointersStay,
         NEW q \in Requests, q # r, Placed(q), Counted(q)
  PROVE  Placed(q)' /\ Counted(q)'
<1>1. Controllers' = Controllers /\ pc'[q] = pc[q] /\ at'[q] = at[q] /\ local'[q] = local[q]
  BY DEF Controllers, Alone
<1>2. Arg(q)' = Arg(q) /\ Rule(q)' = Rule(q)
  BY <1>1 DEF Arg, Rule
<1>3. Placed(q)'
  BY <1>1, <1>2 DEF Placed
<1>4. ASSUME NEW k \in Controllers, Sure(k)', Past(q, k)' PROVE Holds(concurrentCounter[k], args[q][k])'
  <2>1. Sure(k) /\ Past(q, k)
    BY <1>1, <1>4, SureStays DEF Past
  <2>2. Holds(concurrentCounter[k], args[q][k]) /\ args[q][k] \in Args
    BY <2>1 DEF Counted, Past
  <2>3. QED BY <2>1, <2>2 DEF PointersStay, Holds
<1>5. ASSUME pc[q] \in Loaded, Sure(at[q])'
      PROVE  /\ Holds(concurrentCounter[at[q]], Arg(q))'
             /\ local[q].rest = concurrentCounter'[at[q]].items[Arg(q)]
  <2>1. Sure(at[q]) /\ at[q] \in Controllers /\ Arg(q) \in Args
    <3>1. pc[q] \in Asked
      BY <1>5 DEF Asked, InConcurrency, InStat, Loaded
    <3>2. QED BY <1>5, <1>1, <3>1, SureStays DEF Placed, Sure, NoEviction
  <2>2. Holds(concurrentCounter[at[q]], Arg(q)) /\ local[q].rest = concurrentCounter[at[q]].items[Arg(q)]
    BY <1>5, <2>1 DEF Counted
  <2>3. concurrentCounter'[at[q]].items[Arg(q)] = concurrentCounter[at[q]].items[Arg(q)]
    BY <2>1, <2>2 DEF PointersStay
  <2>4. QED BY <1>1, <1>2, <2>2, <2>3 DEF Holds
<1>6. Counted(q)'
  BY <1>1, <1>2, <1>4, <1>5 DEF Counted, Sure, NoEviction, Holds
<1>7. QED BY <1>3, <1>6

\* The next controller that checks a request: those passed over have nothing to
\* count for it.
LEMMA GoOnSkips ==
  ASSUME Ranges, NEW r \in Requests, NEW k \in Nat \ {0}, GoOn(r, k), tcs' = tcs,
         args' \in [Requests -> [Controllers -> Args \cup {NoArg}]]
  PROVE  /\ at'[r] \in Nat
         /\ \A q \in Requests \ {r} : pc'[q] = pc[q] /\ at'[q] = at[q]
         /\ \/ /\ at'[r] \in Controllers /\ args'[r][at'[r]] \in Args
               /\ pc'[r] = IF tcs[at'[r]].metric = "Concurrency" THEN "addConcurrent" ELSE "readClock"
            \/ pc'[r] = "checked" /\ at'[r] \notin Controllers
         /\ \A j \in Controllers :
              k <= j /\ (pc'[r] = "checked" \/ j < at'[r]) /\ tcs[j].metric = "Concurrency"
                /\ ~tcs[j].limitApp => args'[r][j] = NoArg
<1>1. PICK i \in k..(Len(tcs) + 1) :
        /\ \A j \in k..(i - 1) : ~Checks(r, j)
        /\ i \in Controllers => Checks(r, i)
        /\ at' = [at EXCEPT ![r] = i]
        /\ Move(r, IF i \in Controllers THEN FirstStep(i) ELSE "checked")
  BY DEF GoOn
<1>2. Len(tcs) \in Nat /\ i \in Nat
  BY HotSpotAssumption DEF Ranges
<1>3. at'[r] = i /\ \A q \in Requests \ {r} : at'[q] = at[q]
  BY <1>1 DEF Ranges
<1>4. pc'[r] = (IF i \in Controllers THEN FirstStep(i) ELSE "checked")
      /\ \A q \in Requests \ {r} : pc'[q] = pc[q]
  BY <1>1 DEF Ranges, Move
<1>5. i \in Controllers => args'[r][i] \in Args
  BY <1>1 DEF Checks
<1>6. ASSUME NEW j \in Controllers, k <= j, pc'[r] = "checked" \/ j < i,
             tcs[j].metric = "Concurrency", ~tcs[j].limitApp
      PROVE  args'[r][j] = NoArg
  <2>1. j < i
    <3>1. CASE i \in Controllers
      BY <1>4, <1>6, <3>1 DEF FirstStep
    <3>2. CASE i \notin Controllers
      BY <1>2, <3>2 DEF Controllers
    <3>3. QED BY <3>1, <3>2
  <2>2. j \in k..(i - 1)
    BY <1>2, <1>6, <2>1 DEF Controllers
  <2>3. ~Checks(r, j)
    BY <1>1, <2>2
  <2>4. ~PassesInCluster(j)
    BY <1>6 DEF PassesInCluster
  <2>5. QED BY <1>6, <2>3, <2>4 DEF Checks
<1>7. \/ /\ i \in Controllers /\ args'[r][i] \in Args
         /\ pc'[r] = IF tcs[i].metric = "Concurrency" THEN "addConcurrent" ELSE "readClock"
      \/ pc'[r] = "checked" /\ i \notin Controllers
  BY <1>4, <1>5 DEF FirstStep
<1>8. QED BY <1>2, <1>3, <1>4, <1>6, <1>7

\* The same for the next controller of a stat slot.
LEMMA CountOnSkips ==
  ASSUME Ranges, NEW r \in Requests, NEW k \in Nat \ {0}, NEW looking, NEW after,
         CountOn(r, k, looking, after), UNCHANGED <<tcs, args>>
  PROVE  /\ at'[r] \in Nat /\ at'[r] >= k
         /\ \A q \in Requests \ {r} : pc'[q] = pc[q] /\ at'[q] = at[q]
         /\ \/ at'[r] \in Controllers /\ Counts(r, at'[r]) /\ pc'[r] = looking
            \/ at'[r] \notin Controllers /\ pc'[r] = after /\ \A j \in Controllers : j < at'[r]
         /\ \A j \in Controllers : k <= j /\ j < at'[r] => ~Counts(r, j)
<1>1. PICK i \in k..(Len(tcs) + 1) :
        /\ \A j \in k..(i - 1) : ~Counts(r, j)
        /\ i \in Controllers => Counts(r, i)
        /\ at' = [at EXCEPT ![r] = i]
        /\ Move(r, IF i \in Controllers THEN looking ELSE after)
  BY DEF CountOn
<1>2. Len(tcs) \in Nat /\ i \in Nat /\ i >= k
  BY HotSpotAssumption DEF Ranges
<1>3. at'[r] = i /\ \A q \in Requests \ {r} : at'[q] = at[q]
  BY <1>1 DEF Ranges
<1>4. pc'[r] = (IF i \in Controllers THEN looking ELSE after)
      /\ \A q \in Requests \ {r} : pc'[q] = pc[q]
  BY <1>1 DEF Ranges, Move
<1>5. i \notin Controllers => \A j \in Controllers : j < i
  BY <1>2 DEF Controllers
<1>6. ASSUME NEW j \in Controllers, k <= j, j < i PROVE ~Counts(r, j)
  <2>1. j \in k..(i - 1)
    BY <1>2, <1>6 DEF Controllers
  <2>2. QED BY <1>1, <2>1
<1>7. QED BY <1>1, <1>2, <1>3, <1>4, <1>5, <1>6

\* A check that goes on with the next controller: that of the present one is over.
LEMMA GoOnKnows ==
  ASSUME Ranges, NEW r \in Requests, Placed(r), Counted(r), UNCHANGED <<tcs, args>>, PointersStay,
         GoOn(r, at[r] + 1), pc[r] \in InQPS \cup InConcurrency,
         Sure(at[r]) => Holds(concurrentCounter'[at[r]], Arg(r))
  PROVE  /\ Placed(r)' /\ Counted(r)'
         /\ \A k \in Controllers : ~Flies(r, k) /\ ~Flies(r, k)'
<1>1. at[r] \in Controllers /\ at[r] \in Nat /\ at[r] + 1 \in Nat \ {0} /\ Controllers' = Controllers
  BY DEF Placed, Asked, Controllers, Ranges
<1>2. args' \in [Requests -> [Controllers -> Args \cup {NoArg}]]
  BY DEF Ranges
<1>3. /\ at'[r] \in Nat
      /\ \/ /\ at'[r] \in Controllers /\ args'[r][at'[r]] \in Args
            /\ pc'[r] = IF tcs[at'[r]].metric = "Concurrency" THEN "addConcurrent" ELSE "readClock"
         \/ pc'[r] = "checked" /\ at'[r] \notin Controllers
      /\ \A j \in Controllers :
           at[r] + 1 <= j /\ (pc'[r] = "checked" \/ j < at'[r]) /\ tcs[j].metric = "Concurrency"
             /\ ~tcs[j].limitApp => args'[r][j] = NoArg
  BY <1>1, <1>2, GoOnSkips
<1>4. pc'[r] \in {"addConcurrent", "readClock", "checked"}
  BY <1>3
<1>5. \A k \in Controllers : tcs[k].metric \in {"Concurrency", "QPS"}
  BY HotSpotAssumption DEF Ranges, Controllers, IsRule
<1>6. Placed(r)'
  BY <1>1, <1>3, <1>4, <1>5 DEF Placed, Asked, Loaded, InConcurrency, InStat, InQPS, Rule, Arg
<1>7. ASSUME NEW k \in Controllers, Sure(k), Past(r, k)'
      PROVE  Holds(concurrentCounter'[k], args[r][k])
  <2>1. args[r][k] \in Args /\ (pc'[r] = "checked" \/ k < at'[r])
    BY <1>1, <1>3, <1>4, <1>7 DEF Past, Controllers, InStat
  <2>2. CASE k < at[r]
    <3>1. Past(r, k)
      BY <1>1, <2>1, <2>2 DEF Past, Controllers
    <3>2. Holds(concurrentCounter[k], args[r][k])
      BY <1>7, <3>1 DEF Counted
    <3>3. QED BY <1>7, <2>1, <3>2 DEF PointersStay, Holds
  <2>3. CASE k = at[r]
    BY <1>7, <2>3 DEF Arg
  <2>4. CASE k > at[r]
    <3>1. at[r] + 1 <= k
      BY <1>1, <2>4 DEF Controllers
    <3>2. args'[r][k] = NoArg
      BY <1>3, <1>7, <2>1, <3>1 DEF Sure
    <3>3. QED BY <2>1, <3>2, HotSpotAssumption
  <2>5. QED BY <1>1, <2>2, <2>3, <2>4 DEF Controllers
<1>8. Counted(r)'
  BY <1>1, <1>4, <1>7, SureStays DEF Counted, Loaded, Holds
<1>9. \A k \in Controllers : ~Flies(r, k) /\ ~Flies(r, k)'
  BY <1>4 DEF Flies, InQPS, InConcurrency
<1>10. QED BY <1>6, <1>8, <1>9

\* The entries in flight with an argument, one by one.
LEMMA InFlightIs ==
  ASSUME NEW k, NEW arg
  PROVE  InFlight(k, arg) = {q \in Requests : args[q][k] = arg /\ Flies(q, k)}
BY DEF InFlight, Flies

\* The number of entries in flight is that of a finite set.
LEMMA InFlightFinite ==
  ASSUME NEW k, NEW arg
  PROVE  IsFiniteSet(InFlight(k, arg)) /\ Cardinality(InFlight(k, arg)) \in Nat
<1>1. IsFiniteSet(Requests)
  BY HotSpotAssumption, FS_Interval DEF Requests
<1>2. InFlight(k, arg) \in SUBSET Requests
  BY DEF InFlight
<1>3. QED BY <1>1, <1>2, FS_Subset, FS_CardinalityType

\* Who is in flight depends on the one that moves.
LEMMA OthersFly ==
  ASSUME UNCHANGED args, NEW r \in Requests, Alone(r), NEW k, NEW arg,
         args[r][k] = arg => (Flies(r, k)' <=> Flies(r, k))
  PROVE  InFlight(k, arg)' = InFlight(k, arg)
<1>1. ASSUME NEW q \in Requests, q # r PROVE Flies(q, k)' <=> Flies(q, k)
  BY <1>1 DEF Flies, Alone
<1>2. InFlight(k, arg)' = {q \in Requests : args[q][k] = arg /\ Flies(q, k)'}
  BY DEF InFlight, Flies
<1>3. InFlight(k, arg) = {q \in Requests : args[q][k] = arg /\ Flies(q, k)}
  BY InFlightIs
<1>4. QED BY <1>1, <1>2, <1>3

\* A step that leaves the counters alone, and lands or starts nobody who counts.
LEMMA QuietCounts ==
  ASSUME IInv, CInv, NEW r \in Requests, Alone(r), UNCHANGED <<tcs, args, concurrent>>,
         pc'[r] # "new", Room', Placed(r)', Counted(r)',
         \A k \in Controllers : concurrentCounter'[k].items = concurrentCounter[k].items,
         \A k \in Controllers :
           Sure(k) /\ args[r][k] \in Args => (Flies(r, k)' <=> Flies(r, k))
  PROVE  CInv'
<1>1. Controllers' = Controllers
  BY DEF Controllers
<1>2. PointersStay
  BY DEF PointersStay
<1>3. \A q \in Requests : Placed(q)' /\ Counted(q)'
  BY <1>2, OthersKnow DEF CInv, IInv
<1>4. Belonging'
  <2>1. \A q \in Requests : pc[q] # "new" => pc'[q] # "new"
    BY DEF Alone
  <2>2. ASSUME NEW k \in Controllers, NEW arg \in Args, Holds(concurrentCounter'[k], arg)
        PROVE  LET p == concurrentCounter'[k].items[arg]
               IN  p \in Requests /\ pc'[p] # "new" /\ args'[p][k] = arg
    <3>1. CounterFor(k, arg, concurrentCounter[k].items[arg])
      BY <2>2 DEF CInv, Belonging, Holds
    <3>2. QED BY <2>1, <3>1 DEF CounterFor
  <2>3. QED BY <1>1, <2>2 DEF Belonging, Holds, CounterFor
<1>5. ConcurrencyExact'
  <2>1. ASSUME NEW k \in Controllers, NEW arg \in Args, Sure(k), Holds(concurrentCounter[k], arg)
        PROVE  Counter(k, arg) = Cardinality(InFlight(k, arg)')
    <3>1. Counter(k, arg) = Cardinality(InFlight(k, arg))
      BY <2>1 DEF CInv, ConcurrencyExact, Sure
    <3>2. InFlight(k, arg)' = InFlight(k, arg)
      BY <2>1, OthersFly
    <3>3. QED BY <3>1, <3>2
  <2>2. \A k \in Controllers : Sure(k)' <=> Sure(k)
    BY SureStays
  <2>3. ASSUME NEW k \in Controllers, NEW arg \in Args, Sure(k), Holds(concurrentCounter'[k], arg)
        PROVE  Counter(k, arg)' = Cardinality(InFlight(k, arg))'
    BY <2>1, <2>3 DEF Counter, Holds
  <2>4. QED BY <1>1, <2>2, <2>3 DEF ConcurrencyExact, Sure
<1>6. QED BY <1>1, <1>3, <1>4, <1>5 DEF CInv

\* The caches are not touched.
LEMMA RoomStays ==
  ASSUME Room, UNCHANGED <<tcs, concurrentCounter>>
  PROVE  Room'
BY DEF Room, Controllers

\* A step of PerformChecking by the other metric.
LEMMA QPSCounts ==
  ASSUME IInv, CInv, NEW r \in Requests, Alone(r),
         UNCHANGED <<tcs, args, concurrent, concurrentCounter>>, pc[r] \in InQPS,
         \/ at'[r] = at[r] /\ pc'[r] \in InQPS \cup {"blocked"}
         \/ GoOn(r, at[r] + 1)
  PROVE  CInv'
<1>1. Controllers' = Controllers /\ Room' /\ PointersStay
  BY RoomStays DEF Controllers, PointersStay, CInv
<1>2. Placed(r) /\ Counted(r) /\ at[r] \in Controllers /\ Rule(r).metric = "QPS"
  BY DEF CInv, Placed
<1>3. CASE at'[r] = at[r] /\ pc'[r] \in InQPS \cup {"blocked"}
  <2>1. Placed(r)'
    BY <1>1, <1>2, <1>3 DEF Placed, Rule, InQPS, Asked, Loaded, InConcurrency, InStat
  <2>2. \A k \in Controllers : Past(r, k)' => Past(r, k)
    BY <1>3 DEF Past, InQPS, InConcurrency, InStat
  <2>3. pc'[r] \notin Loaded
    BY <1>3 DEF InQPS, Loaded
  <2>4. Counted(r)'
    BY <1>1, <1>2, <2>2, <2>3, SureStays DEF Counted
  <2>5. \A k \in Controllers : Flies(r, k)' <=> Flies(r, k)
    BY <1>3 DEF Flies, InQPS
  <2>6. pc'[r] # "new"
    BY <1>3 DEF InQPS
  <2>7. QED BY <1>1, <2>1, <2>4, <2>5, <2>6, QuietCounts
<1>4. CASE GoOn(r, at[r] + 1)
  <2>1. ~Sure(at[r])
    BY <1>2 DEF Sure, Rule
  <2>2. Placed(r)' /\ Counted(r)' /\ \A k \in Controllers : ~Flies(r, k) /\ ~Flies(r, k)'
    BY <1>1, <1>2, <1>4, <2>1, GoOnKnows DEF IInv
  <2>3. pc'[r] # "new"
    <3>1. at[r] + 1 \in Nat \ {0} /\ args' \in [Requests -> [Controllers -> Args \cup {NoArg}]]
      BY DEF IInv, Ranges
    <3>2. pc'[r] = "checked"
            \/ pc'[r] = IF tcs[at'[r]].metric = "Concurrency" THEN "addConcurrent" ELSE "readClock"
      BY <1>4, <3>1, GoOnSkips DEF IInv
    <3>3. QED BY <3>2
  <2>4. QED BY <1>1, <2>2, <2>3, QuietCounts
<1>5. QED BY <1>3, <1>4

-----------------------------------------------------------------------------
(* The steps of the other metric                                            *)

\* The request stays with its controller in the loop, is refused, or goes on.
Goes(r) ==
  /\ Alone(r)
  /\ \/ at'[r] = at[r] /\ pc'[r] \in InQPS \cup {"blocked"}
     \/ GoOn(r, at[r] + 1)

LEMMA StaysGoes ==
  ASSUME Ranges, NEW r \in Requests, NEW p \in InQPS \cup {"blocked"}, NEW l,
         Move(r, p), at' = at, local' = local \/ local' = [local EXCEPT ![r] = l]
  PROVE  Goes(r)
BY DEF Ranges, Goes, Alone, Move

LEMMA GoOnGoes ==
  ASSUME Ranges, NEW r \in Requests, GoOn(r, at[r] + 1), UNCHANGED <<tcs, args>>,
         local' = [local EXCEPT ![r] = NoLocals]
  PROVE  Goes(r)
<1>1. at[r] + 1 \in Nat \ {0} /\ args' \in [Requests -> [Controllers -> Args \cup {NoArg}]]
  BY DEF Ranges
<1>2. \A q \in Requests \ {r} : pc'[q] = pc[q] /\ at'[q] = at[q]
  BY <1>1, GoOnSkips
<1>3. QED BY <1>2 DEF Goes, Alone, Ranges

LEMMA OutcomeGoes ==
  ASSUME Ranges, NEW r \in Requests, UNCHANGED <<tcs, args>>
  PROVE  /\ Blocked(r) => Goes(r)
         /\ \A p \in InQPS : \A l : Remember(r, p, l) => Goes(r)
         /\ \A p \in InQPS : Continue(r, p) => Goes(r)
         /\ Again(r) => Goes(r)
         /\ \A when : Granted(r, when) => Goes(r)
<1>1. Blocked(r) => Goes(r)
  BY StaysGoes DEF Blocked
<1>2. \A p \in InQPS : \A l : Remember(r, p, l) => Goes(r)
  BY StaysGoes DEF Remember
<1>3. \A p \in InQPS : Continue(r, p) => Goes(r)
  BY StaysGoes DEF Continue
<1>4. Again(r) => Goes(r)
  BY <1>2 DEF Again, InQPS
<1>5. \A when : Granted(r, when) => Goes(r)
  BY GoOnGoes DEF Granted
<1>6. QED BY <1>1, <1>2, <1>3, <1>4, <1>5

\* The steps of the loop.
InLoop(r) ==
  \/ ReadClock(r) \/ AddTime(r) \/ FirstTokens(r) \/ LoadTime(r) \/ Refill(r) \/ LoadOld(r)
  \/ SwapRefill(r) \/ Stamp(r) \/ Spend(r) \/ LoadRest(r) \/ SwapSpend(r) \/ SwapTime(r)
  \/ StampExpected(r) \/ Wake(r)

LEMMA LoopGoes ==
  ASSUME Ranges, NEW r \in Requests, InLoop(r), UNCHANGED <<tcs, args>>
  PROVE  Goes(r) /\ pc[r] \in InQPS /\ UNCHANGED <<concurrent, concurrentCounter>>
<1>1. CASE ReadClock(r)
  BY <1>1, OutcomeGoes DEF ReadClock, caches, values, InQPS
<1>2. CASE AddTime(r)
  BY <1>2, OutcomeGoes DEF AddTime, InQPS
<1>3. CASE FirstTokens(r)
  BY <1>3, OutcomeGoes DEF FirstTokens, AddTokens, InQPS
<1>4. CASE LoadTime(r)
  BY <1>4, OutcomeGoes DEF LoadTime, caches, values, InQPS
<1>5. CASE Refill(r)
  BY <1>5, OutcomeGoes DEF Refill, AddTokens, InQPS
<1>6. CASE LoadOld(r)
  BY <1>6, OutcomeGoes DEF LoadOld, caches, values, InQPS
<1>7. CASE SwapRefill(r)
  BY <1>7, OutcomeGoes DEF SwapRefill, caches, values, InQPS
<1>8. CASE Stamp(r)
  BY <1>8, OutcomeGoes DEF Stamp, caches, values, InQPS
<1>9. CASE Spend(r)
  BY <1>9, OutcomeGoes DEF Spend, values, InQPS
<1>10. CASE LoadRest(r)
  BY <1>10, OutcomeGoes DEF LoadRest, caches, values, InQPS
<1>11. CASE SwapSpend(r)
  BY <1>11, OutcomeGoes DEF SwapSpend, caches, values, InQPS
<1>12. CASE SwapTime(r)
  BY <1>12, OutcomeGoes DEF SwapTime, caches, values, InQPS
<1>13. CASE StampExpected(r)
  <2>1. Move(r, "sleeping") /\ at' = at
        /\ local' = [local EXCEPT ![r] = [NoLocals EXCEPT
                       !.new = Smaller(clock + local[r].new - local[r].now, MaxClock)]]
        /\ UNCHANGED <<concurrent, concurrentCounter>> /\ pc[r] = "stampExpected"
    BY <1>13 DEF StampExpected, caches
  <2>2. "sleeping" \in InQPS /\ "stampExpected" \in InQPS
    BY DEF InQPS
  <2>3. QED BY <2>1, <2>2, StaysGoes
<1>14. CASE Wake(r)
  BY <1>14, GoOnGoes DEF Wake, caches, values, InQPS
<1>15. QED
  BY <1>1, <1>2, <1>3, <1>4, <1>5, <1>6, <1>7, <1>8, <1>9, <1>10, <1>11, <1>12, <1>13, <1>14
     DEF InLoop

LEMMA LoopCounts ==
  ASSUME IInv, CInv, NEW r \in Requests, InLoop(r), UNCHANGED <<tcs, args>>
  PROVE  CInv'
<1>1. Goes(r) /\ pc[r] \in InQPS /\ UNCHANGED <<concurrent, concurrentCounter>>
  BY LoopGoes DEF IInv
<1>2. QED BY <1>1, QPSCounts DEF Goes

-----------------------------------------------------------------------------
(* The steps of the concurrency metric and of the stat slot                 *)

\* A cache that has room for every argument met so far has room for one of them.
LEMMA CacheHasRoom ==
  ASSUME IInv, NEW k \in Controllers, NoEviction(k), NEW c, IsLru(c), NEW a \in Args, ~Holds(c, a),
         \E p \in Requests : args[p][k] = a,
         \A x \in Args : Holds(c, x) => \E p \in Requests : args[p][k] = x
  PROVE  Len(c.evictList) < tcs[k].capacity
<1> DEFINE Met == {args[q][k] : q \in Requests} \ {NoArg}
           s == c.evictList
<1>1. IsList(s) /\ ToSet(s) = {x \in Args : Holds(c, x)}
  BY DEF IsLru
<1>2. Cardinality(Met) <= tcs[k].capacity
  BY DEF NoEviction
<1>3. IsFiniteSet(Met)
  <2>1. Met \in SUBSET Args
    BY DEF IInv, Ranges
  <2> HIDE DEF Met
  <2>2. QED BY <2>1, FS_Subset, HotSpotAssumption
<1>4. a \in Met
  BY HotSpotAssumption
<1>5. ToSet(s) \subseteq Met \ {a}
  <2>1. ASSUME NEW x \in ToSet(s) PROVE x \in Met \ {a}
    <3>1. x \in Args /\ Holds(c, x)
      BY <1>1, <2>1
    <3>2. PICK p \in Requests : args[p][k] = x
      BY <3>1
    <3>3. x # NoArg /\ x # a
      BY <3>1, HotSpotAssumption
    <3>4. QED BY <3>2, <3>3
  <2>2. QED BY <2>1
<1> HIDE DEF Met, s
<1>6. IsFiniteSet(Met \ {a}) /\ Cardinality(Met \ {a}) = Cardinality(Met) - 1
  BY <1>3, <1>4, FS_RemoveElement
<1>7. Cardinality(Met) \in Nat
  BY <1>3, FS_CardinalityType
<1>8. Len(s) \in Nat /\ Len(s) <= Cardinality(Met \ {a})
  BY <1>1, <1>5, <1>6, ListLength
<1>9. tcs[k].capacity \in Nat
  BY HotSpotAssumption DEF IInv, Ranges, Controllers, IsRule
<1>10. Len(s) < tcs[k].capacity
  BY <1>2, <1>6, <1>7, <1>8, <1>9
<1>11. QED BY <1>10 DEF s

LEMMA RoomForMore ==
  ASSUME IInv, CInv, NEW r \in Requests, NEW k \in Controllers, Sure(k), args[r][k] \in Args,
         ~Holds(concurrentCounter[k], args[r][k])
  PROVE  Len(concurrentCounter[k].evictList) < tcs[k].capacity
<1>1. IsLru(concurrentCounter[k])
  BY DEF CInv, Room
<1>2. \A x \in Args : Holds(concurrentCounter[k], x) => \E p \in Requests : args[p][k] = x
  BY DEF CInv, Belonging, CounterFor
<1>3. QED BY <1>1, <1>2, CacheHasRoom DEF Sure

\* Nobody is in flight whose counter is not in the cache.
LEMMA NoneInFlight ==
  ASSUME IInv, CInv, NEW k \in Controllers, NEW arg \in Args, Sure(k),
         ~Holds(concurrentCounter[k], arg)
  PROVE  InFlight(k, arg) = {}
<1> SUFFICES ASSUME NEW q \in Requests, args[q][k] = arg, Flies(q, k) PROVE FALSE
  BY InFlightIs
<1>1. pc[q] \in InStat
  BY DEF Flies, InStat
<1>2. Past(q, k)
  BY <1>1 DEF Past
<1>3. QED BY <1>2 DEF CInv, Counted

\* A cache takes an argument: the counters of the others stay where they were.
LEMMA AddConcurrentCounts ==
  ASSUME IInv, CInv, NEW r \in Requests, AddConcurrent(r), UNCHANGED <<tcs, args>>
  PROVE  CInv'
<1> DEFINE k == at[r]
           a == Arg(r)
           c == concurrentCounter[k]
           d == AddIfAbsent(c, Rule(r).capacity, a, r)
           prior == c.items[a]
<1>1. pc[r] = "addConcurrent" /\ Placed(r) /\ Counted(r) /\ Controllers' = Controllers
  BY DEF AddConcurrent, CInv, Controllers
<1>2. k \in Controllers /\ a \in Args /\ args[r][k] = a /\ Rule(r) = tcs[k]
  BY <1>1 DEF Placed, Asked, InConcurrency, Arg, Rule
<1>3. IsLru(c) /\ Len(c.evictList) <= tcs[k].capacity /\ IsCache(c)
  BY <1>2 DEF CInv, Room, IsLru
<1>4. tcs[k].capacity \in Nat \ {0}
  BY <1>2, HotSpotAssumption DEF IInv, Ranges, Controllers, IsRule
<1>5. concurrentCounter' = [concurrentCounter EXCEPT ![k] = d]
  BY DEF AddConcurrent
<1>6. /\ IsLru(d) /\ Len(d.evictList) <= tcs[k].capacity
      /\ Holds(c, a) => d.items = c.items
      /\ ~Holds(c, a) /\ Len(c.evictList) < tcs[k].capacity => d.items = [c.items EXCEPT ![a] = r]
  <2> HIDE DEF c, a, k
  <2>1. QED BY <1>2, <1>3, <1>4, AddIfAbsentKeeps
<1>7. \A x \in Args : d.items[x] = c.items[x] \/ d.items[x] = Nil \/ (x = a /\ d.items[x] = r)
  <2> HIDE DEF c, a, k
  <2>1. QED BY <1>2, <1>3, AddIfAbsentPointers
<1>8. /\ concurrentCounter'[k] = d
      /\ \A j \in Controllers \ {k} : concurrentCounter'[j] = concurrentCounter[j]
  <2> HIDE DEF d
  <2>1. QED BY <1>2, <1>5 DEF IInv, Ranges, Stores, AreCaches
<1>9. Sure(k) /\ ~Holds(c, a) => d.items = [c.items EXCEPT ![a] = r]
  <2> HIDE DEF d
  <2>1. QED BY <1>2, <1>6, RoomForMore
<1>10. c.items \in [Args -> Requests \cup {Nil}] /\ r # Nil
  BY <1>3 DEF IsCache, Requests, Nil
<1> HIDE DEF d
<1>11. Room'
  BY <1>1, <1>6, <1>8 DEF CInv, Room
<1>12. PointersStay
  <2> SUFFICES ASSUME NEW j \in Controllers, NEW x \in Args, Sure(j), Holds(concurrentCounter[j], x)
               PROVE  concurrentCounter'[j].items[x] = concurrentCounter[j].items[x]
    BY DEF PointersStay
  <2>1. CASE j # k
    BY <1>8, <2>1
  <2>2. CASE j = k /\ Holds(c, a)
    BY <1>6, <1>8, <2>2
  <2>3. CASE j = k /\ ~Holds(c, a)
    <3>1. x # a /\ d.items = [c.items EXCEPT ![a] = r]
      BY <1>9, <2>3
    <3>2. QED BY <1>8, <1>10, <2>3, <3>1
  <2>4. QED BY <2>1, <2>2, <2>3
<1>13. Belonging' \/ pc'[r] = "new" \/ ~Alone(r)
  <2>1. SUFFICES ASSUME pc'[r] # "new", Alone(r) PROVE Belonging'
    OBVIOUS
  <2>2. \A q \in Requests : pc[q] # "new" => pc'[q] # "new"
    BY <2>1 DEF Alone
  <2>3. ASSUME NEW j \in Controllers, NEW x \in Args, Holds(concurrentCounter'[j], x)
        PROVE  LET p == concurrentCounter'[j].items[x]
               IN  p \in Requests /\ pc'[p] # "new" /\ args'[p][j] = x
    <3>1. CASE concurrentCounter'[j].items[x] = concurrentCounter[j].items[x]
      <4>1. CounterFor(j, x, concurrentCounter[j].items[x])
        BY <2>3, <3>1 DEF CInv, Belonging, Holds
      <4>2. QED BY <2>2, <3>1, <4>1 DEF CounterFor
    <3>2. CASE j = k /\ x = a /\ concurrentCounter'[j].items[x] = r
      BY <1>2, <2>1, <3>2
    <3>3. QED BY <1>7, <1>8, <2>3, <3>1, <3>2 DEF Holds
  <2>4. QED BY <1>1, <2>3 DEF Belonging, Holds, CounterFor
<1>14. CASE prior # Nil
  <2> DEFINE l == [local[r] EXCEPT !.rest = prior]
  <2>1. Remember(r, "loadConcurrent", l) /\ concurrent' = concurrent /\ Holds(c, a)
    BY <1>14 DEF AddConcurrent, Holds
  <2>2. prior \in Requests
    BY <1>2, <1>10, <1>14
  <2>3. l.rest = prior
    BY DEF IInv, Ranges, Locals
  <2> HIDE DEF l, prior
  <2>4. Alone(r) /\ pc'[r] = "loadConcurrent" /\ at' = at /\ local'[r] = l
    BY <2>1 DEF Remember, Move, Alone, IInv, Ranges
  <2>5. \A j \in Controllers : concurrentCounter'[j].items = concurrentCounter[j].items
    BY <1>6, <1>8, <2>1
  <2>6. Placed(r)'
    BY <1>1, <1>2, <2>2, <2>3, <2>4 DEF Placed, Asked, Loaded, InConcurrency, InStat, InQPS, Arg, Rule
  <2>7. \A j \in Controllers : Past(r, j)' => Past(r, j)
    BY <1>1, <2>4 DEF Past, InConcurrency, InStat
  <2>8. Counted(r)'
    <3>1. \A j \in Controllers : Sure(j)' /\ Past(r, j)' => Holds(concurrentCounter[j], args[r][j])'
      BY <1>1, <2>5, <2>7, SureStays DEF Counted, Holds
    <3>2. local'[r].rest = concurrentCounter'[k].items[a] /\ Holds(concurrentCounter'[k], a)
      BY <1>2, <2>1, <2>3, <2>4, <2>5 DEF Holds, prior
    <3>3. Arg(r)' = a /\ at'[r] = k
      BY <2>4 DEF Arg
    <3>4. QED BY <1>1, <3>1, <3>2, <3>3 DEF Counted, Holds
  <2>9. \A j \in Controllers : Flies(r, j)' <=> Flies(r, j)
    BY <1>1, <2>4 DEF Flies
  <2>10. QED BY <1>11, <2>1, <2>4, <2>5, <2>6, <2>8, <2>9, QuietCounts
<1>15. CASE prior = Nil
  <2>1. concurrent' = [concurrent EXCEPT ![k][r] = 0] /\ Granted(r, Never) /\ ~Holds(c, a)
    BY <1>10, <1>15 DEF AddConcurrent, Holds
  <2>2. Sure(k) => d.items = [c.items EXCEPT ![a] = r]
    BY <1>9, <2>1
  <2>3. Sure(k) => Holds(concurrentCounter'[k], a)
    BY <1>2, <1>8, <1>10, <2>2 DEF Holds
  <2>4. Placed(r)' /\ Counted(r)' /\ \A j \in Controllers : ~Flies(r, j) /\ ~Flies(r, j)'
    BY <1>1, <1>12, <2>1, <2>3, GoOnKnows DEF IInv, Granted, InConcurrency
  <2>5. Alone(r) /\ pc'[r] # "new"
    <3>1. Goes(r)
      BY <2>1, OutcomeGoes DEF IInv
    <3>2. pc'[r] \in InQPS \cup {"blocked"} \/ GoOn(r, at[r] + 1)
      BY <3>1 DEF Goes
    <3>3. at[r] + 1 \in Nat \ {0} /\ args' \in [Requests -> [Controllers -> Args \cup {NoArg}]]
      BY DEF IInv, Ranges
    <3>4. GoOn(r, at[r] + 1) => pc'[r] \in {"checked", "addConcurrent", "readClock"}
      BY <3>3, GoOnSkips DEF IInv
    <3>5. QED BY <3>1, <3>2, <3>4 DEF Goes, InQPS
  <2>6. /\ concurrent' \in [Controllers -> [Requests -> Int]]
        /\ \A j \in Controllers, q \in Requests :
             concurrent'[j][q] = IF j = k /\ q = r THEN 0 ELSE concurrent[j][q]
    <3> HIDE DEF k
    <3>1. concurrent \in [Controllers -> [Requests -> Int]] /\ 0 \in Int
      BY DEF CInv
    <3>2. QED BY <1>2, <2>1, <3>1, WriteOne
  <2>7. \A q \in Requests : Placed(q)' /\ Counted(q)'
    BY <1>12, <2>4, <2>5, OthersKnow DEF CInv, IInv
  <2>8. ASSUME NEW j \in Controllers, NEW x \in Args, Sure(j), Holds(concurrentCounter'[j], x)
        PROVE  concurrent'[j][concurrentCounter'[j].items[x]] = Cardinality(InFlight(j, x)')
    <3>1. InFlight(j, x)' = InFlight(j, x)
      BY <2>4, <2>5, OthersFly
    <3>2. CASE j = k /\ x = a
      <4>1. concurrentCounter'[j].items[x] = r
        BY <1>2, <1>8, <1>10, <2>2, <2>8, <3>2
      <4>2. InFlight(j, x) = {}
        BY <1>2, <2>1, <2>8, <3>2, NoneInFlight
      <4>3. QED BY <2>6, <3>1, <3>2, <4>1, <4>2, FS_EmptySet
    <3>3. CASE ~(j = k /\ x = a)
      <4> DEFINE p == concurrentCounter[j].items[x]
      <4>1. concurrentCounter'[j].items[x] = p
        <5>1. CASE j # k
          BY <1>8, <5>1
        <5>2. CASE j = k
          BY <1>8, <1>10, <2>2, <2>8, <3>3, <5>2
        <5>3. QED BY <5>1, <5>2
      <4>2. Holds(concurrentCounter[j], x)
        BY <2>8, <4>1 DEF Holds
      <4>3. p \in Requests /\ args[p][j] = x
        BY <4>2 DEF CInv, Belonging, CounterFor
      <4>4. ~(j = k /\ p = r)
        BY <1>2, <3>3, <4>3
      <4> HIDE DEF p
      <4>5. concurrent'[j][p] = concurrent[j][p]
        BY <2>6, <4>3, <4>4
      <4>6. concurrent[j][p] = Cardinality(InFlight(j, x))
        BY <2>8, <4>2 DEF CInv, ConcurrencyExact, Counter, Sure, p
      <4>7. QED BY <3>1, <4>1, <4>5, <4>6
    <3>4. QED BY <3>2, <3>3
  <2>9. ConcurrencyExact'
    BY <1>1, <2>8, SureStays DEF ConcurrencyExact, Sure, Counter, Holds
  <2>10. concurrent' \in [Controllers' -> [Requests -> Int]]
    BY <1>1, <2>6
  <2>11. Belonging'
    BY <1>13, <2>5
  <2>12. QED BY <1>11, <2>7, <2>9, <2>10, <2>11 DEF CInv
<1>16. QED BY <1>14, <1>15

LEMMA LoadConcurrentCounts ==
  ASSUME IInv, CInv, NEW r \in Requests, LoadConcurrent(r), UNCHANGED <<tcs, args>>
  PROVE  CInv'
<1>1. /\ pc[r] = "loadConcurrent"
      /\ Granted(r, Never) \/ Blocked(r)
      /\ UNCHANGED <<concurrent, concurrentCounter>>
  BY DEF LoadConcurrent, caches, values
<1>2. Controllers' = Controllers /\ Room' /\ PointersStay /\ Placed(r) /\ Counted(r)
  BY <1>1, RoomStays DEF Controllers, PointersStay, CInv
<1>3. Goes(r)
  BY <1>1, OutcomeGoes DEF IInv
<1>4. CASE Granted(r, Never)
  <2>1. GoOn(r, at[r] + 1) /\ pc[r] \in InQPS \cup InConcurrency /\ pc[r] \in Loaded
    BY <1>1, <1>4 DEF Granted, InConcurrency, Loaded
  <2>2. Placed(r)' /\ Counted(r)' /\ \A k \in Controllers : ~Flies(r, k) /\ ~Flies(r, k)'
    <3>1. Sure(at[r]) => Holds(concurrentCounter[at[r]], Arg(r))
      BY <1>2, <2>1 DEF Counted
    <3>2. Sure(at[r]) => Holds(concurrentCounter'[at[r]], Arg(r))
      BY <1>1, <3>1
    <3>3. QED BY <1>2, <2>1, <3>2, GoOnKnows DEF IInv
  <2>3. pc'[r] # "new"
    <3>1. at[r] + 1 \in Nat \ {0} /\ args' \in [Requests -> [Controllers -> Args \cup {NoArg}]]
      BY DEF IInv, Ranges
    <3>2. pc'[r] \in {"checked", "addConcurrent", "readClock"}
      BY <2>1, <3>1, GoOnSkips DEF IInv
    <3>3. QED BY <3>2
  <2>4. QED BY <1>1, <1>2, <1>3, <2>2, <2>3, QuietCounts DEF Goes
<1>5. CASE Blocked(r)
  <2>1. pc'[r] = "blocked"
    BY <1>5 DEF Blocked, Move, IInv, Ranges
  <2>2. Placed(r)' /\ Counted(r)' /\ \A k \in Controllers : ~Flies(r, k) /\ ~Flies(r, k)'
    <3>1. Placed(r)'
      BY <2>1 DEF Placed, InQPS, InConcurrency, InStat, Asked, Loaded
    <3>2. \A k : ~Past(r, k)'
      BY <2>1 DEF Past, InQPS, InConcurrency, InStat
    <3>3. Counted(r)'
      BY <2>1, <3>2 DEF Counted, Loaded
    <3>4. \A k \in Controllers : ~Flies(r, k) /\ ~Flies(r, k)'
      BY <1>1, <2>1 DEF Flies
    <3>5. QED BY <3>1, <3>3, <3>4
  <2>3. QED BY <1>1, <1>2, <1>3, <2>1, <2>2, QuietCounts DEF Goes
<1>6. QED BY <1>1, <1>4, <1>5

\* The next controller of a stat slot: what was known of the counters is known on.
LEMMA CountOnKnows ==
  ASSUME Ranges, NEW r \in Requests, NEW k \in Nat \ {0}, Placed(r), Counted(r),
         NEW looking \in {"passing", "completing"}, NEW after \in {"running", "done"},
         CountOn(r, k, looking, after), UNCHANGED <<tcs, args>>, PointersStay,
         pc[r] \in InStat \cup {"checked"}
  PROVE  Placed(r)' /\ Counted(r)' /\ pc'[r] \in {looking, after}
<1>1. Controllers' = Controllers
  BY DEF Controllers
<1>2. \/ at'[r] \in Controllers /\ Counts(r, at'[r]) /\ pc'[r] = looking
      \/ pc'[r] = after
  BY CountOnSkips
<1>3. Placed(r)'
  BY <1>1, <1>2 DEF Placed, Counts, InQPS, Asked, InConcurrency, InStat, Loaded, Arg, Rule, Ranges
<1>4. ASSUME NEW j \in Controllers, Sure(j)', Past(r, j)' PROVE Holds(concurrentCounter[j], args[r][j])'
  <2>1. args[r][j] \in Args /\ Past(r, j) /\ Sure(j)
    BY <1>4, SureStays DEF Past
  <2>2. Holds(concurrentCounter[j], args[r][j])
    BY <2>1 DEF Counted
  <2>3. QED BY <2>1, <2>2 DEF PointersStay, Holds
<1>5. pc'[r] \notin Loaded
  BY <1>2 DEF Loaded
<1>6. Counted(r)'
  BY <1>1, <1>4, <1>5 DEF Counted
<1>7. QED BY <1>2, <1>3, <1>6

\* Which controllers have counted the pass of a request that has come to another.
LEMMA CountOnFlies ==
  ASSUME Ranges, NEW r \in Requests, NEW k \in Nat \ {0}, UNCHANGED <<tcs, args>>,
         NEW j \in Controllers, Counts(r, j)
  PROVE  /\ CountOn(r, k, "passing", "running") => (Flies(r, j)' <=> j < k)
         /\ CountOn(r, k, "completing", "done") => (Flies(r, j)' <=> k <= j)
<1>1. j \in Nat
  BY DEF Controllers
<1>2. ASSUME NEW looking, NEW after, CountOn(r, k, looking, after)
      PROVE  /\ at'[r] \in Nat /\ at'[r] >= k
             /\ \/ pc'[r] = looking
                \/ pc'[r] = after /\ j < at'[r]
             /\ ~(k <= j /\ j < at'[r])
  BY <1>2, CountOnSkips
<1>3. ASSUME CountOn(r, k, "passing", "running") PROVE Flies(r, j)' <=> j < k
  <2>1. /\ at'[r] \in Nat /\ at'[r] >= k
        /\ pc'[r] = "passing" \/ (pc'[r] = "running" /\ j < at'[r])
        /\ ~(k <= j /\ j < at'[r])
    BY <1>2, <1>3
  <2>2. QED BY <1>1, <2>1 DEF Flies
<1>4. ASSUME CountOn(r, k, "completing", "done") PROVE Flies(r, j)' <=> k <= j
  <2>1. /\ at'[r] \in Nat /\ at'[r] >= k
        /\ pc'[r] = "completing" \/ (pc'[r] = "done" /\ j < at'[r])
        /\ ~(k <= j /\ j < at'[r])
    BY <1>2, <1>4
  <2>2. QED BY <1>1, <2>1 DEF Flies
<1>5. QED BY <1>3, <1>4

LEMMA CountOnAlone ==
  ASSUME Ranges, NEW r \in Requests, NEW k \in Nat \ {0}, UNCHANGED <<tcs, args>>,
         NEW looking, NEW after, CountOn(r, k, looking, after),
         local' = local \/ \E l : local' = [local EXCEPT ![r] = l]
  PROVE  Alone(r)
<1>1. \A q \in Requests \ {r} : pc'[q] = pc[q] /\ at'[q] = at[q]
  BY CountOnSkips
<1>2. QED BY <1>1 DEF Alone, Ranges

LEMMA DecideCounts ==
  ASSUME IInv, CInv, NEW r \in Requests, Decide(r) \/ Exit(r), UNCHANGED <<tcs, args>>
  PROVE  CInv'
<1>1. UNCHANGED <<concurrent, concurrentCounter, local>> /\ pc[r] \in {"checked", "running"}
  BY DEF Decide, Exit, caches, values
<1>2. Controllers' = Controllers /\ Room' /\ PointersStay /\ Placed(r) /\ Counted(r) /\ 1 \in Nat \ {0}
  BY <1>1, RoomStays DEF Controllers, PointersStay, CInv
<1>3. ASSUME NEW k \in Controllers, Sure(k), args[r][k] \in Args
      PROVE  k \in Nat /\ 1 <= k /\ Counts(r, k)
  BY <1>3, HotSpotAssumption DEF Sure, Counts, Controllers
<1>4. CASE Decide(r) /\ Move(r, "blocked") /\ at' = at
  <2>1. pc[r] = "checked" /\ pc'[r] = "blocked" /\ Alone(r)
    BY <1>1, <1>4 DEF Decide, Move, Alone, IInv, Ranges
  <2>2. Placed(r)' /\ Counted(r)' /\ \A k \in Controllers : ~Flies(r, k) /\ ~Flies(r, k)'
    BY <2>1 DEF Placed, Counted, Past, Flies, InQPS, InConcurrency, InStat, Asked, Loaded
  <2>3. QED BY <1>1, <1>2, <2>1, <2>2, QuietCounts
<1>5. CASE pc[r] = "checked" /\ CountOn(r, 1, "passing", "running")
  <2>1. Placed(r)' /\ Counted(r)' /\ pc'[r] \in {"passing", "running"}
    BY <1>2, <1>5, CountOnKnows DEF IInv
  <2>2. Alone(r)
    BY <1>1, <1>2, <1>5, CountOnAlone DEF IInv
  <2>3. ASSUME NEW k \in Controllers, Sure(k), args[r][k] \in Args PROVE Flies(r, k)' <=> Flies(r, k)
    <3>1. Flies(r, k)' <=> k < 1
      BY <1>2, <1>3, <1>5, <2>3, CountOnFlies DEF IInv
    <3>2. ~Flies(r, k)
      BY <1>5 DEF Flies
    <3>3. QED BY <1>3, <2>3, <3>1, <3>2
  <2>4. QED BY <1>1, <1>2, <2>1, <2>2, <2>3, QuietCounts
<1>6. CASE pc[r] = "running" /\ CountOn(r, 1, "completing", "done")
  <2>1. Placed(r)' /\ Counted(r)' /\ pc'[r] \in {"completing", "done"}
    BY <1>2, <1>6, CountOnKnows DEF IInv, InStat
  <2>2. Alone(r)
    BY <1>1, <1>2, <1>6, CountOnAlone DEF IInv
  <2>3. ASSUME NEW k \in Controllers, Sure(k), args[r][k] \in Args PROVE Flies(r, k)' <=> Flies(r, k)
    <3>1. Flies(r, k)' <=> 1 <= k
      BY <1>2, <1>3, <1>6, <2>3, CountOnFlies DEF IInv
    <3>2. Flies(r, k)
      BY <1>6 DEF Flies
    <3>3. QED BY <1>3, <2>3, <3>1, <3>2
  <2>4. QED BY <1>1, <1>2, <2>1, <2>2, <2>3, QuietCounts
<1>7. QED BY <1>4, <1>5, <1>6 DEF Decide, Exit

\* OnEntryPassed and OnCompleted look for the counter of an argument.
LEMMA LookUpCounts ==
  ASSUME IInv, CInv, NEW r \in Requests, OnEntryPassed(r) \/ OnCompleted(r),
         UNCHANGED <<tcs, args>>
  PROVE  CInv'
<1> DEFINE k == at[r]
           a == Arg(r)
           c == concurrentCounter[k]
           d == Get(c, a)
           prior == c.items[a]
           Quiet(looking, adding, after) ==
             /\ pc[r] = looking
             /\ \/ prior = Nil /\ CountOn(r, k + 1, looking, after) /\ local' = local
                \/ /\ prior # Nil /\ Move(r, adding) /\ at' = at
                   /\ local' = [local EXCEPT ![r].rest = prior]
<1>1. /\ concurrentCounter' = [concurrentCounter EXCEPT ![k] = d] /\ concurrent' = concurrent
      /\ \/ Quiet("passing", "addPassed", "running")
         \/ Quiet("completing", "addCompleted", "done")
  BY DEF OnEntryPassed, OnCompleted, LookUp, values
<1>2. /\ pc[r] \in {"passing", "completing"} /\ Placed(r) /\ Counted(r)
      /\ Controllers' = Controllers
  BY <1>1 DEF CInv, Controllers
<1>3. /\ k \in Controllers /\ a \in Args /\ args[r][k] = a /\ Rule(r) = tcs[k]
      /\ tcs[k].metric = "Concurrency" /\ k \in Nat /\ k + 1 \in Nat \ {0}
  BY <1>2 DEF Placed, Asked, InStat, Arg, Rule, Controllers
<1>4. IsLru(c) /\ Len(c.evictList) <= tcs[k].capacity /\ IsCache(c)
  BY <1>3 DEF CInv, Room, IsLru
<1>5. IsLru(d) /\ d.items = c.items /\ Len(d.evictList) = Len(c.evictList)
  <2> HIDE DEF c, a, k
  <2>1. QED BY <1>3, <1>4, GetKeeps
<1>6. /\ concurrentCounter'[k] = d
      /\ \A j \in Controllers \ {k} : concurrentCounter'[j] = concurrentCounter[j]
  <2> HIDE DEF d
  <2>1. QED BY <1>1, <1>3 DEF IInv, Ranges, Stores, AreCaches
<1> HIDE DEF d
<1>7. \A j \in Controllers : concurrentCounter'[j].items = concurrentCounter[j].items
  BY <1>5, <1>6
<1>8. PointersStay /\ Room'
  BY <1>2, <1>4, <1>5, <1>6, <1>7 DEF PointersStay, CInv, Room
<1>9. Sure(k) => Holds(c, a)
  <2>1. Past(r, k)
    BY <1>2, <1>3 DEF Past, InStat
  <2>2. Sure(k) => Holds(concurrentCounter[k], args[r][k])
    BY <1>2, <1>3, <2>1 DEF Counted
  <2>3. QED BY <1>3, <2>2
<1>10. ASSUME NEW looking \in {"passing", "completing"}, NEW adding, NEW after,
              \/ looking = "passing" /\ adding = "addPassed" /\ after = "running"
              \/ looking = "completing" /\ adding = "addCompleted" /\ after = "done",
              Quiet(looking, adding, after)
       PROVE  CInv'
  <2>1. CASE prior # Nil
    <3>1. Move(r, adding) /\ at' = at /\ local' = [local EXCEPT ![r].rest = prior]
      BY <1>10, <2>1
    <3>2. prior \in Requests /\ adding \in {"addPassed", "addCompleted"}
      BY <1>3, <1>4, <1>10, <2>1 DEF IsCache
    <3> HIDE DEF prior
    <3>3. Alone(r) /\ pc'[r] = adding /\ at'[r] = k /\ local'[r].rest = prior
      BY <3>1 DEF Move, Alone, IInv, Ranges, Locals
    <3>4. Arg(r)' = a
      BY <3>3 DEF Arg
    <3>5. Placed(r)'
      BY <1>2, <1>3, <3>2, <3>3, <3>4 DEF Placed, Asked, Loaded, InConcurrency, InStat, InQPS, Rule
    <3>6. Counted(r)'
      <4>1. \A j \in Controllers : Past(r, j)' => Past(r, j)
        BY <1>2, <3>2, <3>3 DEF Past, InStat, InQPS, InConcurrency
      <4>2. \A j \in Controllers : Sure(j)' /\ Past(r, j)' => Holds(concurrentCounter[j], args[r][j])'
        BY <1>2, <1>7, <4>1, SureStays DEF Counted, Holds
      <4>3. Sure(k) => Holds(concurrentCounter'[k], a) /\ prior = concurrentCounter'[k].items[a]
        BY <1>3, <1>7, <1>9 DEF Holds, prior
      <4>4. QED BY <1>2, <3>3, <3>4, <4>2, <4>3, SureStays DEF Counted, Holds
    <3>7. \A j \in Controllers : Flies(r, j)' <=> Flies(r, j)
      BY <1>10, <3>3 DEF Flies
    <3>8. pc'[r] # "new"
      BY <3>2, <3>3
    <3>9. QED BY <1>1, <1>7, <1>8, <3>3, <3>5, <3>6, <3>7, <3>8, QuietCounts
  <2>2. CASE prior = Nil
    <3>1. pc[r] = looking /\ CountOn(r, k + 1, looking, after) /\ local' = local /\ ~Sure(k)
      BY <1>9, <1>10, <2>2 DEF Holds
    <3>2. after \in {"running", "done"}
      BY <1>10
    <3> HIDE DEF k
    <3>3. Placed(r)' /\ Counted(r)' /\ pc'[r] \in {looking, after}
      BY <1>2, <1>3, <1>8, <3>1, <3>2, CountOnKnows DEF IInv, InStat
    <3>4. Alone(r)
      BY <1>3, <3>1, CountOnAlone DEF IInv
    <3>5. ASSUME NEW j \in Controllers, Sure(j), args[r][j] \in Args PROVE Flies(r, j)' <=> Flies(r, j)
      <4>1. Counts(r, j) /\ j \in Nat /\ j # k
        BY <3>1, <3>5, HotSpotAssumption DEF Sure, Counts, Controllers
      <4>2. CASE looking = "passing"
        <5>1. CountOn(r, k + 1, "passing", "running") /\ pc[r] = "passing"
          BY <1>10, <3>1, <4>2
        <5>2. Flies(r, j)' <=> j < k + 1
          BY <1>3, <3>5, <4>1, <5>1, CountOnFlies DEF IInv
        <5>3. Flies(r, j) <=> k > j
          BY <5>1 DEF Flies, k
        <5>4. QED BY <1>3, <4>1, <5>2, <5>3
      <4>3. CASE looking = "completing"
        <5>1. CountOn(r, k + 1, "completing", "done") /\ pc[r] = "completing"
          BY <1>10, <3>1, <4>3
        <5>2. Flies(r, j)' <=> k + 1 <= j
          BY <1>3, <3>5, <4>1, <5>1, CountOnFlies DEF IInv
        <5>3. Flies(r, j) <=> k <= j
          BY <5>1 DEF Flies, k
        <5>4. QED BY <1>3, <4>1, <5>2, <5>3
      <4>4. QED BY <1>10, <4>2, <4>3
    <3>6. pc'[r] # "new"
      BY <3>2, <3>3
    <3>7. QED BY <1>1, <1>7, <1>8, <3>3, <3>4, <3>5, <3>6, QuietCounts
  <2>3. QED BY <2>1, <2>2
<1>11. QED BY <1>1, <1>10

\* OnEntryPassed and OnCompleted count: the request is in flight for one more
\* controller, or for one less.
LEMMA AddOneCounts ==
  ASSUME IInv, CInv, NEW r \in Requests, AddPassed(r) \/ AddCompleted(r),
         UNCHANGED <<tcs, args>>,
         NEW k, k = at[r], NEW a, a = Arg(r), NEW rest, rest = local[r].rest
  PROVE  CInv'
<1> DEFINE One(n, adding, looking, after) ==
             /\ pc[r] = adding
             /\ concurrent' = [concurrent EXCEPT ![k][rest] = @ + n]
             /\ CountOn(r, k + 1, looking, after)
             /\ local' = [local EXCEPT ![r] = NoLocals]
<1>1. /\ concurrentCounter' = concurrentCounter
      /\ \/ One(1, "addPassed", "passing", "running")
         \/ One(-1, "addCompleted", "completing", "done")
  BY DEF AddPassed, AddCompleted, Add, caches
<1>2. /\ pc[r] \in {"addPassed", "addCompleted"} /\ Placed(r) /\ Counted(r)
      /\ Controllers' = Controllers
  BY <1>1 DEF CInv, Controllers
<1>3. /\ k \in Controllers /\ a \in Args /\ args[r][k] = a /\ Rule(r) = tcs[k]
      /\ tcs[k].metric = "Concurrency" /\ k \in Nat /\ k + 1 \in Nat \ {0}
      /\ rest \in Requests
  BY <1>2 DEF Placed, Asked, InStat, Loaded, Arg, Rule, Controllers
<1>4. Sure(k) => Holds(concurrentCounter[k], a) /\ rest = concurrentCounter[k].items[a]
  BY <1>2 DEF Counted, Loaded
<1>5. PointersStay /\ Room'
  BY <1>1, RoomStays DEF PointersStay, CInv
<1>6. ASSUME NEW n \in {1, -1}, NEW adding, NEW looking \in {"passing", "completing"}, NEW after,
             \/ n = 1 /\ adding = "addPassed" /\ looking = "passing" /\ after = "running"
             \/ n = -1 /\ adding = "addCompleted" /\ looking = "completing" /\ after = "done",
             One(n, adding, looking, after)
      PROVE  CInv'
  <2>1. after \in {"running", "done"} /\ n \in Int /\ pc[r] = adding
    BY <1>6
  <2>2. /\ CountOn(r, k + 1, looking, after) /\ local' = [local EXCEPT ![r] = NoLocals]
        /\ concurrent' = [concurrent EXCEPT ![k][rest] = concurrent[k][rest] + n]
    BY <1>6
  <2>3. Placed(r)' /\ Counted(r)' /\ pc'[r] \in {looking, after}
    BY <1>2, <1>3, <1>5, <2>1, <2>2, CountOnKnows DEF IInv, InStat
  <2>4. Alone(r)
    BY <1>3, <2>2, CountOnAlone DEF IInv
  <2>5. concurrent \in [Controllers -> [Requests -> Int]]
    BY DEF CInv
  <2>6. concurrent[k][rest] + n \in Int
    BY <1>3, <2>1, <2>5
  <2>7. /\ concurrent' \in [Controllers -> [Requests -> Int]]
        /\ \A j \in Controllers, q \in Requests :
             concurrent'[j][q] = IF j = k /\ q = rest THEN concurrent[k][rest] + n ELSE concurrent[j][q]
    <3>1. PICK v \in Int : v = concurrent[k][rest] + n
      BY <2>6
    <3>2. concurrent' = [concurrent EXCEPT ![k][rest] = v]
      BY <2>2, <3>1
    <3>3. /\ concurrent' \in [Controllers -> [Requests -> Int]]
          /\ \A j \in Controllers, q \in Requests :
               concurrent'[j][q] = IF j = k /\ q = rest THEN v ELSE concurrent[j][q]
      <4>1. /\ [concurrent EXCEPT ![k][rest] = v] \in [Controllers -> [Requests -> Int]]
            /\ \A j \in Controllers, q \in Requests :
                 [concurrent EXCEPT ![k][rest] = v][j][q]
                   = IF j = k /\ q = rest THEN v ELSE concurrent[j][q]
        BY <1>3, <2>5, WriteOne
      <4>2. QED BY <3>2, <4>1
    <3>4. QED BY <3>1, <3>3
  <2>8. \A q \in Requests : Placed(q)' /\ Counted(q)'
    BY <1>5, <2>3, <2>4, OthersKnow DEF CInv, IInv
  <2>9. Belonging'
    <3>1. \A q \in Requests : pc[q] # "new" => pc'[q] # "new"
      BY <2>1, <2>3, <2>4 DEF Alone
    <3>2. ASSUME NEW j \in Controllers, NEW x \in Args, Holds(concurrentCounter[j], x)
          PROVE  LET p == concurrentCounter[j].items[x]
                 IN  p \in Requests /\ pc'[p] # "new" /\ args'[p][j] = x
      BY <3>1, <3>2 DEF CInv, Belonging, CounterFor
    <3>3. QED BY <1>1, <1>2, <3>2 DEF Belonging, Holds, CounterFor
  <2>10. ASSUME NEW j \in Controllers, Sure(j), args[r][j] \in Args
         PROVE  IF j = k THEN Flies(r, k)' <=> ~Flies(r, k) ELSE Flies(r, j)' <=> Flies(r, j)
    <3>1. Counts(r, j) /\ j \in Nat
      BY <2>10, HotSpotAssumption DEF Sure, Counts, Controllers
    <3>2. CASE looking = "passing"
      <4>1. CountOn(r, k + 1, "passing", "running") /\ pc[r] = "addPassed"
        BY <1>6, <2>2, <3>2
      <4>2. Flies(r, j)' <=> j < k + 1
        BY <1>3, <2>10, <3>1, <4>1, CountOnFlies DEF IInv
      <4>3. Flies(r, j) <=> k > j
        BY <4>1 DEF Flies
      <4>4. QED BY <1>3, <3>1, <4>2, <4>3
    <3>3. CASE looking = "completing"
      <4>1. CountOn(r, k + 1, "completing", "done") /\ pc[r] = "addCompleted"
        BY <1>6, <2>2, <3>3
      <4>2. Flies(r, j)' <=> k + 1 <= j
        BY <1>3, <2>10, <3>1, <4>1, CountOnFlies DEF IInv
      <4>3. Flies(r, j) <=> k <= j
        BY <4>1 DEF Flies
      <4>4. QED BY <1>3, <3>1, <4>2, <4>3
    <3>4. QED BY <1>6, <3>2, <3>3
  <2>11. Flies(r, k) <=> n = -1
    BY <1>3, <1>6, <2>1 DEF Flies
  <2>12. Sure(k) => Cardinality(InFlight(k, a)') = Cardinality(InFlight(k, a)) + n
    <3> SUFFICES ASSUME Sure(k) PROVE Cardinality(InFlight(k, a)') = Cardinality(InFlight(k, a)) + n
      OBVIOUS
    <3>1. InFlight(k, a) = {q \in Requests : args[q][k] = a /\ Flies(q, k)}
      BY InFlightIs
    <3>2. InFlight(k, a)' = {q \in Requests : args[q][k] = a /\ Flies(q, k)'}
      BY DEF InFlight, Flies
    <3>3. \A q \in Requests \ {r} : Flies(q, k)' <=> Flies(q, k)
      BY <2>4 DEF Flies, Alone
    <3>4. Flies(r, k)' <=> ~Flies(r, k)
      BY <1>3, <2>10
    <3>5. IsFiniteSet(InFlight(k, a)) /\ Cardinality(InFlight(k, a)) \in Nat
      BY InFlightFinite
    <3>6. CASE n = 1
      <4>1. InFlight(k, a)' = InFlight(k, a) \cup {r} /\ r \notin InFlight(k, a)
        BY <1>3, <2>11, <3>1, <3>2, <3>3, <3>4, <3>6
      <4>2. QED BY <3>5, <3>6, <4>1, FS_AddElement
    <3>7. CASE n = -1
      <4>1. InFlight(k, a)' = InFlight(k, a) \ {r} /\ r \in InFlight(k, a)
        BY <1>3, <2>11, <3>1, <3>2, <3>3, <3>4, <3>7
      <4>2. Cardinality(InFlight(k, a) \ {r}) = Cardinality(InFlight(k, a)) - 1
        BY <3>5, <4>1, FS_RemoveElement
      <4>3. QED BY <3>5, <3>7, <4>1, <4>2
    <3>8. QED BY <3>6, <3>7
  <2>13. ASSUME NEW j \in Controllers, NEW x \in Args, Sure(j), Holds(concurrentCounter[j], x)
         PROVE  concurrent'[j][concurrentCounter[j].items[x]] = Cardinality(InFlight(j, x)')
    <3> DEFINE p == concurrentCounter[j].items[x]
    <3>1. p \in Requests /\ args[p][j] = x
      BY <2>13 DEF CInv, Belonging, CounterFor
    <3>2. concurrent[j][p] = Cardinality(InFlight(j, x))
      BY <2>13 DEF CInv, ConcurrencyExact, Counter, Sure
    <3>3. CASE j = k /\ x = a
      <4>1. p = rest
        BY <1>4, <2>13, <3>3
      <4>2. QED BY <1>3, <2>7, <2>12, <2>13, <3>2, <3>3, <4>1
    <3>4. CASE ~(j = k /\ x = a)
      <4>1. ~(j = k /\ p = rest)
        <5>1. CASE j # k
          BY <5>1
        <5>2. CASE j = k
          <6>1. CounterFor(k, a, concurrentCounter[k].items[a]) /\ rest = concurrentCounter[k].items[a]
            BY <1>3, <1>4, <2>13, <5>2 DEF CInv, Belonging
          <6>2. args[rest][k] = a
            BY <6>1 DEF CounterFor
          <6>3. QED BY <3>1, <3>4, <5>2, <6>2
        <5>3. QED BY <5>1, <5>2
      <4> HIDE DEF p
      <4>2. concurrent'[j][p] = concurrent[j][p]
        BY <2>7, <3>1, <4>1
      <4>3. args[r][j] = x => (Flies(r, j)' <=> Flies(r, j))
        <5>1. CASE j = k
          BY <1>3, <3>4, <5>1
        <5>2. CASE j # k
          BY <2>10, <2>13, <5>2
        <5>3. QED BY <5>1, <5>2
      <4>4. InFlight(j, x)' = InFlight(j, x)
        BY <2>4, <4>3, OthersFly
      <4>5. QED BY <3>2, <4>2, <4>4 DEF p
    <3>5. QED BY <3>3, <3>4
  <2>14. ConcurrencyExact'
    BY <1>1, <1>2, <2>13, SureStays DEF ConcurrencyExact, Sure, Counter, Holds
  <2>15. concurrent' \in [Controllers' -> [Requests -> Int]]
    BY <1>2, <2>7
  <2>16. QED BY <1>5, <2>8, <2>9, <2>14, <2>15 DEF CInv
<1>7. QED BY <1>1, <1>6

LEMMA AddCounts ==
  ASSUME IInv, CInv, NEW r \in Requests, AddPassed(r) \/ AddCompleted(r),
         UNCHANGED <<tcs, args>>
  PROVE  CInv'
<1>1. \E k, a, rest : k = at[r] /\ a = Arg(r) /\ rest = local[r].rest
  OBVIOUS
<1>2. QED BY <1>1, AddOneCounts

-----------------------------------------------------------------------------
(* Arrivals, and the theorem                                                *)

\* With an arrival there is room for no more arguments than before.
LEMMA BeginRoom ==
  ASSUME IInv, NEW r \in Requests, NEW k \in Controllers, UNCHANGED tcs, NoEviction(k)',
         args' \in [Requests -> [Controllers -> Args \cup {NoArg}]],
         \A q \in Requests \ {r} : args'[q] = args[q], args[r][k] = NoArg
  PROVE  NoEviction(k)
<1> DEFINE Met == {args[q][k] : q \in Requests} \ {NoArg}
           Then == {args'[q][k] : q \in Requests} \ {NoArg}
<1>1. Met \subseteq Then
  OBVIOUS
<1>2. Then \in SUBSET Args
  OBVIOUS
<1>3. Cardinality(Then) <= tcs[k].capacity
  BY DEF NoEviction
<1> HIDE DEF Met, Then
<1>4. IsFiniteSet(Then)
  BY <1>2, FS_Subset, HotSpotAssumption
<1>5. Cardinality(Met) <= Cardinality(Then) /\ IsFiniteSet(Met)
  BY <1>1, <1>4, FS_Subset
<1>6. Cardinality(Met) \in Nat /\ Cardinality(Then) \in Nat
  BY <1>4, <1>5, FS_CardinalityType
<1>7. tcs[k].capacity \in Nat
  BY HotSpotAssumption DEF IInv, Ranges, Controllers, IsRule
<1>8. Cardinality(Met) <= tcs[k].capacity
  BY <1>3, <1>5, <1>6, <1>7
<1>9. QED BY <1>8 DEF NoEviction, Met

\* An arrival brings new arguments, and takes or leaves no counter.
LEMMA BeginCounts ==
  ASSUME IInv, CInv, NEW r \in Requests, Begin(r)
  PROVE  CInv'
<1>1. /\ UNCHANGED <<tcs, concurrent, concurrentCounter, local>> /\ pc[r] = "new" /\ GoOn(r, 1)
      /\ Controllers' = Controllers
  BY DEF Begin, caches, values, Controllers
<1>2. PICK in \in Inputs :
        args' = [args EXCEPT ![r] = [k \in Controllers |-> ExtractArgs(tcs[k], in)]]
  BY DEF Begin
<1>3. [k \in Controllers |-> ExtractArgs(tcs[k], in)] \in [Controllers -> Args \cup {NoArg}]
  BY HotSpotAssumption DEF Controllers, IInv, Ranges
<1>4. /\ args' \in [Requests -> [Controllers -> Args \cup {NoArg}]]
      /\ \A q \in Requests \ {r} : args'[q] = args[q]
  BY <1>2, <1>3 DEF IInv, Ranges
<1>5. /\ at'[r] \in Nat
      /\ \A q \in Requests \ {r} : pc'[q] = pc[q] /\ at'[q] = at[q]
      /\ \/ /\ at'[r] \in Controllers /\ args'[r][at'[r]] \in Args
            /\ pc'[r] = IF tcs[at'[r]].metric = "Concurrency" THEN "addConcurrent" ELSE "readClock"
         \/ pc'[r] = "checked" /\ at'[r] \notin Controllers
      /\ \A j \in Controllers :
           1 <= j /\ (pc'[r] = "checked" \/ j < at'[r]) /\ tcs[j].metric = "Concurrency"
             /\ ~tcs[j].limitApp => args'[r][j] = NoArg
  <2>1. 1 \in Nat \ {0}
    OBVIOUS
  <2>2. QED BY <1>1, <1>4, <2>1, GoOnSkips DEF IInv
<1>6. pc'[r] \in {"addConcurrent", "readClock", "checked"}
  BY <1>5
<1>7. \A k \in Controllers : args[r][k] = NoArg
  BY <1>1 DEF CInv, Placed
<1>8. ASSUME NEW k \in Controllers, Sure(k)' PROVE Sure(k)
  BY <1>1, <1>4, <1>7, <1>8, BeginRoom DEF Sure
<1>9. \A k \in Controllers : tcs[k].metric \in {"Concurrency", "QPS"}
  BY HotSpotAssumption DEF IInv, Ranges, Controllers, IsRule
<1>10. Placed(r)'
  BY <1>1, <1>5, <1>6, <1>9 DEF Placed, Asked, Loaded, InConcurrency, InStat, InQPS, Rule, Arg
<1>11. Counted(r)'
  <2>1. ASSUME NEW k \in Controllers, Sure(k)', Past(r, k)' PROVE FALSE
    <3>1. args'[r][k] \in Args /\ (pc'[r] = "checked" \/ k < at'[r]) /\ 1 <= k
      BY <1>5, <1>6, <2>1 DEF Past, Controllers, InStat
    <3>2. args'[r][k] = NoArg
      BY <1>1, <1>5, <2>1, <3>1 DEF Sure
    <3>3. QED BY <3>1, <3>2, HotSpotAssumption
  <2>2. QED BY <1>1, <1>6, <2>1 DEF Counted, Loaded
<1>12. ASSUME NEW q \in Requests, q # r PROVE Placed(q)' /\ Counted(q)'
  <2>1. pc'[q] = pc[q] /\ at'[q] = at[q] /\ args'[q] = args[q]
    BY <1>4, <1>5, <1>12
  <2>2. Arg(q)' = Arg(q) /\ Rule(q)' = Rule(q)
    BY <1>1, <2>1 DEF Arg, Rule
  <2>3. Placed(q) /\ Counted(q)
    BY DEF CInv
  <2>4. Placed(q)'
    BY <1>1, <2>1, <2>2, <2>3 DEF Placed
  <2>5. ASSUME NEW k \in Controllers, Sure(k)', Past(q, k)' PROVE Holds(concurrentCounter[k], args[q][k])
    <3>1. Sure(k) /\ Past(q, k)
      BY <1>8, <2>1, <2>5 DEF Past
    <3>2. QED BY <2>3, <3>1 DEF Counted
  <2>6. ASSUME pc[q] \in Loaded, Sure(at[q])'
        PROVE  /\ Holds(concurrentCounter[at[q]], Arg(q))
               /\ local[q].rest = concurrentCounter[at[q]].items[Arg(q)]
    <3>1. at[q] \in Controllers
      BY <2>3, <2>6 DEF Placed, Asked, Loaded, InConcurrency, InStat
    <3>2. PICK k \in Controllers : k = at[q]
      BY <3>1
    <3>3. Sure(k)'
      BY <2>1, <2>6, <3>2 DEF Sure, NoEviction
    <3>4. Sure(at[q])
      BY <1>8, <3>2, <3>3
    <3>5. QED BY <2>3, <2>6, <3>4 DEF Counted
  <2>7. Counted(q)'
    BY <1>1, <2>1, <2>2, <2>5, <2>6 DEF Counted, Holds, Sure, NoEviction
  <2>8. QED BY <2>4, <2>7
<1>13. Belonging'
  <2>1. ASSUME NEW k \in Controllers, NEW x \in Args, Holds(concurrentCounter[k], x)
        PROVE  LET p == concurrentCounter[k].items[x]
               IN  p \in Requests /\ pc'[p] # "new" /\ args'[p][k] = x
    <3>1. CounterFor(k, x, concurrentCounter[k].items[x])
      BY <2>1 DEF CInv, Belonging
    <3>2. QED BY <1>1, <1>4, <1>5, <3>1 DEF CounterFor
  <2>2. QED BY <1>1, <2>1 DEF Belonging, Holds, CounterFor
<1>14. Room'
  BY <1>1, RoomStays DEF CInv
<1>15. ASSUME NEW k \in Controllers, NEW x \in Args, Sure(k)', Holds(concurrentCounter[k], x)
       PROVE  Counter(k, x) = Cardinality(InFlight(k, x)')
  <2>1. Counter(k, x) = Cardinality(InFlight(k, x))
    BY <1>8, <1>15 DEF CInv, ConcurrencyExact, Sure
  <2>2. ~Flies(r, k) /\ ~Flies(r, k)'
    BY <1>1, <1>6 DEF Flies
  <2>3. \A q \in Requests \ {r} : (Flies(q, k)' <=> Flies(q, k)) /\ args'[q][k] = args[q][k]
    BY <1>4, <1>5 DEF Flies
  <2>4. InFlight(k, x)' = {q \in Requests : args'[q][k] = x /\ Flies(q, k)'}
    BY DEF InFlight, Flies
  <2>5. InFlight(k, x) = {q \in Requests : args[q][k] = x /\ Flies(q, k)}
    BY InFlightIs
  <2>6. InFlight(k, x)' = InFlight(k, x)
    BY <2>2, <2>3, <2>4, <2>5
  <2>7. QED BY <2>1, <2>6
<1>16. ConcurrencyExact'
  BY <1>1, <1>15 DEF ConcurrencyExact, Sure, Counter, Holds
<1>17. concurrent' \in [Controllers' -> [Requests -> Int]]
  BY <1>1 DEF CInv
<1>18. \A q \in Requests : Placed(q)' /\ Counted(q)'
  BY <1>10, <1>11, <1>12
<1>19. QED BY <1>13, <1>14, <1>16, <1>17, <1>18 DEF CInv

\* An empty cache.
LEMMA NewLruIsLru == IsLru(NewLRU) /\ Len(NewLRU.evictList) = 0
<1>1. NewLRU = [items |-> [x \in Args |-> Nil], evictList |-> <<>>]
  BY DEF NewLRU
<1>2. IsCache(NewLRU) /\ NewLRU.evictList = <<>>
  BY <1>1 DEF IsCache
<1>3. \A x \in Args : ~Holds(NewLRU, x)
  BY <1>1 DEF Holds
<1>4. IsList(<<>>) /\ ToSet(<<>>) = {} /\ Len(<<>>) = 0
  BY EmptySeq DEF IsList, ToSet, IsInjective
<1>5. QED BY <1>2, <1>3, <1>4 DEF IsLru

LEMMA InitCounts == Init => CInv
<1> SUFFICES ASSUME Init PROVE CInv
  OBVIOUS
<1>1. /\ concurrent \in [Controllers -> [Requests -> Int]]
      /\ \A k \in Controllers : concurrentCounter[k] = NewLRU
      /\ \A r \in Requests : pc[r] = "new" /\ \A k \in Controllers : args[r][k] = NoArg
  BY DEF Init
<1>2. \A k \in Controllers, x \in Args : ~Holds(concurrentCounter[k], x)
  BY <1>1 DEF Holds, NewLRU
<1>3. IsLru(NewLRU) /\ Len(NewLRU.evictList) = 0
  BY NewLruIsLru
<1>4. Room
  <2>1. \A k \in Controllers : tcs[k].capacity \in Nat
    BY HotSpotAssumption DEF Init, Controllers, IsRule
  <2>2. QED BY <1>1, <1>3, <2>1 DEF Room
<1>5. Belonging /\ ConcurrencyExact
  BY <1>2 DEF Belonging, ConcurrencyExact
<1>6. \A r \in Requests : Placed(r) /\ Counted(r)
  BY <1>1 DEF Placed, Counted, Past, InQPS, Asked, Loaded, InConcurrency, InStat
<1>7. QED BY <1>1, <1>4, <1>5, <1>6 DEF CInv

LEMMA NextCounts == IInv /\ CInv /\ [Next]_vars => CInv'
<1> SUFFICES ASSUME IInv, CInv, [Next]_vars PROVE CInv'
  OBVIOUS
<1>1. CASE UNCHANGED <<tcs, concurrentCounter, concurrent, pc, args, at, local>>
  <2>1. Controllers' = Controllers
    BY <1>1 DEF Controllers
  <2>2. Belonging' /\ Room'
    BY <1>1, <2>1 DEF CInv, Belonging, Room, CounterFor
  <2>3. \A r \in Requests : Placed(r)' /\ Counted(r)'
    <3> SUFFICES ASSUME NEW r \in Requests PROVE Placed(r)' /\ Counted(r)'
      OBVIOUS
    <3>1. Placed(r) /\ Counted(r)
      BY DEF CInv
    <3>2. Placed(r)'
      BY <1>1, <2>1, <3>1 DEF Placed, Arg, Rule
    <3>3. \A k : (Sure(k)' <=> Sure(k)) /\ (Past(r, k)' <=> Past(r, k))
      BY <1>1 DEF Sure, NoEviction, Past
    <3>4. Arg(r)' = Arg(r) /\ (Sure(at[r])' <=> Sure(at[r]))
      BY <1>1 DEF Arg, Sure, NoEviction
    <3>5. Counted(r)'
      BY <1>1, <2>1, <3>1, <3>3, <3>4 DEF Counted, Holds
    <3>6. QED BY <3>2, <3>5
  <2>4. ConcurrencyExact'
    BY <1>1, <2>1 DEF CInv, ConcurrencyExact, Counter, InFlight, NoEviction
  <2>5. QED BY <1>1, <2>1, <2>2, <2>3, <2>4 DEF CInv
<1>2. CASE Tick \/ Finished \/ UNCHANGED vars
  BY <1>1, <1>2 DEF Tick, Finished, vars, caches, values, request
<1>3. ASSUME NEW r \in Requests, Begin(r) PROVE CInv'
  BY <1>3, BeginCounts
<1>4. ASSUME NEW r \in Requests, Step(r) PROVE CInv'
  <2>1. UNCHANGED <<tcs, args>>
    BY <1>4 DEF Step, request
  <2>2. \/ InLoop(r) \/ AddConcurrent(r) \/ LoadConcurrent(r) \/ Decide(r) \/ Exit(r)
        \/ OnEntryPassed(r) \/ OnCompleted(r) \/ AddPassed(r) \/ AddCompleted(r)
    BY <1>4 DEF Step, InLoop
  <2>3. QED
    BY <2>1, <2>2, LoopCounts, AddConcurrentCounts, LoadConcurrentCounts, DecideCounts,
       LookUpCounts, AddCounts
<1>5. QED BY <1>2, <1>3, <1>4 DEF Next

\* For every number of requests and every interleaving of their checks and stat
\* slots: while the cache has room for the arguments met, the counter of an
\* argument is the number of entries in flight with it.
THEOREM ConcurrencyAlwaysExact == Spec => []ConcurrencyExact
<1>1. Init => IInv /\ CInv
  BY InitOrder, InitCounts
<1>2. (IInv /\ CInv) /\ [Next]_vars => (IInv /\ CInv)'
  BY NextOrder, NextCounts
<1>3. IInv /\ CInv => ConcurrencyExact
  BY DEF CInv
<1>4. QED
  BY <1>1, <1>2, <1>3, PTL DEF Spec

-----------------------------------------------------------------------------
(* The distance throttling keeps                                            *)

\* A controller whose requests keep their distance.
Slows(k) == tcs[k].metric = "QPS" /\ tcs[k].behavior = "Throttling" /\ NoEviction(k)

Interval(r, k, arg) == (batch[r] * tcs[k].durationInSec) \div TokenCount(k, arg)

\* The counters of time in the caches are for the arguments they are found under,
\* and the caches are consistent and within their size.
TimesBelong ==
  \A k \in Controllers, arg \in Args :
    Holds(timeCounter[k], arg) => CounterFor(k, arg, timeCounter[k].items[arg])

TimesRoom ==
  \A k \in Controllers :
    IsLru(timeCounter[k]) /\ Len(timeCounter[k].evictList) <= tcs[k].capacity

Timed == {"loadTime", "swapTime", "stampExpected"}

\* A request of the throttling strategy has the counter of its argument in its
\* hands; the place it is about to take is an interval after the time it has seen,
\* and when it has left the present there, nobody who passed is beyond that time.
OnTime(r) ==
  pc[r] \in Timed /\ Slows(at[r]) =>
    /\ Holds(timeCounter[at[r]], Arg(r))
    /\ local[r].last = timeCounter[at[r]].items[Arg(r)]
    /\ pc[r] # "loadTime" => local[r].new = local[r].old + IntervalCost(r)
    /\ pc[r] = "stampExpected" /\ ~disturbed =>
         \A q \in PassedBy(at[r], Arg(r)) : passAt[at[r]][q] <= local[r].old

\* Somebody has left the present in place of the end of the queue.
Stamping(k, arg) == \E r \in Requests : pc[r] = "stampExpected" /\ at[r] = k /\ Arg(r) = arg

\* Whoever passed did so no later than the time in the cache says.
UpToTime ==
  \A k \in Controllers, arg \in Args :
    /\ Slows(k) /\ PassedBy(k, arg) # {} => Holds(timeCounter[k], arg)
    /\ Slows(k) /\ ~disturbed /\ ~Stamping(k, arg) =>
         \A q \in PassedBy(k, arg) : passAt[k][q] <= time[k][timeCounter[k].items[arg]]

\* Two requests half way disturb each other.
OneHalfWay ==
  ~disturbed => \A r, q \in Requests : pc[r] \in HalfWay /\ pc[q] \in HalfWay => r = q

Unheard(r) ==
  pc[r] = "new" => \A k \in Controllers : args[r][k] = NoArg /\ passAt[k][r] = Never

\* Spaced, in these terms.
Distant ==
  ~disturbed => \A k \in Controllers, arg \in Args :
    Slows(k) => \A r, q \in PassedBy(k, arg) :
      \/ r = q
      \/ passAt[k][r] - passAt[k][q] >= Interval(r, k, arg)
      \/ passAt[k][q] - passAt[k][r] >= Interval(q, k, arg)

DInv ==
  /\ passAt \in [Controllers -> [Requests -> Int]]
  /\ TimesBelong /\ TimesRoom /\ UpToTime /\ OneHalfWay
  /\ \A r \in Requests : OnTime(r) /\ Unheard(r)
  /\ Distant

LEMMA DistantSpaced == Distant => Spaced
BY DEF Distant, Spaced, Slows, Interval

LEMMA SlowsStays ==
  ASSUME UNCHANGED <<tcs, args>>, NEW k
  PROVE  Slows(k)' <=> Slows(k)
BY DEF Slows, NoEviction

\* The interval of a request that throttling has not refused.
LEMMA IntervalNat ==
  ASSUME Ranges, NEW r \in Requests, NEW k \in Controllers, NEW a, TokenCount(k, a) > 0,
         tcs[k].metric = "QPS"
  PROVE  Interval(r, k, a) \in Nat
<1>1. batch[r] \in Nat /\ tcs[k].durationInSec \in Nat
  BY MaxCountInt DEF Ranges
<1>2. TokenCount(k, a) \in Nat \ {0}
  BY MaxCountInt DEF Ranges
<1>3. batch[r] * tcs[k].durationInSec \in Nat
  BY <1>1
<1>4. \A m \in Nat, n \in Nat \ {0} : m \div n \in Nat
  OBVIOUS
<1>5. QED BY <1>2, <1>3, <1>4 DEF Interval

\* Who does not move is on time as before, whatever happens to other counters.
LEMMA OthersOnTime ==
  ASSUME IInv, DInv, NEW r \in Requests, Alone(r), UNCHANGED <<tcs, args, batch>>,
         disturbed => disturbed', NEW q \in Requests, q # r,
         pc[q] \in Timed /\ Slows(at[q]) =>
           /\ timeCounter'[at[q]].items[Arg(q)] = timeCounter[at[q]].items[Arg(q)]
           /\ pc[q] = "stampExpected" /\ ~disturbed' => passAt'[at[q]] = passAt[at[q]]
  PROVE  OnTime(q)'
<1>1. pc'[q] = pc[q] /\ at'[q] = at[q] /\ local'[q] = local[q] /\ Arg(q)' = Arg(q)
  BY DEF Alone, Arg
<1>2. Slows(at[q])' <=> Slows(at[q])
  BY <1>1 DEF Slows, NoEviction
<1>3. OnTime(q)
  BY DEF DInv
<1>4. Interval(q, at[q], Arg(q))' = IntervalCost(q) /\ IntervalCost(q)' = IntervalCost(q)
  BY <1>1 DEF Interval, IntervalCost, TokenCount, Rule
<1> SUFFICES ASSUME pc[q] \in Timed, Slows(at[q]) PROVE OnTime(q)'
  BY <1>1, <1>2 DEF OnTime
<1>5. /\ Holds(timeCounter[at[q]], Arg(q)) /\ local[q].last = timeCounter[at[q]].items[Arg(q)]
      /\ pc[q] # "loadTime" => local[q].new = local[q].old + IntervalCost(q)
      /\ pc[q] = "stampExpected" /\ ~disturbed =>
           \A p \in PassedBy(at[q], Arg(q)) : passAt[at[q]][p] <= local[q].old
  BY <1>3 DEF OnTime
<1>6. /\ Holds(timeCounter'[at[q]], Arg(q)) /\ local[q].last = timeCounter'[at[q]].items[Arg(q)]
  BY <1>5 DEF Holds
<1>7. ASSUME pc[q] = "stampExpected", ~disturbed'
      PROVE  \A p \in Requests : args[p][at[q]] = Arg(q) /\ passAt'[at[q]][p] # Never
                                   => passAt'[at[q]][p] <= local[q].old
  BY <1>5, <1>7 DEF PassedBy
<1>8. QED BY <1>1, <1>4, <1>5, <1>6, <1>7 DEF OnTime, PassedBy, Holds

\* A step that does nothing to the times of throttled arguments.
LEMMA QuietSpaces ==
  ASSUME IInv, DInv, NEW r \in Requests, Alone(r), UNCHANGED <<tcs, args, batch>>,
         disturbed => disturbed', TimesBelong', TimesRoom', OneHalfWay', OnTime(r)',
         passAt' \in [Controllers -> [Requests -> Int]],
         \A j \in Controllers, q \in Requests \ {r} : passAt'[j][q] = passAt[j][q],
         \A j \in Controllers : Slows(j) =>
           /\ timeCounter'[j].items = timeCounter[j].items
           /\ time'[j] = time[j] /\ passAt'[j] = passAt[j],
         pc'[r] # "new", Slows(at[r]) => pc[r] # "stampExpected"
  PROVE  DInv'
<1>1. Controllers' = Controllers
  BY DEF Controllers
<1>2. \A q \in Requests : pc[q] \in Timed => at[q] \in Controllers
  BY DEF IInv, InOrder, Timed, Loop
<1>3. \A q \in Requests : OnTime(q)'
  <2>1. ASSUME NEW q \in Requests, q # r PROVE OnTime(q)'
    BY <1>2, <2>1, OthersOnTime
  <2>2. QED BY <2>1
<1>4. \A q \in Requests : Unheard(q)'
  BY <1>1 DEF Unheard, DInv, Alone
<1>5. \A k : Slows(k)' <=> Slows(k)
  BY SlowsStays
<1>6. ASSUME NEW k \in Controllers, NEW a, Slows(k) PROVE PassedBy(k, a)' = PassedBy(k, a)
  BY <1>6 DEF PassedBy
<1>7. UpToTime'
  <2>1. ASSUME NEW k \in Controllers, NEW a \in Args, Slows(k), PassedBy(k, a) # {}
        PROVE  Holds(timeCounter'[k], a)
    BY <2>1 DEF DInv, UpToTime, Holds
  <2>2. ASSUME NEW k \in Controllers, NEW a \in Args, Slows(k), ~disturbed', ~Stamping(k, a)',
               NEW q \in PassedBy(k, a)
        PROVE  passAt'[k][q] <= time'[k][timeCounter'[k].items[a]]
    <3>1. ~Stamping(k, a)
      <4>1. ASSUME NEW p \in Requests, pc[p] = "stampExpected", at[p] = k, Arg(p) = a PROVE FALSE
        <5>1. p # r
          BY <2>2, <4>1
        <5>2. pc'[p] = "stampExpected" /\ at'[p] = k /\ Arg(p)' = a
          BY <4>1, <5>1 DEF Alone, Arg
        <5>3. QED BY <2>2, <5>2 DEF Stamping
      <4>2. QED BY <4>1 DEF Stamping
    <3>2. passAt[k][q] <= time[k][timeCounter[k].items[a]]
      BY <2>2, <3>1 DEF DInv, UpToTime
    <3>3. QED BY <2>2, <3>2
  <2>3. QED BY <1>1, <1>5, <1>6, <2>1, <2>2 DEF UpToTime, Holds
<1>8. Distant'
  <2>1. ASSUME NEW k \in Controllers, NEW a \in Args, Slows(k), ~disturbed',
               NEW p \in PassedBy(k, a), NEW q \in PassedBy(k, a), p # q
        PROVE  \/ passAt'[k][p] - passAt'[k][q] >= Interval(p, k, a)
               \/ passAt'[k][q] - passAt'[k][p] >= Interval(q, k, a)
    BY <2>1 DEF DInv, Distant
  <2>2. \A p, k, a : Interval(p, k, a)' = Interval(p, k, a)
    BY DEF Interval, TokenCount
  <2>3. QED BY <1>1, <1>5, <1>6, <2>1, <2>2 DEF Distant
<1>9. QED BY <1>1, <1>3, <1>4, <1>7, <1>8 DEF DInv

\* The caches of times are not touched.
LEMMA TimesStay ==
  ASSUME TimesBelong, TimesRoom, UNCHANGED <<tcs, args, timeCounter>>,
         \A q \in Requests : pc[q] # "new" => pc'[q] # "new"
  PROVE  TimesBelong' /\ TimesRoom'
<1>1. Controllers' = Controllers
  BY DEF Controllers
<1>2. ASSUME NEW k \in Controllers, NEW a \in Args, Holds(timeCounter[k], a)
      PROVE  LET p == timeCounter[k].items[a]
             IN  p \in Requests /\ pc'[p] # "new" /\ args[p][k] = a
  BY <1>2 DEF TimesBelong, CounterFor
<1>3. TimesBelong'
  BY <1>1, <1>2 DEF TimesBelong, Holds, CounterFor
<1>4. QED BY <1>1, <1>3 DEF TimesRoom

\* Where the outcomes of a step of a check leave the request.
LEMMA OutcomeLeaves ==
  ASSUME Ranges, passAt \in [Controllers -> [Requests -> Int]], NEW r \in Requests,
         at[r] \in Controllers, UNCHANGED <<tcs, args>>
  PROVE  /\ Blocked(r) => Alone(r) /\ pc'[r] = "blocked" /\ passAt' = passAt
         /\ \A p, l : Remember(r, p, l) =>
              Alone(r) /\ pc'[r] = p /\ local'[r] = l /\ at' = at /\ passAt' = passAt
         /\ \A p : Continue(r, p) =>
              Alone(r) /\ pc'[r] = p /\ local' = local /\ at' = at /\ passAt' = passAt
         /\ Again(r) => Alone(r) /\ pc'[r] = "readClock" /\ passAt' = passAt
         /\ \A when \in Int : Granted(r, when) =>
              /\ Alone(r) /\ pc'[r] \in {"addConcurrent", "readClock", "checked"}
              /\ passAt' \in [Controllers -> [Requests -> Int]]
              /\ \A j \in Controllers, q \in Requests :
                   passAt'[j][q] = IF j = at[r] /\ q = r THEN when ELSE passAt[j][q]
              /\ \A j \in Controllers \ {at[r]} : passAt'[j] = passAt[j]
<1>1. Blocked(r) => Alone(r) /\ pc'[r] = "blocked" /\ passAt' = passAt
  BY DEF Blocked, Move, Alone, Ranges
<1>2. ASSUME NEW p, NEW l, Remember(r, p, l)
      PROVE  Alone(r) /\ pc'[r] = p /\ local'[r] = l /\ at' = at /\ passAt' = passAt
  BY <1>2 DEF Remember, Move, Alone, Ranges
<1>3. ASSUME NEW p, Continue(r, p)
      PROVE  Alone(r) /\ pc'[r] = p /\ local' = local /\ at' = at /\ passAt' = passAt
  BY <1>3 DEF Continue, Move, Alone, Ranges
<1>4. Again(r) => Alone(r) /\ pc'[r] = "readClock" /\ passAt' = passAt
  BY <1>2 DEF Again
<1>5. ASSUME NEW when \in Int, Granted(r, when)
      PROVE  /\ Alone(r) /\ pc'[r] \in {"addConcurrent", "readClock", "checked"}
             /\ passAt' \in [Controllers -> [Requests -> Int]]
             /\ \A j \in Controllers, q \in Requests :
                  passAt'[j][q] = IF j = at[r] /\ q = r THEN when ELSE passAt[j][q]
             /\ \A j \in Controllers \ {at[r]} : passAt'[j] = passAt[j]
  <2>1. GoOn(r, at[r] + 1) /\ local' = [local EXCEPT ![r] = NoLocals]
        /\ passAt' = [passAt EXCEPT ![at[r]][r] = when]
    BY <1>5 DEF Granted
  <2>2. at[r] + 1 \in Nat \ {0} /\ args' \in [Requests -> [Controllers -> Args \cup {NoArg}]]
    BY DEF Ranges
  <2>3. pc'[r] \in {"addConcurrent", "readClock", "checked"}
        /\ \A q \in Requests \ {r} : pc'[q] = pc[q] /\ at'[q] = at[q]
    BY <2>1, <2>2, GoOnSkips
  <2>4. Alone(r)
    BY <2>1, <2>3 DEF Alone, Ranges
  <2>5. /\ [passAt EXCEPT ![at[r]][r] = when] \in [Controllers -> [Requests -> Int]]
        /\ \A j \in Controllers, q \in Requests :
             [passAt EXCEPT ![at[r]][r] = when][j][q]
               = IF j = at[r] /\ q = r THEN when ELSE passAt[j][q]
    BY WriteOne
  <2>6. \A j \in Controllers \ {at[r]} : passAt'[j] = passAt[j]
    BY <2>1
  <2>7. QED BY <2>1, <2>3, <2>4, <2>5, <2>6
<1>6. QED BY <1>1, <1>2, <1>3, <1>4, <1>5

\* A step that half fills a bucket or half sets a time while another has done so
\* disturbs it.
LEMMA HalfWayStep ==
  ASSUME OneHalfWay, NEW r \in Requests, Alone(r), disturbed' = (disturbed \/ Disturbs(r)),
         pc'[r] \in HalfWay => pc[r] \in InQPS
  PROVE  OneHalfWay'
<1> SUFFICES ASSUME ~disturbed', NEW p \in Requests, NEW q \in Requests,
                    pc'[p] \in HalfWay, pc'[q] \in HalfWay
             PROVE  p = q
  BY DEF OneHalfWay
<1>1. ~disturbed /\ ~Disturbs(r)
  OBVIOUS
<1>2. \A s \in Requests : s # r /\ pc'[s] \in HalfWay => pc[s] \in HalfWay
  BY DEF Alone
<1>3. pc'[r] \in HalfWay => \A s \in Requests : pc[s] \in HalfWay => s = r
  BY <1>1 DEF Disturbs
<1>4. \A s, t \in Requests : pc[s] \in HalfWay /\ pc[t] \in HalfWay => s = t
  BY <1>1 DEF OneHalfWay
<1>5. QED BY <1>2, <1>3, <1>4

\* What most steps of a check, and those of the stat slot, have in common.
Plain(r) ==
  /\ Alone(r) /\ timeCounter' = timeCounter
  /\ pc'[r] # "new" /\ pc'[r] \notin Timed
  /\ pc'[r] \in HalfWay => pc[r] \in InQPS
  /\ Slows(at[r]) => pc[r] # "stampExpected"
  /\ passAt' \in [Controllers -> [Requests -> Int]]
  /\ \A j \in Controllers, q \in Requests \ {r} : passAt'[j][q] = passAt[j][q]
  /\ \A j \in Controllers : Slows(j) => time'[j] = time[j] /\ passAt'[j] = passAt[j]

LEMMA PlainSpaces ==
  ASSUME IInv, DInv, NEW r \in Requests, Plain(r), UNCHANGED <<tcs, args, batch>>,
         disturbed' = (disturbed \/ Disturbs(r))
  PROVE  DInv'
<1>1. TimesBelong' /\ TimesRoom'
  <2>1. \A q \in Requests : pc[q] # "new" => pc'[q] # "new"
    BY DEF Plain, Alone
  <2>2. QED BY <2>1, TimesStay DEF Plain, DInv
<1>2. OneHalfWay'
  BY HalfWayStep DEF Plain, DInv
<1>3. OnTime(r)'
  BY DEF OnTime, Plain
<1>4. QED BY <1>1, <1>2, <1>3, QuietSpaces DEF Plain

\* The outcomes of a step that is plain but for where it leaves the request.
LEMMA OutcomePlain ==
  ASSUME IInv, DInv, NEW r \in Requests, at[r] \in Controllers, pc[r] \in InQPS \cup InConcurrency,
         Slows(at[r]) => pc[r] # "stampExpected", UNCHANGED <<tcs, args, timeCounter>>,
         \A j \in Controllers : Slows(j) => time'[j] = time[j],
         \/ Blocked(r) \/ Again(r)
         \/ \E p \in (PCs \ Timed) \ {"new"} :
              (p \in HalfWay => pc[r] \in InQPS) /\ (Continue(r, p) \/ \E l : Remember(r, p, l))
         \/ \E when \in Int : Granted(r, when) /\ ~Slows(at[r])
  PROVE  Plain(r)
<1>1. Ranges /\ passAt \in [Controllers -> [Requests -> Int]]
  BY DEF IInv, DInv
<1>2. CASE Blocked(r) \/ Again(r)
  <2>1. Alone(r) /\ pc'[r] \in {"blocked", "readClock"} /\ passAt' = passAt
    BY <1>1, <1>2, OutcomeLeaves
  <2>2. QED BY <1>1, <2>1 DEF Plain, Timed, HalfWay
<1>3. ASSUME NEW p \in (PCs \ Timed) \ {"new"}, p \in HalfWay => pc[r] \in InQPS,
             Continue(r, p) \/ \E l : Remember(r, p, l)
      PROVE  Plain(r)
  <2>1. Alone(r) /\ pc'[r] = p /\ passAt' = passAt
    BY <1>1, <1>3, OutcomeLeaves
  <2>2. QED BY <1>1, <1>3, <2>1 DEF Plain
<1>4. ASSUME NEW when \in Int, Granted(r, when), ~Slows(at[r]) PROVE Plain(r)
  <2>1. /\ Alone(r) /\ pc'[r] \in {"addConcurrent", "readClock", "checked"}
        /\ passAt' \in [Controllers -> [Requests -> Int]]
        /\ \A j \in Controllers, q \in Requests :
             passAt'[j][q] = IF j = at[r] /\ q = r THEN when ELSE passAt[j][q]
        /\ \A j \in Controllers \ {at[r]} : passAt'[j] = passAt[j]
    BY <1>1, <1>4, OutcomeLeaves
  <2>2. pc'[r] # "new" /\ pc'[r] \notin Timed /\ pc'[r] \notin HalfWay
    BY <2>1 DEF Timed, HalfWay
  <2>3. \A j \in Controllers : Slows(j) => passAt'[j] = passAt[j]
    BY <1>4, <2>1
  <2>4. QED BY <2>1, <2>2, <2>3 DEF Plain
<1>5. QED BY <1>2, <1>3, <1>4

\* What the steps of the loop start from.
LEMMA LoopFacts ==
  ASSUME IInv, CInv, NEW r \in Requests
  PROVE  /\ pc[r] \in InQPS \cup InConcurrency => at[r] \in Controllers
         /\ pc[r] \in InConcurrency => ~Slows(at[r])
         /\ pc[r] \in BucketOnly => ~Slows(at[r])
         /\ local[r].now \in Int /\ local[r].new \in Int /\ local[r].old \in Int
         /\ Never \in Int
<1>1. pc[r] \in InQPS \cup InConcurrency => at[r] \in Controllers
  BY DEF CInv, Placed, Asked
<1>2. pc[r] \in InConcurrency => ~Slows(at[r])
  BY DEF CInv, Placed, Asked, Rule, Slows
<1>3. pc[r] \in BucketOnly => ~Slows(at[r])
  BY DEF IInv, InOrder, Rule, Slows
<1>4. local[r].now \in Int /\ local[r].new \in Int /\ local[r].old \in Int
  BY DEF IInv, Ranges, Locals
<1>5. QED BY <1>1, <1>2, <1>3, <1>4 DEF Never

\* A place of the loop that is not one of throttling.
Places == {"addTime", "firstTokens", "refill", "loadOld", "swapRefill", "stamp", "spend",
           "loadRest", "swapSpend"}

\* How a step ends that leaves the times of throttled arguments alone.
Ends(r) ==
  \/ Blocked(r) \/ Again(r)
  \/ \E p \in Places : Continue(r, p) \/ \E l : Remember(r, p, l)
  \/ \E when \in Int : Granted(r, when) /\ ~Slows(at[r])

LEMMA EndsPlain ==
  ASSUME IInv, CInv, DInv, NEW r \in Requests, UNCHANGED <<tcs, args, timeCounter>>, Ends(r),
         pc[r] \in InQPS \cup InConcurrency, Slows(at[r]) => pc[r] # "stampExpected",
         pc[r] \in InConcurrency => Blocked(r) \/ \E when \in Int : Granted(r, when) /\ ~Slows(at[r]),
         \A j \in Controllers : Slows(j) => time'[j] = time[j]
  PROVE  Plain(r)
<1>1. at[r] \in Controllers
  BY LoopFacts
<1>2. CASE Blocked(r) \/ Again(r) \/ \E when \in Int : Granted(r, when) /\ ~Slows(at[r])
  BY <1>1, <1>2, OutcomePlain
<1>3. ASSUME NEW p \in Places, Continue(r, p) \/ \E l : Remember(r, p, l), pc[r] \in InQPS
      PROVE  Plain(r)
  <2>1. p \in (PCs \ Timed) \ {"new"}
    BY <1>3 DEF Places, PCs, InQPS, Timed
  <2>2. QED BY <1>1, <1>3, <2>1, OutcomePlain
<1>4. QED BY <1>2, <1>3 DEF Ends

\* A write to the time of an argument that is not throttled.
LEMMA WriteElsewhere ==
  ASSUME Ranges, NEW k, NEW p, NEW t, ~Slows(k), time' = [time EXCEPT ![k][p] = t]
  PROVE  \A j \in Controllers : Slows(j) => time'[j] = time[j]
BY DEF Ranges, Stores

\* The steps of the loop that leave the times of throttled arguments alone.
LEMMA LoopPlain ==
  ASSUME IInv, CInv, DInv, NEW r \in Requests, UNCHANGED <<tcs, args>>,
         \/ ReadClock(r) \/ FirstTokens(r) \/ Refill(r) \/ LoadOld(r) \/ SwapRefill(r)
         \/ Stamp(r) \/ Spend(r) \/ LoadRest(r) \/ SwapSpend(r)
  PROVE  Plain(r)
<1> DEFINE Good == /\ timeCounter' = timeCounter /\ Ends(r)
                   /\ pc[r] \in BucketOnly \cup {"readClock"}
                   /\ \A j \in Controllers : Slows(j) => time'[j] = time[j]
<1>1. local[r].now \in Int /\ (pc[r] \in BucketOnly => ~Slows(at[r]))
  BY LoopFacts
<1>2. Good => Plain(r)
  <2>1. pc[r] \in BucketOnly \cup {"readClock"} =>
          pc[r] \in InQPS /\ pc[r] \notin InConcurrency /\ pc[r] # "stampExpected"
    BY DEF BucketOnly, InQPS, InConcurrency
  <2>2. QED BY <2>1, EndsPlain
<1>3. CASE ReadClock(r)
  BY <1>2, <1>3 DEF ReadClock, caches, values, Ends, Places
<1>4. CASE FirstTokens(r)
  BY <1>1, <1>2, <1>4 DEF FirstTokens, AddTokens, Ends, Places, BucketOnly
<1>5. CASE Refill(r)
  BY <1>2, <1>5 DEF Refill, AddTokens, Ends, Places, BucketOnly
<1>6. CASE LoadOld(r)
  BY <1>2, <1>6 DEF LoadOld, caches, values, Ends, Places, BucketOnly
<1>7. CASE SwapRefill(r)
  BY <1>2, <1>7 DEF SwapRefill, caches, Ends, Places, BucketOnly
<1>8. CASE Stamp(r)
  <2>1. time' = [time EXCEPT ![at[r]][local[r].last] = local[r].now] /\ pc[r] \in BucketOnly
        /\ timeCounter' = timeCounter /\ Granted(r, local[r].now)
    BY <1>8 DEF Stamp, caches, BucketOnly
  <2>2. \A j \in Controllers : Slows(j) => time'[j] = time[j]
    BY <1>1, <2>1, WriteElsewhere DEF IInv
  <2>3. QED BY <1>1, <1>2, <2>1, <2>2 DEF Ends
<1>9. CASE Spend(r)
  BY <1>2, <1>9 DEF Spend, values, Ends, Places, BucketOnly
<1>10. CASE LoadRest(r)
  BY <1>2, <1>10 DEF LoadRest, caches, values, Ends, Places, BucketOnly
<1>11. CASE SwapSpend(r)
  BY <1>1, <1>2, <1>11 DEF SwapSpend, caches, Ends, Places, BucketOnly
<1>12. QED
  BY <1>3, <1>4, <1>5, <1>6, <1>7, <1>8, <1>9, <1>10, <1>11

LEMMA WakePlain ==
  ASSUME IInv, CInv, DInv, NEW r \in Requests, UNCHANGED <<tcs, args>>, Wake(r)
  PROVE  Plain(r)
<1>1. GoOn(r, at[r] + 1) /\ local' = [local EXCEPT ![r] = NoLocals] /\ pc[r] = "sleeping"
      /\ UNCHANGED <<timeCounter, time, passAt>>
  BY DEF Wake, caches, values
<1>2. at[r] + 1 \in Nat \ {0} /\ args' \in [Requests -> [Controllers -> Args \cup {NoArg}]]
  BY DEF IInv, Ranges
<1>3. pc'[r] \in {"addConcurrent", "readClock", "checked"}
  BY <1>1, <1>2, GoOnSkips DEF IInv
<1>4. Alone(r)
  BY <1>1, <1>2, GoOnSkips DEF Alone, IInv, Ranges
<1>5. QED BY <1>1, <1>3, <1>4 DEF Plain, Timed, HalfWay, DInv

\* Those of the concurrency metric.
LEMMA ConcurrencyPlain ==
  ASSUME IInv, CInv, DInv, NEW r \in Requests, UNCHANGED <<tcs, args>>,
         AddConcurrent(r) \/ LoadConcurrent(r)
  PROVE  Plain(r)
<1>1. /\ pc[r] \in InConcurrency /\ UNCHANGED <<timeCounter, time>>
      /\ \/ Blocked(r) \/ Granted(r, Never)
         \/ \E l : Remember(r, "loadConcurrent", l)
  BY DEF AddConcurrent, LoadConcurrent, caches, values, InConcurrency
<1>2. at[r] \in Controllers /\ ~Slows(at[r]) /\ Never \in Int
  BY <1>1, LoopFacts
<1>3. "loadConcurrent" \in (PCs \ Timed) \ {"new"} /\ "loadConcurrent" \notin HalfWay
  BY DEF PCs, InConcurrency, Timed, HalfWay
<1>4. QED BY <1>1, <1>2, <1>3, OutcomePlain

\* And those of the stat slot.
LEMMA StatPlain ==
  ASSUME IInv, CInv, DInv, NEW r \in Requests, UNCHANGED <<tcs, args>>,
         \/ Decide(r) \/ Exit(r) \/ OnEntryPassed(r) \/ OnCompleted(r)
         \/ AddPassed(r) \/ AddCompleted(r)
  PROVE  Plain(r)
<1> DEFINE Left == InStat \cup {"done", "blocked"}
<1>1. UNCHANGED <<timeCounter, time, passAt>> /\ pc[r] # "stampExpected"
  BY DEF Decide, Exit, OnEntryPassed, OnCompleted, AddPassed, AddCompleted, LookUp, Add,
         caches, values
<1>2. /\ local' = local \/ \E l : local' = [local EXCEPT ![r] = l]
      /\ \/ \E p \in Left : Move(r, p) /\ at' = at
         \/ \E k \in {1, at[r] + 1}, looking \in Left, after \in Left : CountOn(r, k, looking, after)
  <2>1. CASE Decide(r) \/ Exit(r)
    BY <2>1 DEF Decide, Exit, InStat
  <2>2. CASE OnEntryPassed(r) \/ OnCompleted(r)
    <3>1. \A v : [local EXCEPT ![r].rest = v] = [local EXCEPT ![r] = [local[r] EXCEPT !.rest = v]]
      OBVIOUS
    <3>2. QED BY <2>2, <3>1 DEF OnEntryPassed, OnCompleted, LookUp, InStat
  <2>3. CASE AddPassed(r) \/ AddCompleted(r)
    BY <2>3 DEF AddPassed, AddCompleted, Add, InStat
  <2>4. QED BY <2>1, <2>2, <2>3
<1>3. Alone(r) /\ pc'[r] \in Left
  <2>1. ASSUME NEW p \in Left, Move(r, p), at' = at PROVE Alone(r) /\ pc'[r] \in Left
    BY <1>2, <2>1 DEF Move, Alone, IInv, Ranges
  <2>2. ASSUME NEW k \in {1, at[r] + 1}, NEW looking \in Left, NEW after \in Left,
               CountOn(r, k, looking, after)
        PROVE  Alone(r) /\ pc'[r] \in Left
    <3>1. k \in Nat \ {0}
      BY DEF IInv, Ranges
    <3>2. pc'[r] \in {looking, after}
      BY <2>2, <3>1, CountOnSkips DEF IInv
    <3>3. Alone(r)
      BY <1>2, <2>2, <3>1, CountOnAlone DEF IInv
    <3>4. QED BY <3>2, <3>3
  <2>3. QED BY <1>2, <2>1, <2>2
<1>4. QED BY <1>1, <1>3 DEF Plain, Timed, HalfWay, DInv, InStat

\* A cache of times takes an argument.
LEMMA AddTimeCaches ==
  ASSUME IInv, DInv, NEW r \in Requests, AddTime(r), Alone(r), pc'[r] # "new",
         UNCHANGED <<tcs, args>>, NEW k, k = at[r], NEW a, a = Arg(r)
  PROVE  /\ TimesBelong' /\ TimesRoom'
         /\ \A j \in Controllers \ {k} : timeCounter'[j] = timeCounter[j]
         /\ Holds(timeCounter[k], a) => timeCounter'[k].items = timeCounter[k].items
         /\ NoEviction(k) /\ ~Holds(timeCounter[k], a) =>
              timeCounter'[k].items = [timeCounter[k].items EXCEPT ![a] = r]
<1> DEFINE c == timeCounter[k]
           d == AddIfAbsent(c, Rule(r).capacity, a, r)
<1>1. pc[r] = "addTime" /\ Controllers' = Controllers
  BY DEF AddTime, Controllers
<1>2. k \in Controllers /\ a \in Args /\ args[r][k] = a /\ Rule(r) = tcs[k]
  BY <1>1 DEF IInv, InOrder, Loop, Arg, Rule
<1>3. IsLru(c) /\ Len(c.evictList) <= tcs[k].capacity /\ IsCache(c)
  BY <1>2 DEF DInv, TimesRoom, IsLru
<1>4. tcs[k].capacity \in Nat \ {0}
  BY <1>2, HotSpotAssumption DEF IInv, Ranges, Controllers, IsRule
<1>5. timeCounter' = [timeCounter EXCEPT ![k] = d]
  BY DEF AddTime
<1>6. /\ IsLru(d) /\ Len(d.evictList) <= tcs[k].capacity
      /\ Holds(c, a) => d.items = c.items
      /\ ~Holds(c, a) /\ Len(c.evictList) < tcs[k].capacity => d.items = [c.items EXCEPT ![a] = r]
  <2> HIDE DEF c
  <2>1. QED BY <1>2, <1>3, <1>4, AddIfAbsentKeeps
<1>7. \A x \in Args : d.items[x] = c.items[x] \/ d.items[x] = Nil \/ (x = a /\ d.items[x] = r)
  <2> HIDE DEF c
  <2>1. QED BY <1>2, <1>3, AddIfAbsentPointers
<1>8. /\ timeCounter'[k] = d
      /\ \A j \in Controllers \ {k} : timeCounter'[j] = timeCounter[j]
  <2> HIDE DEF d
  <2>1. QED BY <1>2, <1>5 DEF IInv, Ranges, Stores, AreCaches
<1>9. NoEviction(k) /\ ~Holds(c, a) => d.items = [c.items EXCEPT ![a] = r]
  <2> HIDE DEF d
  <2>1. \A x \in Args : Holds(c, x) => \E p \in Requests : args[p][k] = x
    BY <1>2 DEF DInv, TimesBelong, CounterFor
  <2>2. \E p \in Requests : args[p][k] = a
    BY <1>2
  <2> HIDE DEF c
  <2>3. NoEviction(k) /\ ~Holds(c, a) => Len(c.evictList) < tcs[k].capacity
    BY <1>2, <1>3, <2>1, <2>2, CacheHasRoom
  <2>4. QED BY <1>6, <2>3
<1> HIDE DEF d
<1>10. TimesRoom'
  BY <1>1, <1>6, <1>8 DEF DInv, TimesRoom
<1>11. TimesBelong'
  <2>1. \A q \in Requests : pc[q] # "new" => pc'[q] # "new"
    BY DEF Alone
  <2>2. ASSUME NEW j \in Controllers, NEW x \in Args, Holds(timeCounter'[j], x)
        PROVE  LET p == timeCounter'[j].items[x]
               IN  p \in Requests /\ pc'[p] # "new" /\ args'[p][j] = x
    <3>1. CASE timeCounter'[j].items[x] = timeCounter[j].items[x]
      <4>1. CounterFor(j, x, timeCounter[j].items[x])
        BY <2>2, <3>1 DEF DInv, TimesBelong, Holds
      <4>2. QED BY <2>1, <3>1, <4>1 DEF CounterFor
    <3>2. CASE j = k /\ x = a /\ timeCounter'[j].items[x] = r
      BY <1>2, <3>2
    <3>3. QED BY <1>7, <1>8, <2>2, <3>1, <3>2 DEF Holds
  <2>3. QED BY <1>1, <2>2 DEF TimesBelong, Holds, CounterFor
<1>12. QED BY <1>6, <1>8, <1>9, <1>10, <1>11

\* A request takes its place in the time of a throttled argument, or leaves the
\* present there on its way to do so.
LEMMA TakesPlace ==
  ASSUME IInv, DInv, NEW r \in Requests, NEW k \in Controllers, k = at[r], NEW a \in Args, a = Arg(r),
         Slows(k), Alone(r), UNCHANGED <<tcs, args, batch>>,
         disturbed' = (disturbed \/ Disturbs(r)), pc[r] \in InQPS, pc'[r] # "new",
         TimesBelong', TimesRoom', OneHalfWay', OnTime(r)',
         passAt' \in [Controllers -> [Requests -> Int]],
         \A j \in Controllers \ {k} :
           /\ timeCounter'[j] = timeCounter[j] /\ time'[j] = time[j] /\ passAt'[j] = passAt[j],
         \A x \in Args : Holds(timeCounter[k], x) => timeCounter'[k].items[x] = timeCounter[k].items[x],
         \A q \in Requests \ {r} : passAt'[k][q] = passAt[k][q],
         NEW p \in Requests, p = timeCounter'[k].items[a],
         \A q \in Requests \ {p} : time'[k][q] = time[k][q],
         \/ passAt'[k] = passAt[k] /\ pc'[r] = "stampExpected" /\ at'[r] = k
         \/ ~disturbed' =>
              /\ passAt'[k][r] <= time'[k][p]
              /\ \A q \in PassedBy(k, a) : passAt[k][q] <= time'[k][p]
              /\ \A q \in PassedBy(k, a) : passAt'[k][r] - passAt[k][q] >= Interval(r, k, a)
  PROVE  DInv'
<1>1. Controllers' = Controllers /\ Arg(r)' = args[r][at'[r]] /\ args[r][k] = a
  BY DEF Controllers, Arg
<1>2. \A q \in Requests : pc[q] \in Timed => at[q] \in Controllers /\ Arg(q) \in Args
  BY DEF IInv, InOrder, Timed, Loop
<1>3. ASSUME NEW q \in Requests, q # r PROVE OnTime(q)'
  <2>1. pc[q] = "stampExpected" => disturbed'
    BY <1>3 DEF Disturbs, HalfWay
  <2>2. ASSUME pc[q] \in Timed, Slows(at[q])
        PROVE  timeCounter'[at[q]].items[Arg(q)] = timeCounter[at[q]].items[Arg(q)]
    <3>1. Holds(timeCounter[at[q]], Arg(q))
      BY <2>2 DEF DInv, OnTime
    <3>2. QED BY <1>2, <2>2, <3>1
  <2>3. QED BY <1>3, <2>1, <2>2, OthersOnTime
<1>4. \A q \in Requests : Unheard(q)'
  BY <1>1 DEF Unheard, DInv, Alone
<1>5. \A j : Slows(j)' <=> Slows(j)
  BY SlowsStays
<1>6. ASSUME NEW j \in Controllers, NEW x, j # k \/ x # a PROVE PassedBy(j, x)' = PassedBy(j, x)
  BY <1>1, <1>6 DEF PassedBy
<1>7. \A q \in PassedBy(k, a)' : q = r \/ q \in PassedBy(k, a)
  BY DEF PassedBy
<1>8. Holds(timeCounter'[k], a)
  BY DEF Holds, Requests, Nil
<1>9. ASSUME NEW j \in Controllers, NEW x \in Args, Slows(j)
      PROVE  /\ PassedBy(j, x)' # {} => Holds(timeCounter'[j], x)
             /\ ~disturbed' /\ ~Stamping(j, x)' =>
                  \A q \in PassedBy(j, x)' : passAt'[j][q] <= time'[j][timeCounter'[j].items[x]]
  <2>1. CASE j = k /\ x = a
    <3>1. ASSUME ~disturbed', ~Stamping(k, a)', NEW q \in PassedBy(k, a)'
          PROVE  passAt'[k][q] <= time'[k][p]
      <4>1. ~(pc'[r] = "stampExpected" /\ at'[r] = k)
        BY <1>1, <3>1 DEF Stamping
      <4>2. q = r \/ (q \in PassedBy(k, a) /\ passAt'[k][q] = passAt[k][q])
        BY <1>7, <3>1 DEF PassedBy
      <4>3. QED BY <3>1, <4>1, <4>2
    <3>2. QED BY <1>8, <2>1, <3>1
  <2>2. CASE j # k \/ x # a
    <3>1. PassedBy(j, x)' = PassedBy(j, x)
      BY <1>6, <2>2
    <3>2. PassedBy(j, x) # {} => Holds(timeCounter[j], x)
      BY <1>9 DEF DInv, UpToTime
    <3>3. Holds(timeCounter[j], x) => timeCounter'[j].items[x] = timeCounter[j].items[x]
      BY <1>9
    <3>4. ASSUME ~disturbed', ~Stamping(j, x)', NEW q \in PassedBy(j, x)
          PROVE  passAt'[j][q] <= time'[j][timeCounter'[j].items[x]]
      <4>1. ~Stamping(j, x)
        <5>1. ASSUME NEW s \in Requests, pc[s] = "stampExpected", at[s] = j, Arg(s) = x PROVE FALSE
          <6>1. s # r
            BY <2>2, <5>1
          <6>2. pc'[s] = "stampExpected" /\ at'[s] = j /\ Arg(s)' = x
            BY <5>1, <6>1 DEF Alone, Arg
          <6>3. QED BY <3>4, <6>2 DEF Stamping
        <5>2. QED BY <5>1 DEF Stamping
      <4>2. passAt[j][q] <= time[j][timeCounter[j].items[x]]
        BY <1>9, <3>4, <4>1 DEF DInv, UpToTime
      <4>3. passAt'[j][q] = passAt[j][q]
        BY <1>1, <2>2, <3>4 DEF PassedBy
      <4>4. CounterFor(j, x, timeCounter[j].items[x])
        BY <3>2, <3>4 DEF DInv, TimesBelong
      <4>5. time'[j][timeCounter[j].items[x]] = time[j][timeCounter[j].items[x]]
        <5>1. CASE j # k
          BY <5>1
        <5>2. CASE j = k
          <6>1. CounterFor(k, a, p)'
            BY <1>1, <1>8 DEF TimesBelong
          <6>2. args[p][k] = a
            BY <6>1 DEF CounterFor
          <6>3. timeCounter[j].items[x] \in Requests \ {p}
            BY <2>2, <4>4, <5>2, <6>2 DEF CounterFor
          <6>4. QED BY <5>2, <6>3
        <5>3. QED BY <5>1, <5>2
      <4>6. QED BY <3>2, <3>3, <3>4, <4>2, <4>3, <4>5
    <3>5. QED BY <3>1, <3>2, <3>3, <3>4 DEF Holds
  <2>3. QED BY <2>1, <2>2
<1>10. UpToTime'
  BY <1>1, <1>5, <1>9 DEF UpToTime, Holds
<1>11. Distant'
  <2>1. ASSUME NEW j \in Controllers, NEW x \in Args, Slows(j), ~disturbed',
               NEW q \in PassedBy(j, x)', NEW s \in PassedBy(j, x)', q # s
        PROVE  \/ passAt'[j][q] - passAt'[j][s] >= Interval(q, j, x)
               \/ passAt'[j][s] - passAt'[j][q] >= Interval(s, j, x)
    <3>1. CASE passAt'[j][q] = passAt[j][q] /\ passAt'[j][s] = passAt[j][s]
      <4>1. q \in PassedBy(j, x) /\ s \in PassedBy(j, x)
        BY <3>1 DEF PassedBy
      <4>2. QED BY <2>1, <3>1, <4>1 DEF DInv, Distant
    <3>2. CASE ~(passAt'[j][q] = passAt[j][q] /\ passAt'[j][s] = passAt[j][s])
      <4>1. j = k /\ x = a /\ passAt'[k] # passAt[k] /\ (q = r \/ s = r)
        BY <1>1, <2>1, <3>2 DEF PassedBy
      <4>2. \A t \in PassedBy(k, a) : passAt'[k][r] - passAt[k][t] >= Interval(r, k, a)
        BY <2>1, <4>1
      <4>3. CASE q = r
        <5>1. s \in PassedBy(k, a) /\ passAt'[k][s] = passAt[k][s]
          BY <1>7, <2>1, <4>1, <4>3 DEF PassedBy
        <5>2. QED BY <4>1, <4>2, <4>3, <5>1
      <4>4. CASE s = r
        <5>1. q \in PassedBy(k, a) /\ passAt'[k][q] = passAt[k][q]
          BY <1>7, <2>1, <4>1, <4>4 DEF PassedBy
        <5>2. QED BY <4>1, <4>2, <4>4, <5>1
      <4>5. QED BY <4>1, <4>3, <4>4
    <3>3. QED BY <3>1, <3>2
  <2>2. \A q, j, x : Interval(q, j, x)' = Interval(q, j, x)
    BY DEF Interval, TokenCount
  <2>3. QED BY <1>1, <1>5, <2>1, <2>2 DEF Distant
<1>12. \A q \in Requests : OnTime(q)'
  BY <1>3
<1>13. QED BY <1>1, <1>4, <1>10, <1>11, <1>12 DEF DInv

\* The first request of an argument takes the place of its time; the others have
\* found that time.
LEMMA AddTimeSpaces ==
  ASSUME IInv, CInv, DInv, NEW r \in Requests, AddTime(r), UNCHANGED <<tcs, args, batch>>,
         disturbed' = (disturbed \/ Disturbs(r)), NEW k, k = at[r], NEW a, a = Arg(r)
  PROVE  DInv'
<1> DEFINE prior == timeCounter[k].items[a]
<1>1. pc[r] = "addTime" /\ Ranges /\ passAt \in [Controllers -> [Requests -> Int]]
      /\ pc[r] \in InQPS
  BY DEF AddTime, IInv, DInv, InQPS
<1>2. k \in Controllers /\ a \in Args /\ args[r][k] = a
  BY <1>1 DEF IInv, InOrder, Loop, Arg
<1>3. local[r].now \in Int
  BY LoopFacts
<1>4. prior \in Requests \cup {Nil}
  BY <1>2 DEF DInv, TimesRoom, IsLru, IsCache
<1>5. \/ /\ prior = Nil /\ time' = [time EXCEPT ![k][r] = local[r].now]
         /\ Continue(r, "firstTokens") /\ Rule(r).behavior = "Reject"
      \/ /\ prior = Nil /\ time' = [time EXCEPT ![k][r] = local[r].now]
         /\ Granted(r, local[r].now)
      \/ /\ prior # Nil /\ time' = time
         /\ Remember(r, "loadTime", [local[r] EXCEPT !.last = prior])
  BY DEF AddTime
<1>6. Alone(r) /\ pc'[r] \in {"firstTokens", "loadTime", "addConcurrent", "readClock", "checked"}
  BY <1>1, <1>2, <1>3, <1>5, OutcomeLeaves
<1>7. pc'[r] # "new" /\ (pc'[r] \in HalfWay => pc[r] \in InQPS)
  BY <1>1, <1>6
<1>8. /\ TimesBelong' /\ TimesRoom'
      /\ \A j \in Controllers \ {k} : timeCounter'[j] = timeCounter[j]
      /\ Holds(timeCounter[k], a) => timeCounter'[k].items = timeCounter[k].items
      /\ Slows(k) /\ ~Holds(timeCounter[k], a) =>
           timeCounter'[k].items = [timeCounter[k].items EXCEPT ![a] = r]
  BY <1>6, <1>7, AddTimeCaches DEF Slows
<1>9. OneHalfWay'
  BY <1>6, <1>7, HalfWayStep DEF DInv
<1>10. disturbed => disturbed'
  OBVIOUS
<1>11. Rule(r) = tcs[k]
  BY DEF Rule
<1>12. CASE prior # Nil
  <2>1. Holds(timeCounter[k], a)
    BY <1>12 DEF Holds
  <2>2. time' = time /\ pc'[r] = "loadTime" /\ local'[r] = [local[r] EXCEPT !.last = prior]
        /\ at' = at /\ passAt' = passAt
    BY <1>1, <1>2, <1>5, <1>12, OutcomeLeaves
  <2>3. local'[r].last = prior
    <3> HIDE DEF prior
    <3>1. local[r] \in Locals
      BY <1>1 DEF Ranges
    <3>2. QED BY <2>2, <3>1 DEF Locals
  <2>4. OnTime(r)'
    <3>1. at'[r] = k /\ Arg(r)' = a
      BY <2>2 DEF Arg
    <3>2. QED BY <1>8, <2>1, <2>2, <2>3, <3>1 DEF OnTime, Holds
  <2>5. \A j \in Controllers : timeCounter'[j].items = timeCounter[j].items
    BY <1>8, <2>1
  <2>6. QED
    BY <1>1, <1>6, <1>7, <1>8, <1>9, <1>10, <2>2, <2>4, <2>5, QuietSpaces
<1>13. CASE prior = Nil /\ ~Slows(k)
  <2>1. /\ passAt' \in [Controllers -> [Requests -> Int]]
        /\ \A j \in Controllers, q \in Requests \ {r} : passAt'[j][q] = passAt[j][q]
        /\ \A j \in Controllers \ {k} : passAt'[j] = passAt[j]
    BY <1>1, <1>2, <1>3, <1>5, <1>13, OutcomeLeaves
  <2>2. \A j \in Controllers : Slows(j) => time'[j] = time[j]
    BY <1>1, <1>5, <1>13, WriteElsewhere
  <2>3. pc'[r] # "loadTime"
    <3>1. CASE Continue(r, "firstTokens")
      BY <1>1, <1>2, <3>1, OutcomeLeaves
    <3>2. CASE Granted(r, local[r].now)
      BY <1>1, <1>2, <1>3, <3>2, OutcomeLeaves
    <3>3. QED BY <1>5, <1>13, <3>1, <3>2
  <2>4. OnTime(r)'
    BY <1>6, <2>3 DEF OnTime, Timed
  <2>5. \A j \in Controllers : Slows(j) =>
           /\ timeCounter'[j].items = timeCounter[j].items
           /\ time'[j] = time[j] /\ passAt'[j] = passAt[j]
    BY <1>8, <1>13, <2>1, <2>2
  <2>6. QED
    BY <1>1, <1>6, <1>7, <1>8, <1>9, <1>10, <2>1, <2>4, <2>5, QuietSpaces
<1>14. CASE prior = Nil /\ Slows(k)
  <2>1. Granted(r, local[r].now) /\ time' = [time EXCEPT ![k][r] = local[r].now]
    BY <1>5, <1>11, <1>14 DEF Slows
  <2>2. /\ pc'[r] \in {"addConcurrent", "readClock", "checked"}
        /\ passAt' \in [Controllers -> [Requests -> Int]]
        /\ \A j \in Controllers, q \in Requests :
             passAt'[j][q] = IF j = k /\ q = r THEN local[r].now ELSE passAt[j][q]
        /\ \A j \in Controllers \ {k} : passAt'[j] = passAt[j]
    BY <1>1, <1>2, <1>3, <2>1, OutcomeLeaves
  <2>3. ~Holds(timeCounter[k], a)
    BY <1>14 DEF Holds
  <2>4. timeCounter'[k].items = [timeCounter[k].items EXCEPT ![a] = r]
    BY <1>8, <1>14, <2>3
  <2>5. timeCounter[k].items \in [Args -> Requests \cup {Nil}]
    BY <1>2 DEF DInv, TimesRoom, IsLru, IsCache
  <2>6. r = timeCounter'[k].items[a]
    BY <1>2, <2>4, <2>5
  <2>7. \A x \in Args : Holds(timeCounter[k], x) => timeCounter'[k].items[x] = timeCounter[k].items[x]
    BY <2>3, <2>4, <2>5
  <2>8. PassedBy(k, a) = {}
    BY <1>2, <1>14, <2>3 DEF DInv, UpToTime
  <2>9. time'[k][r] = local[r].now /\ (\A q \in Requests \ {r} : time'[k][q] = time[k][q])
        /\ \A j \in Controllers \ {k} : time'[j] = time[j]
    <3>1. time \in [Controllers -> [Requests -> Int]]
      BY <1>1 DEF Ranges, Stores
    <3>2. QED BY <1>2, <2>1, <3>1
  <2>10. OnTime(r)'
    BY <2>2 DEF OnTime, Timed
  <2>11. passAt'[k][r] <= time'[k][r]
    BY <1>2, <1>3, <2>2, <2>9
  <2>12. \A j \in Controllers \ {k} :
           timeCounter'[j] = timeCounter[j] /\ time'[j] = time[j] /\ passAt'[j] = passAt[j]
    BY <1>8, <2>2, <2>9
  <2>13. \A q \in Requests \ {r} : passAt'[k][q] = passAt[k][q]
    BY <1>2, <2>2
  <2>14. PICK p \in Requests : p = r
    OBVIOUS
  <2>15. p = timeCounter'[k].items[a] /\ \A q \in Requests \ {p} : time'[k][q] = time[k][q]
    BY <2>6, <2>9, <2>14
  <2>16. ~disturbed' =>
           /\ passAt'[k][r] <= time'[k][p]
           /\ \A q \in PassedBy(k, a) : passAt[k][q] <= time'[k][p]
           /\ \A q \in PassedBy(k, a) : passAt'[k][r] - passAt[k][q] >= Interval(r, k, a)
    BY <2>8, <2>11, <2>14
  <2>17. pc[r] \in InQPS /\ pc'[r] # "new" /\ Slows(k)
    BY <1>1, <1>7, <1>14
  <2>18. TimesBelong' /\ TimesRoom' /\ OneHalfWay' /\ Alone(r)
    BY <1>6, <1>8, <1>9
  <2>19. passAt' \in [Controllers -> [Requests -> Int]]
    BY <2>2
  <2>20. QED
    BY <1>2, <2>7, <2>10, <2>12, <2>13, <2>15, <2>16, <2>17, <2>18, <2>19, TakesPlace
<1>15. QED BY <1>12, <1>13, <1>14

LEMMA LoadTimeSpaces ==
  ASSUME IInv, CInv, DInv, NEW r \in Requests, LoadTime(r), UNCHANGED <<tcs, args, batch>>,
         disturbed' = (disturbed \/ Disturbs(r)), NEW k, k = at[r], NEW a, a = Arg(r)
  PROVE  DInv'
<1>1. pc[r] = "loadTime" /\ Ranges /\ passAt \in [Controllers -> [Requests -> Int]]
      /\ pc[r] \in InQPS /\ pc[r] \notin InConcurrency
      /\ UNCHANGED <<timeCounter, time>>
  BY DEF LoadTime, IInv, DInv, InQPS, InConcurrency, caches, values
<1>2. k \in Controllers /\ a \in Args /\ args[r][k] = a
  BY <1>1 DEF IInv, InOrder, Loop, Arg
<1>3. \/ Ends(r)
      \/ Remember(r, "swapTime", [local[r] EXCEPT !.old = time[k][local[r].last], !.new = Expected(r)])
  BY DEF LoadTime, Ends, Places
<1>4. CASE Ends(r)
  <2>1. Plain(r)
    BY <1>1, <1>4, EndsPlain
  <2>2. QED BY <2>1, PlainSpaces
<1>5. CASE Remember(r, "swapTime", [local[r] EXCEPT !.old = time[k][local[r].last], !.new = Expected(r)])
  <2>1. PICK l : l = [local[r] EXCEPT !.old = time[k][local[r].last], !.new = Expected(r)]
    OBVIOUS
  <2>2. Alone(r) /\ pc'[r] = "swapTime" /\ local'[r] = l /\ at' = at /\ passAt' = passAt
    BY <1>1, <1>2, <1>5, <2>1, OutcomeLeaves
  <2>3. l.last = local[r].last /\ l.old = time[k][local[r].last] /\ l.new = Expected(r)
    <3>1. local[r] \in Locals
      BY <1>1 DEF Ranges
    <3>2. QED BY <2>1, <3>1 DEF Locals
  <2>4. l.new = l.old + IntervalCost(r)
    BY <2>3 DEF Expected
  <2>5. at'[r] = k /\ Arg(r)' = a /\ IntervalCost(r)' = IntervalCost(r) /\ Slows(k)' = Slows(k)
    <3>1. at'[r] = k /\ Arg(r)' = a
      BY <2>2 DEF Arg
    <3>2. IntervalCost(r)' = IntervalCost(r)
      BY <2>2, <3>1 DEF IntervalCost, Rule, TokenCount
    <3>3. Slows(k)' = Slows(k)
      BY DEF Slows, NoEviction
    <3>4. QED BY <3>1, <3>2, <3>3
  <2>6. OnTime(r)
    BY DEF DInv
  <2>7. OnTime(r)'
    <3> SUFFICES ASSUME Slows(k) PROVE OnTime(r)'
      <4>1. Slows(at[r])' => Slows(k)
        BY <2>5 DEF Slows, NoEviction
      <4>2. QED BY <4>1 DEF OnTime
    <3>1. Holds(timeCounter[k], a) /\ local[r].last = timeCounter[k].items[a]
      BY <1>1, <2>6 DEF OnTime, Timed
    <3>2. QED BY <1>1, <2>2, <2>3, <2>4, <2>5, <3>1 DEF OnTime, Holds
  <2>8. TimesBelong' /\ TimesRoom'
    <3>1. \A q \in Requests : pc[q] # "new" => pc'[q] # "new"
      BY <2>2 DEF Alone
    <3>2. QED BY <1>1, <3>1, TimesStay DEF DInv
  <2>9. OneHalfWay'
    BY <1>1, <2>2, HalfWayStep DEF DInv
  <2>10. QED BY <1>1, <2>2, <2>7, <2>8, <2>9, QuietSpaces
<1>6. QED BY <1>3, <1>4, <1>5

\* What a throttled request that sets a time has in its hands.
LEMMA InHands ==
  ASSUME IInv, DInv, NEW r \in Requests, NEW k, k = at[r], NEW a, a = Arg(r), Slows(k),
         pc[r] \in {"swapTime", "stampExpected"}
  PROVE  /\ k \in Controllers /\ a \in Args /\ args[r][k] = a
         /\ Holds(timeCounter[k], a) /\ local[r].last = timeCounter[k].items[a]
         /\ local[r].last \in Requests
         /\ Interval(r, k, a) \in Nat /\ Interval(r, k, a) = IntervalCost(r)
         /\ local[r].new = local[r].old + Interval(r, k, a)
         /\ time \in [Controllers -> [Requests -> Int]]
         /\ local[r].now \in Int /\ local[r].new \in Int /\ local[r].old \in Int
         /\ \A q \in PassedBy(k, a) : passAt[k][q] \in Int
<1>1. k \in Controllers /\ a \in Args /\ args[r][k] = a /\ Rule(r) = tcs[k]
      /\ TokenCount(k, a) > 0
  BY DEF IInv, InOrder, Loop, Arg, Rule
<1>2. /\ Holds(timeCounter[k], a) /\ local[r].last = timeCounter[k].items[a]
      /\ local[r].new = local[r].old + IntervalCost(r)
  BY DEF DInv, OnTime, Timed
<1>3. CounterFor(k, a, timeCounter[k].items[a])
  BY <1>1, <1>2 DEF DInv, TimesBelong
<1>4. local[r].last \in Requests
  BY <1>2, <1>3 DEF CounterFor
<1>5. Interval(r, k, a) = IntervalCost(r)
  BY <1>1 DEF Interval, IntervalCost
<1>6. Interval(r, k, a) \in Nat
  BY <1>1, IntervalNat DEF IInv, Slows
<1>7. /\ time \in [Controllers -> [Requests -> Int]]
      /\ local[r].now \in Int /\ local[r].new \in Int /\ local[r].old \in Int
  BY DEF IInv, Ranges, Stores, Locals
<1>8. \A q \in PassedBy(k, a) : passAt[k][q] \in Int
  BY <1>1 DEF DInv, PassedBy
<1>9. QED BY <1>1, <1>2, <1>4, <1>5, <1>6, <1>7, <1>8

\* One write to the time of an argument.
LEMMA WriteTime ==
  ASSUME time \in [Controllers -> [Requests -> Int]], NEW k \in Controllers, NEW p \in Requests,
         NEW t \in Int, time' = [time EXCEPT ![k][p] = t]
  PROVE  /\ time'[k][p] = t /\ \A q \in Requests \ {p} : time'[k][q] = time[k][q]
         /\ \A j \in Controllers \ {k} : time'[j] = time[j]
OBVIOUS

LEMMA SwapTimeSpaces ==
  ASSUME IInv, CInv, DInv, NEW r \in Requests, SwapTime(r), UNCHANGED <<tcs, args, batch>>,
         disturbed' = (disturbed \/ Disturbs(r)), NEW k, k = at[r], NEW a, a = Arg(r)
  PROVE  DInv'
<1> DEFINE now == local[r].now
<1>1. pc[r] = "swapTime" /\ Ranges /\ passAt \in [Controllers -> [Requests -> Int]]
      /\ pc[r] \in InQPS /\ pc[r] \notin InConcurrency /\ timeCounter' = timeCounter
  BY DEF SwapTime, IInv, DInv, InQPS, InConcurrency, caches
<1>2. k \in Controllers /\ a \in Args /\ args[r][k] = a
  BY <1>1 DEF IInv, InOrder, Loop, Arg
<1>3. \/ time' = time /\ Again(r)
      \/ /\ time[k][local[r].last] = local[r].old /\ time' = [time EXCEPT ![k][local[r].last] = now]
         /\ \/ local[r].new > now /\ Continue(r, "stampExpected")
            \/ local[r].new <= now /\ Granted(r, now)
  BY DEF SwapTime, Swapped
<1>4. now \in Int
  BY LoopFacts
<1>5. ASSUME Ends(r), \A j \in Controllers : Slows(j) => time'[j] = time[j] PROVE DInv'
  <2>1. Plain(r)
    BY <1>1, <1>5, EndsPlain
  <2>2. QED BY <2>1, PlainSpaces
<1>6. CASE time' = time /\ Again(r)
  BY <1>5, <1>6 DEF Ends
<1>7. CASE ~Slows(k) /\ time' = [time EXCEPT ![k][local[r].last] = now] /\ Granted(r, now)
  <2>1. \A j \in Controllers : Slows(j) => time'[j] = time[j]
    BY <1>1, <1>7, WriteElsewhere
  <2>2. Ends(r)
    BY <1>4, <1>7 DEF Ends
  <2>3. QED BY <1>5, <2>1, <2>2
<1>8. ASSUME Continue(r, "stampExpected")
      PROVE  /\ Alone(r) /\ pc'[r] = "stampExpected" /\ local' = local /\ at' = at /\ passAt' = passAt
             /\ TimesBelong' /\ TimesRoom' /\ OneHalfWay'
  <2>1. Alone(r) /\ pc'[r] = "stampExpected" /\ local' = local /\ at' = at /\ passAt' = passAt
    BY <1>1, <1>2, <1>8, OutcomeLeaves
  <2>2. \A q \in Requests : pc[q] # "new" => pc'[q] # "new"
    BY <2>1 DEF Alone
  <2>3. TimesBelong' /\ TimesRoom'
    BY <1>1, <2>2, TimesStay DEF DInv
  <2>4. OneHalfWay'
    BY <1>1, <2>1, HalfWayStep DEF DInv
  <2>5. QED BY <2>1, <2>3, <2>4
<1>9. CASE ~Slows(k) /\ time' = [time EXCEPT ![k][local[r].last] = now]
           /\ Continue(r, "stampExpected")
  <2>1. \A j \in Controllers : Slows(j) => time'[j] = time[j]
    BY <1>1, <1>9, WriteElsewhere
  <2>2. ~Slows(at[r])'
    BY <1>8, <1>9 DEF Slows, NoEviction
  <2>3. OnTime(r)'
    BY <2>2 DEF OnTime
  <2>4. QED BY <1>1, <1>8, <1>9, <2>1, <2>3, QuietSpaces
<1>10. ASSUME Slows(k)
       PROVE  /\ k \in Controllers /\ a \in Args /\ args[r][k] = a
              /\ Holds(timeCounter[k], a) /\ local[r].last = timeCounter[k].items[a]
              /\ local[r].last \in Requests
              /\ Interval(r, k, a) \in Nat /\ Interval(r, k, a) = IntervalCost(r)
              /\ local[r].new = local[r].old + Interval(r, k, a)
              /\ time \in [Controllers -> [Requests -> Int]]
              /\ local[r].now \in Int /\ local[r].new \in Int /\ local[r].old \in Int
              /\ \A q \in PassedBy(k, a) : passAt[k][q] \in Int
  BY <1>1, <1>10, InHands
<1>11. ASSUME Slows(k), time[k][local[r].last] = local[r].old, ~disturbed'
       PROVE  \A q \in PassedBy(k, a) : passAt[k][q] <= local[r].old
  <2>1. ~disturbed /\ ~Disturbs(r)
    BY <1>11
  <2>2. ~Stamping(k, a)
    <3>1. \A q \in Requests \ {r} : pc[q] \notin HalfWay
      BY <1>1, <2>1 DEF Disturbs
    <3>2. \A q \in Requests : pc[q] # "stampExpected"
      BY <1>1, <3>1 DEF HalfWay
    <3>3. QED BY <3>2 DEF Stamping
  <2>3. QED BY <1>10, <1>11, <2>1, <2>2 DEF DInv, UpToTime
<1>12. CASE /\ Slows(k) /\ time[k][local[r].last] = local[r].old
            /\ time' = [time EXCEPT ![k][local[r].last] = now]
  <2>1. PICK p \in Requests : p = local[r].last /\ p = timeCounter'[k].items[a]
    BY <1>1, <1>10, <1>12
  <2>2. time'[k][p] = now /\ (\A q \in Requests \ {p} : time'[k][q] = time[k][q])
        /\ \A j \in Controllers \ {k} : time'[j] = time[j]
    <3>1. PICK v \in Int : v = now
      BY <1>4
    <3>2. time' = [time EXCEPT ![k][p] = v]
      BY <1>12, <2>1, <3>1
    <3>3. time \in [Controllers -> [Requests -> Int]]
      BY <1>10, <1>12
    <3>4. time'[k][p] = v /\ (\A q \in Requests \ {p} : time'[k][q] = time[k][q])
          /\ \A j \in Controllers \ {k} : time'[j] = time[j]
      BY <1>2, <3>2, <3>3, WriteTime
    <3>5. QED BY <3>1, <3>4
  <2>3. \A x \in Args : Holds(timeCounter[k], x) => timeCounter'[k].items[x] = timeCounter[k].items[x]
    BY <1>1
  <2>4. Slows(k)
    BY <1>12
  <2>5. CASE Continue(r, "stampExpected")
    <3>1. OnTime(r)'
      <4>1. at'[r] = k /\ Arg(r)' = a /\ local'[r] = local[r]
        BY <1>8, <2>5 DEF Arg
      <4>2. IntervalCost(r)' = IntervalCost(r)
        BY <1>8, <2>5, <4>1 DEF IntervalCost, Rule, TokenCount
      <4>3. local[r].last = timeCounter'[k].items[a] /\ local[r].new = local[r].old + IntervalCost(r)
            /\ Holds(timeCounter[k], a)'
        BY <1>1, <1>10, <2>1, <2>4 DEF Holds
      <4>4. ~disturbed' => \A q \in PassedBy(k, a)' : passAt'[k][q] <= local[r].old
        <5>1. PassedBy(k, a)' = PassedBy(k, a)
          BY <1>8, <2>5 DEF PassedBy
        <5>2. QED BY <1>8, <1>11, <1>12, <2>5, <5>1
      <4>5. QED BY <1>8, <2>5, <4>1, <4>2, <4>3, <4>4 DEF OnTime, PassedBy, Holds
    <3>2. \A j \in Controllers \ {k} :
            timeCounter'[j] = timeCounter[j] /\ time'[j] = time[j] /\ passAt'[j] = passAt[j]
      BY <1>1, <1>8, <2>2, <2>5
    <3>3. \A q \in Requests \ {r} : passAt'[k][q] = passAt[k][q]
      BY <1>8, <2>5
    <3>4. passAt'[k] = passAt[k] /\ pc'[r] = "stampExpected" /\ at'[r] = k
      BY <1>8, <2>5
    <3>5. passAt' \in [Controllers -> [Requests -> Int]] /\ pc'[r] # "new" /\ pc[r] \in InQPS
      BY <1>1, <1>8, <2>5
    <3>6. TimesBelong' /\ TimesRoom' /\ OneHalfWay' /\ Alone(r)
      BY <1>8, <2>5
    <3>7. QED
      BY <1>2, <2>1, <2>2, <2>3, <2>4, <3>1, <3>2, <3>3, <3>4, <3>5, <3>6, TakesPlace
  <2>6. CASE local[r].new <= now /\ Granted(r, now)
    <3>1. /\ Alone(r) /\ pc'[r] \in {"addConcurrent", "readClock", "checked"}
          /\ passAt' \in [Controllers -> [Requests -> Int]]
          /\ \A j \in Controllers, q \in Requests :
               passAt'[j][q] = IF j = k /\ q = r THEN now ELSE passAt[j][q]
          /\ \A j \in Controllers \ {k} : passAt'[j] = passAt[j]
      BY <1>1, <1>2, <1>4, <2>6, OutcomeLeaves
    <3>2. TimesBelong' /\ TimesRoom'
      <4>1. \A q \in Requests : pc[q] # "new" => pc'[q] # "new"
        BY <3>1 DEF Alone
      <4>2. QED BY <1>1, <4>1, TimesStay DEF DInv
    <3>3. OneHalfWay'
      BY <1>1, <3>1, HalfWayStep DEF DInv
    <3>4. OnTime(r)'
      BY <3>1 DEF OnTime, Timed
    <3>5. passAt'[k][r] = now /\ \A q \in Requests \ {r} : passAt'[k][q] = passAt[k][q]
      BY <1>2, <3>1
    <3>6. \A j \in Controllers \ {k} :
            timeCounter'[j] = timeCounter[j] /\ time'[j] = time[j] /\ passAt'[j] = passAt[j]
      BY <1>1, <2>2, <3>1
    <3>7. ASSUME ~disturbed'
          PROVE  /\ passAt'[k][r] <= time'[k][p]
                 /\ \A q \in PassedBy(k, a) : passAt[k][q] <= time'[k][p]
                 /\ \A q \in PassedBy(k, a) : passAt'[k][r] - passAt[k][q] >= Interval(r, k, a)
      <4>1. \A q \in PassedBy(k, a) : passAt[k][q] <= local[r].old /\ passAt[k][q] \in Int
        BY <1>10, <1>11, <1>12, <3>7
      <4>2. local[r].new = local[r].old + Interval(r, k, a) /\ Interval(r, k, a) \in Nat
            /\ local[r].old \in Int /\ local[r].new <= now
        BY <1>10, <2>4, <2>6
      <4> HIDE DEF now
      <4>3. local[r].old <= now
        BY <1>4, <4>2
      <4>4. ASSUME NEW q \in PassedBy(k, a)
            PROVE  passAt[k][q] <= now /\ now - passAt[k][q] >= Interval(r, k, a)
        BY <1>4, <4>1, <4>2, <4>3
      <4>5. QED BY <1>4, <2>2, <3>5, <4>4
    <3>8. pc[r] \in InQPS /\ pc'[r] # "new"
      BY <1>1, <3>1
    <3>9. passAt' \in [Controllers -> [Requests -> Int]] /\ Alone(r)
      BY <3>1
    <3>10. QED
      BY <1>2, <2>1, <2>2, <2>3, <2>4, <3>2, <3>3, <3>4, <3>5, <3>6, <3>7, <3>8, <3>9, TakesPlace
  <2>7. QED BY <1>1, <1>3, <1>6, <2>5, <2>6
<1>13. QED BY <1>3, <1>6, <1>7, <1>9, <1>12

LEMMA StampExpectedSpaces ==
  ASSUME IInv, CInv, DInv, NEW r \in Requests, StampExpected(r), UNCHANGED <<tcs, args, batch>>,
         disturbed' = (disturbed \/ Disturbs(r)), NEW k, k = at[r], NEW a, a = Arg(r)
  PROVE  DInv'
<1> DEFINE new == local[r].new
<1>1. pc[r] = "stampExpected" /\ Ranges /\ passAt \in [Controllers -> [Requests -> Int]]
      /\ pc[r] \in InQPS /\ timeCounter' = timeCounter
      /\ time' = [time EXCEPT ![k][local[r].last] = new]
      /\ passAt' = [passAt EXCEPT ![k][r] = new]
  BY DEF StampExpected, IInv, DInv, InQPS, caches
<1>2. k \in Controllers /\ a \in Args /\ args[r][k] = a /\ new \in Int
  BY <1>1, LoopFacts DEF IInv, InOrder, Loop, Arg
<1>3. Alone(r) /\ pc'[r] = "sleeping"
  BY <1>1 DEF StampExpected, Move, Alone, Ranges
<1>4. /\ passAt' \in [Controllers -> [Requests -> Int]]
      /\ \A j \in Controllers, q \in Requests :
           passAt'[j][q] = IF j = k /\ q = r THEN new ELSE passAt[j][q]
      /\ \A j \in Controllers \ {k} : passAt'[j] = passAt[j]
  <2>1. PICK v \in Int : v = new
    BY <1>2
  <2>2. passAt' = [passAt EXCEPT ![k][r] = v]
    BY <1>1, <2>1
  <2>3. /\ [passAt EXCEPT ![k][r] = v] \in [Controllers -> [Requests -> Int]]
        /\ \A j \in Controllers, q \in Requests :
             [passAt EXCEPT ![k][r] = v][j][q] = IF j = k /\ q = r THEN v ELSE passAt[j][q]
    <3>1. passAt \in [Controllers -> [Requests -> Int]] /\ k \in Controllers
      BY <1>1, <1>2
    <3>2. QED BY <3>1, WriteOne
  <2>4. \A j \in Controllers \ {k} : passAt'[j] = passAt[j]
    BY <2>2
  <2>5. QED BY <2>1, <2>2, <2>3, <2>4
<1>5. CASE ~Slows(k)
  <2>1. \A j \in Controllers : Slows(j) => time'[j] = time[j]
    BY <1>1, <1>5, WriteElsewhere
  <2>2. \A j \in Controllers : Slows(j) => passAt'[j] = passAt[j]
    BY <1>4, <1>5
  <2>3. \A j \in Controllers, q \in Requests \ {r} : passAt'[j][q] = passAt[j][q]
    BY <1>4
  <2>4. Plain(r)
    BY <1>1, <1>3, <1>4, <1>5, <2>1, <2>2, <2>3 DEF Plain, Timed, HalfWay
  <2>5. QED BY <2>4, PlainSpaces
<1>6. CASE Slows(k)
  <2>1. /\ Holds(timeCounter[k], a) /\ local[r].last = timeCounter[k].items[a]
        /\ local[r].last \in Requests
        /\ Interval(r, k, a) \in Nat
        /\ new = local[r].old + Interval(r, k, a)
        /\ time \in [Controllers -> [Requests -> Int]]
        /\ local[r].old \in Int
        /\ \A q \in PassedBy(k, a) : passAt[k][q] \in Int
    BY <1>1, <1>6, InHands
  <2>2. PICK p \in Requests : p = local[r].last /\ p = timeCounter'[k].items[a]
    BY <1>1, <2>1
  <2>3. time'[k][p] = new /\ (\A q \in Requests \ {p} : time'[k][q] = time[k][q])
        /\ \A j \in Controllers \ {k} : time'[j] = time[j]
    BY <1>1, <1>2, <2>1, <2>2, WriteTime
  <2>4. TimesBelong' /\ TimesRoom'
    <3>1. \A q \in Requests : pc[q] # "new" => pc'[q] # "new"
      BY <1>3 DEF Alone
    <3>2. QED BY <1>1, <3>1, TimesStay DEF DInv
  <2>5. OneHalfWay'
    BY <1>1, <1>3, HalfWayStep DEF DInv
  <2>6. OnTime(r)'
    BY <1>3 DEF OnTime, Timed
  <2>7. ASSUME ~disturbed'
        PROVE  /\ passAt'[k][r] <= time'[k][p]
               /\ \A q \in PassedBy(k, a) : passAt[k][q] <= time'[k][p]
               /\ \A q \in PassedBy(k, a) : passAt'[k][r] - passAt[k][q] >= Interval(r, k, a)
    <3>1. \A q \in PassedBy(k, a) : passAt[k][q] <= local[r].old
      BY <1>1, <1>6, <2>7 DEF DInv, OnTime, Timed
    <3> HIDE DEF new
    <3>2. ASSUME NEW q \in PassedBy(k, a)
          PROVE  passAt[k][q] <= new /\ new - passAt[k][q] >= Interval(r, k, a)
      BY <1>2, <2>1, <3>1
    <3>3. passAt'[k][r] = new
      BY <1>2, <1>4
    <3>4. QED BY <1>2, <2>3, <3>2, <3>3
  <2>8. \A x \in Args : Holds(timeCounter[k], x) => timeCounter'[k].items[x] = timeCounter[k].items[x]
    BY <1>1
  <2>9. \A j \in Controllers \ {k} :
          timeCounter'[j] = timeCounter[j] /\ time'[j] = time[j] /\ passAt'[j] = passAt[j]
    BY <1>1, <1>4, <2>3
  <2>10. \A q \in Requests \ {r} : passAt'[k][q] = passAt[k][q]
    BY <1>2, <1>4
  <2>11. pc[r] \in InQPS /\ pc'[r] # "new" /\ Alone(r)
    BY <1>1, <1>3
  <2>12. passAt' \in [Controllers -> [Requests -> Int]]
    BY <1>4
  <2>13. QED
    BY <1>2, <1>6, <2>2, <2>3, <2>4, <2>5, <2>6, <2>7, <2>8, <2>9, <2>10, <2>11, <2>12, TakesPlace
<1>7. QED BY <1>5, <1>6

\* An arrival has passed nowhere yet.
LEMMA BeginSpaces ==
  ASSUME IInv, CInv, DInv, NEW r \in Requests, Begin(r)
  PROVE  DInv'
<1>1. /\ UNCHANGED <<tcs, timeCounter, time, local, passAt, disturbed>> /\ pc[r] = "new"
      /\ GoOn(r, 1) /\ Controllers' = Controllers
  BY DEF Begin, caches, values, Controllers
<1>2. PICK in \in Inputs, b \in Batches :
        /\ args' = [args EXCEPT ![r] = [k \in Controllers |-> ExtractArgs(tcs[k], in)]]
        /\ batch' = [batch EXCEPT ![r] = b]
  BY DEF Begin
<1>3. [k \in Controllers |-> ExtractArgs(tcs[k], in)] \in [Controllers -> Args \cup {NoArg}]
  BY HotSpotAssumption DEF Controllers, IInv, Ranges
<1>4. /\ args' \in [Requests -> [Controllers -> Args \cup {NoArg}]]
      /\ \A q \in Requests \ {r} : args'[q] = args[q] /\ batch'[q] = batch[q]
  BY <1>2, <1>3 DEF IInv, Ranges
<1>5. /\ pc'[r] \in {"addConcurrent", "readClock", "checked"}
      /\ \A q \in Requests \ {r} : pc'[q] = pc[q] /\ at'[q] = at[q]
  <2>1. 1 \in Nat \ {0}
    OBVIOUS
  <2>2. QED BY <1>1, <1>4, <2>1, GoOnSkips DEF IInv
<1>6. \A k \in Controllers : args[r][k] = NoArg /\ passAt[k][r] = Never
  BY <1>1 DEF DInv, Unheard
<1>7. ASSUME NEW k \in Controllers, Slows(k)' PROVE Slows(k)
  BY <1>1, <1>4, <1>6, <1>7, BeginRoom DEF Slows
<1>8. ASSUME NEW k \in Controllers, NEW a PROVE PassedBy(k, a)' = PassedBy(k, a)
  BY <1>1, <1>4, <1>6 DEF PassedBy
<1>9. \A k, a, q : q \in Requests \ {r} => Interval(q, k, a)' = Interval(q, k, a)
  BY <1>1, <1>4 DEF Interval, TokenCount
<1>10. \A q \in Requests \ {r} : Arg(q)' = Arg(q)
  BY <1>4, <1>5 DEF Arg
<1>11. TimesBelong' /\ TimesRoom'
  <2>1. ASSUME NEW k \in Controllers, NEW x \in Args, Holds(timeCounter[k], x)
        PROVE  LET p == timeCounter[k].items[x]
               IN  p \in Requests /\ pc'[p] # "new" /\ args'[p][k] = x
    <3>1. CounterFor(k, x, timeCounter[k].items[x])
      BY <2>1 DEF DInv, TimesBelong
    <3>2. QED BY <1>1, <1>4, <1>5, <3>1 DEF CounterFor
  <2>2. TimesRoom'
    BY <1>1 DEF DInv, TimesRoom
  <2>3. QED BY <1>1, <2>1, <2>2 DEF TimesBelong, Holds, CounterFor
<1>12. OneHalfWay'
  <2>1. \A q \in Requests : pc'[q] \in HalfWay => q # r /\ pc[q] \in HalfWay
    BY <1>5 DEF HalfWay
  <2>2. QED BY <1>1, <2>1 DEF DInv, OneHalfWay
<1>13. ASSUME NEW q \in Requests PROVE OnTime(q)'
  <2>1. CASE q = r
    BY <1>5, <2>1 DEF OnTime, Timed
  <2>2. CASE q # r
    <3>1. pc'[q] = pc[q] /\ at'[q] = at[q] /\ Arg(q)' = Arg(q) /\ local' = local
      BY <1>1, <1>5, <1>10, <2>2
    <3>2. IntervalCost(q)' = IntervalCost(q)
      BY <1>1, <1>4, <2>2, <3>1 DEF IntervalCost, Rule, TokenCount
    <3> SUFFICES ASSUME pc[q] \in Timed, Slows(at[q])' PROVE OnTime(q)'
      BY <3>1 DEF OnTime
    <3>3. PICK k \in Controllers : k = at[q]
      BY DEF IInv, InOrder, Timed, Loop
    <3>4. Slows(k)'
      BY <3>1, <3>3 DEF Slows, NoEviction
    <3>5. Slows(at[q]) /\ OnTime(q)
      BY <1>7, <3>3, <3>4 DEF DInv
    <3>6. PICK a : a = Arg(q)
      OBVIOUS
    <3>7. /\ Holds(timeCounter[k], a) /\ local[q].last = timeCounter[k].items[a]
          /\ pc[q] # "loadTime" => local[q].new = local[q].old + IntervalCost(q)
          /\ pc[q] = "stampExpected" /\ ~disturbed =>
               \A p \in PassedBy(k, a) : passAt[k][p] <= local[q].old
      BY <3>3, <3>5, <3>6 DEF OnTime
    <3>8. PassedBy(k, a)' = PassedBy(k, a) /\ (Holds(timeCounter[k], a)' <=> Holds(timeCounter[k], a))
      BY <1>1, <1>8 DEF Holds
    <3>9. /\ Holds(timeCounter[k], a)' /\ local'[q].last = timeCounter'[k].items[a]
          /\ pc'[q] # "loadTime" => local'[q].new = local'[q].old + IntervalCost(q)'
          /\ pc'[q] = "stampExpected" /\ ~disturbed' =>
               \A p \in PassedBy(k, a)' : passAt'[k][p] <= local'[q].old
      BY <1>1, <3>1, <3>2, <3>7, <3>8
    <3>10. at'[q] = k /\ Arg(q)' = a
      BY <3>1, <3>3, <3>6
    <3>11. QED BY <3>9, <3>10 DEF OnTime, PassedBy, Holds
  <2>3. QED BY <2>1, <2>2
<1>14. \A q \in Requests : Unheard(q)'
  BY <1>1, <1>4, <1>5 DEF DInv, Unheard
<1>15. ASSUME NEW k \in Controllers, NEW a \in Args, Stamping(k, a) PROVE Stamping(k, a)'
  <2>1. PICK q \in Requests : pc[q] = "stampExpected" /\ at[q] = k /\ Arg(q) = a
    BY <1>15 DEF Stamping
  <2>2. q # r
    BY <1>1, <2>1
  <2>3. pc'[q] = "stampExpected" /\ at'[q] = k /\ Arg(q)' = a
    BY <1>5, <1>10, <2>1, <2>2
  <2>4. QED BY <2>3 DEF Stamping
<1>16. UpToTime'
  <2>1. ASSUME NEW k \in Controllers, NEW a \in Args, Slows(k)'
        PROVE  /\ PassedBy(k, a)' # {} => Holds(timeCounter[k], a)
               /\ ~disturbed' /\ ~Stamping(k, a)' =>
                    \A q \in PassedBy(k, a)' : passAt[k][q] <= time[k][timeCounter[k].items[a]]
    <3>1. Slows(k) /\ PassedBy(k, a)' = PassedBy(k, a) /\ disturbed' = disturbed
          /\ (~Stamping(k, a)' => ~Stamping(k, a))
      BY <1>1, <1>7, <1>8, <1>15, <2>1
    <3>2. QED BY <3>1 DEF DInv, UpToTime
  <2>2. QED BY <1>1, <2>1 DEF UpToTime, Holds
<1>17. Distant'
  <2>1. ASSUME NEW k \in Controllers, NEW a \in Args, Slows(k)', ~disturbed',
               NEW p \in PassedBy(k, a)', NEW q \in PassedBy(k, a)', p # q
        PROVE  \/ passAt[k][p] - passAt[k][q] >= Interval(p, k, a)'
               \/ passAt[k][q] - passAt[k][p] >= Interval(q, k, a)'
    <3>1. Slows(k) /\ ~disturbed /\ p \in PassedBy(k, a) /\ q \in PassedBy(k, a)
      BY <1>1, <1>7, <1>8, <2>1
    <3>2. p # r /\ q # r /\ p \in Requests /\ q \in Requests
      BY <1>6, <3>1 DEF PassedBy
    <3>3. Interval(p, k, a)' = Interval(p, k, a) /\ Interval(q, k, a)' = Interval(q, k, a)
      BY <1>9, <3>2
    <3>4. QED BY <2>1, <3>1, <3>3 DEF DInv, Distant
  <2>2. QED BY <1>1, <2>1 DEF Distant
<1>18. passAt' \in [Controllers' -> [Requests -> Int]]
  BY <1>1 DEF DInv
<1>19. QED BY <1>11, <1>12, <1>13, <1>14, <1>16, <1>17, <1>18 DEF DInv

LEMMA InitSpaces == Init => DInv
<1> SUFFICES ASSUME Init PROVE DInv
  OBVIOUS
<1>1. /\ \A k \in Controllers : timeCounter[k] = NewLRU
      /\ \A r \in Requests : pc[r] = "new" /\ \A k \in Controllers : args[r][k] = NoArg
      /\ passAt = [k \in Controllers |-> [r \in Requests |-> Never]]
  BY DEF Init
<1>2. passAt \in [Controllers -> [Requests -> Int]]
  BY <1>1 DEF Never
<1>3. \A k \in Controllers, r \in Requests : passAt[k][r] = Never
  BY <1>1
<1>4. \A k \in Controllers, x \in Args : ~Holds(timeCounter[k], x)
  BY <1>1 DEF Holds, NewLRU
<1>5. IsLru(NewLRU) /\ Len(NewLRU.evictList) = 0
  BY NewLruIsLru
<1>6. TimesRoom
  <2>1. \A k \in Controllers : tcs[k].capacity \in Nat
    BY HotSpotAssumption DEF Init, Controllers, IsRule
  <2>2. QED BY <1>1, <1>5, <2>1 DEF TimesRoom
<1>7. \A k \in Controllers : \A x : PassedBy(k, x) = {}
  BY <1>3 DEF PassedBy
<1>8. TimesBelong /\ UpToTime /\ Distant
  BY <1>4, <1>7 DEF TimesBelong, UpToTime, Distant
<1>9. OneHalfWay
  BY <1>1 DEF OneHalfWay, HalfWay
<1>10. \A r \in Requests : OnTime(r) /\ Unheard(r)
  BY <1>1, <1>3 DEF OnTime, Timed, Unheard
<1>11. QED BY <1>2, <1>6, <1>8, <1>9, <1>10 DEF DInv

\* The clock does not matter to the distances.
LEMMA IdleSpaces ==
  ASSUME DInv, UNCHANGED <<tcs, timeCounter, time, pc, args, batch, at, local, passAt, disturbed>>
  PROVE  DInv'
<1>1. Controllers' = Controllers
  BY DEF Controllers
<1>2. TimesBelong' /\ TimesRoom' /\ OneHalfWay'
  BY <1>1 DEF DInv, TimesBelong, TimesRoom, CounterFor, OneHalfWay
<1>3. \A k : Slows(k)' <=> Slows(k)
  BY DEF Slows, NoEviction
<1>4. \A k, a : PassedBy(k, a)' = PassedBy(k, a) /\ (Stamping(k, a)' <=> Stamping(k, a))
  BY DEF PassedBy, Stamping, Arg
<1>5. \A q, k, a : Interval(q, k, a)' = Interval(q, k, a)
  BY DEF Interval, TokenCount
<1>6. UpToTime'
  BY <1>1, <1>3, <1>4 DEF DInv, UpToTime, Holds
<1>7. Distant'
  BY <1>1, <1>3, <1>4, <1>5 DEF DInv, Distant
<1>8. \A r \in Requests : OnTime(r)' /\ Unheard(r)'
  <2> SUFFICES ASSUME NEW r \in Requests PROVE OnTime(r)' /\ Unheard(r)'
    OBVIOUS
  <2>1. OnTime(r) /\ Unheard(r)
    BY DEF DInv
  <2>2. Arg(r)' = Arg(r) /\ IntervalCost(r)' = IntervalCost(r)
    BY DEF Arg, IntervalCost, Rule, TokenCount
  <2>3. Slows(at[r])' <=> Slows(at[r])
    BY DEF Slows, NoEviction
  <2>4. OnTime(r)'
    BY <2>1, <2>2, <2>3 DEF OnTime, PassedBy, Holds
  <2>5. Unheard(r)'
    BY <1>1, <2>1 DEF Unheard
  <2>6. QED BY <2>4, <2>5
<1>9. QED BY <1>1, <1>2, <1>6, <1>7, <1>8 DEF DInv

LEMMA NextSpaces == IInv /\ CInv /\ DInv /\ [Next]_vars => DInv'
<1> SUFFICES ASSUME IInv, CInv, DInv, [Next]_vars PROVE DInv'
  OBVIOUS
<1>1. CASE Tick \/ Finished \/ UNCHANGED vars
  BY <1>1, IdleSpaces DEF Tick, Finished, vars, caches, values, request
<1>2. ASSUME NEW r \in Requests, Begin(r) PROVE DInv'
  BY <1>2, BeginSpaces
<1>3. ASSUME NEW r \in Requests, Step(r) PROVE DInv'
  <2>1. UNCHANGED <<tcs, args, batch>> /\ disturbed' = (disturbed \/ Disturbs(r))
    BY <1>3 DEF Step, request
  <2>2. PICK k, a : k = at[r] /\ a = Arg(r)
    OBVIOUS
  <2>3. CASE AddTime(r)
    BY <2>1, <2>2, <2>3, AddTimeSpaces
  <2>4. CASE LoadTime(r)
    BY <2>1, <2>2, <2>4, LoadTimeSpaces
  <2>5. CASE SwapTime(r)
    BY <2>1, <2>2, <2>5, SwapTimeSpaces
  <2>6. CASE StampExpected(r)
    BY <2>1, <2>2, <2>6, StampExpectedSpaces
  <2>7. CASE \/ ReadClock(r) \/ FirstTokens(r) \/ Refill(r) \/ LoadOld(r) \/ SwapRefill(r)
             \/ Stamp(r) \/ Spend(r) \/ LoadRest(r) \/ SwapSpend(r)
             \/ Wake(r) \/ AddConcurrent(r) \/ LoadConcurrent(r)
             \/ Decide(r) \/ Exit(r) \/ OnEntryPassed(r) \/ OnCompleted(r)
             \/ AddPassed(r) \/ AddCompleted(r)
    <3>1. Plain(r)
      BY <2>1, <2>7, LoopPlain, WakePlain, ConcurrencyPlain, StatPlain
    <3>2. QED BY <2>1, <3>1, PlainSpaces
  <2>8. QED BY <1>3, <2>3, <2>4, <2>5, <2>6, <2>7 DEF Step
<1>4. QED BY <1>1, <1>2, <1>3 DEF Next

\* For every number of requests: of two requests throttling let pass with one
\* argument, one passes after the other by at least the interval of its batch,
\* while the cache has room for the arguments met, in the executions in which
\* nobody sees the present in place of the end of the queue.
THEOREM AlwaysSpaced == Spec => []Spaced
<1>1. Init => IInv /\ CInv /\ DInv
  BY InitOrder, InitCounts, InitSpaces
<1>2. (IInv /\ CInv /\ DInv) /\ [Next]_vars => (IInv /\ CInv /\ DInv)'
  BY NextOrder, NextCounts, NextSpaces
<1>3. IInv /\ CInv /\ DInv => Spaced
  BY DistantSpaced DEF DInv
<1>4. QED
  BY <1>1, <1>2, <1>3, PTL DEF Spec

-----------------------------------------------------------------------------
(* Type correctness                                                         *)

Moments == Nat \cup {Never}

TokensRoom ==
  \A k \in Controllers :
    IsLru(tokenCounter[k]) /\ Len(tokenCounter[k].evictList) <= tcs[k].capacity

Setting == {"swapTime", "stampExpected"}

\* A request is at a controller or beyond the last; what it may write to a time
\* is a time.
Sane(r) ==
  /\ at[r] \in 1..(Len(tcs) + 1)
  /\ local[r].now \in Nat
  /\ pc[r] \in Setting => local[r].new \in Nat

\* What the other invariants do not say about the types.
TInv ==
  /\ clock \in Nat /\ disturbed \in BOOLEAN /\ fromLimitApp \in [Requests -> BOOLEAN]
  /\ time \in [Controllers -> [Requests -> Nat]]
  /\ passAt \in [Controllers -> [Requests -> Moments]]
  /\ TokensRoom
  /\ \A r \in Requests : Sane(r)

\* A consistent cache is one of the caches of LruCache.
LEMMA LruIsCache ==
  ASSUME NEW c, IsLru(c)
  PROVE  c \in Caches /\ WellFormed(c)
<1>1. c = [items |-> c.items, evictList |-> c.evictList]
      /\ c.items \in [Args -> Requests \cup {Nil}] /\ c.evictList \in Seq(Args)
  BY DEF IsLru, IsCache, IsList
<1>2. c \in Caches
  BY <1>1 DEF Caches
<1>3. DOMAIN c.evictList = 1..Len(c.evictList)
  BY <1>1
<1>4. IsInjective(c.evictList)
  BY <1>3 DEF IsLru, IsList, IsInjective
<1>5. QED BY <1>2, <1>4 DEF IsLru, WellFormed

LEMMA TypesFollow == IInv /\ CInv /\ DInv /\ TInv => TypeOK
<1> SUFFICES ASSUME IInv, CInv, DInv, TInv PROVE TypeOK
  OBVIOUS
<1>1. \A k \in Controllers : /\ Consistent(timeCounter[k], k) /\ timeCounter[k] \in Caches
                             /\ Consistent(tokenCounter[k], k) /\ tokenCounter[k] \in Caches
                             /\ Consistent(concurrentCounter[k], k) /\ concurrentCounter[k] \in Caches
  BY LruIsCache DEF DInv, TimesRoom, TInv, TokensRoom, CInv, Room, Consistent
<1>2. \A f : AreCaches(f) => f = [k \in Controllers |-> f[k]]
  BY DEF AreCaches
<1>3. AreCaches(timeCounter) /\ AreCaches(tokenCounter) /\ AreCaches(concurrentCounter)
  BY DEF IInv, Ranges, Stores
<1>4. /\ timeCounter \in [Controllers -> Caches]
      /\ tokenCounter \in [Controllers -> Caches]
      /\ concurrentCounter \in [Controllers -> Caches]
  BY <1>1, <1>2, <1>3
<1>5. passAt \in [Controllers -> [Requests -> Nat \cup {Never}]]
  BY DEF TInv, Moments
<1>6. at \in [Requests -> 1..(Len(tcs) + 1)]
  BY DEF IInv, Ranges, TInv, Sane
<1>7. local \in [Requests -> [now : Nat, last : Requests \cup {Nil}, rest : Requests \cup {Nil},
                              old : Int, new : Int]]
  <2>1. \A r \in Requests : local[r] \in Locals /\ local[r].now \in Nat
    BY DEF IInv, Ranges, TInv, Sane
  <2>2. \A r \in Requests :
          local[r] \in [now : Nat, last : Requests \cup {Nil}, rest : Requests \cup {Nil},
                        old : Int, new : Int]
    BY <2>1 DEF Locals
  <2>3. local = [r \in Requests |-> local[r]]
    BY DEF IInv, Ranges
  <2>4. QED BY <2>2, <2>3
<1>8. /\ tcs \in RuleLists /\ token \in [Controllers -> [Requests -> Int]]
      /\ pc \in [Requests -> PCs]
      /\ args \in [Requests -> [Controllers -> Args \cup {NoArg}]]
      /\ batch \in [Requests -> Nat \ {0}]
  BY DEF IInv, Ranges, Stores
<1>9. concurrent \in [Controllers -> [Requests -> Int]]
  BY DEF CInv
<1>10. /\ clock \in Nat /\ disturbed \in BOOLEAN /\ fromLimitApp \in [Requests -> BOOLEAN]
       /\ time \in [Controllers -> [Requests -> Nat]]
  BY DEF TInv
<1>11. QED BY <1>1, <1>4, <1>5, <1>6, <1>7, <1>8, <1>9, <1>10 DEF TypeOK

\* What a step does to its request, and to the times granted.
Keeps(r) ==
  /\ Alone(r) /\ Sane(r)'
  /\ passAt' \in [Controllers -> [Requests -> Moments]]

LEMMA GoOnRange ==
  ASSUME Ranges, NEW r \in Requests, NEW k \in Nat \ {0},
         GoOn(r, k) \/ \E looking, after : CountOn(r, k, looking, after)
  PROVE  at'[r] \in 1..(Len(tcs) + 1)
<1>1. PICK i \in k..(Len(tcs) + 1) : at' = [at EXCEPT ![r] = i]
  BY DEF GoOn, CountOn
<1>2. Len(tcs) \in Nat
  BY HotSpotAssumption DEF Ranges
<1>3. i \in 1..(Len(tcs) + 1)
  BY <1>2
<1>4. at'[r] = i
  BY <1>1 DEF Ranges
<1>5. QED BY <1>3, <1>4

LEMMA OutcomeKeeps ==
  ASSUME IInv, TInv, NEW r \in Requests, at[r] \in Controllers, UNCHANGED <<tcs, args>>
  PROVE  /\ Blocked(r) => Keeps(r)
         /\ \A p, l : /\ Remember(r, p, l) /\ l.now \in Nat
                      /\ p \in Setting => l.new \in Nat
                      => Keeps(r)
         /\ \A p : Continue(r, p) /\ (p \in Setting => local[r].new \in Nat) => Keeps(r)
         /\ Again(r) => Keeps(r)
         /\ \A when \in Moments : Granted(r, when) => Keeps(r)
<1>1. Ranges /\ passAt \in [Controllers -> [Requests -> Moments]] /\ Sane(r) /\ NoLocals.now = 0
  BY DEF IInv, TInv, NoLocals
<1>2. Blocked(r) => Keeps(r)
  BY <1>1 DEF Blocked, Move, Alone, Ranges, Keeps, Sane, Setting
<1>3. ASSUME NEW p, NEW l, Remember(r, p, l), l.now \in Nat, p \in Setting => l.new \in Nat
      PROVE  Keeps(r)
  <2>1. Alone(r) /\ pc'[r] = p /\ local'[r] = l /\ at' = at /\ passAt' = passAt
    BY <1>1, <1>3 DEF Remember, Move, Alone, Ranges
  <2>2. QED BY <1>1, <1>3, <2>1 DEF Keeps, Sane
<1>4. ASSUME NEW p, Continue(r, p), p \in Setting => local[r].new \in Nat PROVE Keeps(r)
  <2>1. Alone(r) /\ pc'[r] = p /\ local' = local /\ at' = at /\ passAt' = passAt
    BY <1>1, <1>4 DEF Continue, Move, Alone, Ranges
  <2>2. QED BY <1>1, <1>4, <2>1 DEF Keeps, Sane
<1>5. Again(r) => Keeps(r)
  <2>1. NoLocals.now \in Nat /\ "readClock" \notin Setting
    BY <1>1 DEF Setting
  <2>2. QED BY <1>3, <2>1 DEF Again
<1>6. ASSUME NEW when \in Moments, Granted(r, when) PROVE Keeps(r)
  <2>1. GoOn(r, at[r] + 1) /\ local' = [local EXCEPT ![r] = NoLocals]
        /\ passAt' = [passAt EXCEPT ![at[r]][r] = when]
    BY <1>6 DEF Granted
  <2>2. at[r] + 1 \in Nat \ {0} /\ args' \in [Requests -> [Controllers -> Args \cup {NoArg}]]
    BY <1>1 DEF Ranges
  <2>3. pc'[r] \in {"addConcurrent", "readClock", "checked"}
        /\ \A q \in Requests \ {r} : pc'[q] = pc[q] /\ at'[q] = at[q]
    BY <1>1, <2>1, <2>2, GoOnSkips
  <2>4. Alone(r) /\ local'[r] = NoLocals
    BY <1>1, <2>1, <2>3 DEF Alone, Ranges
  <2>5. at'[r] \in 1..(Len(tcs) + 1)
    BY <1>1, <2>1, <2>2, GoOnRange
  <2>6. [passAt EXCEPT ![at[r]][r] = when] \in [Controllers -> [Requests -> Moments]]
    <3>1. passAt \in [Controllers -> [Requests -> Moments]]
      BY <1>1
    <3>2. QED BY <3>1, WriteOne
  <2>7. Sane(r)'
    BY <1>1, <2>3, <2>4, <2>5 DEF Sane, Setting
  <2>8. QED BY <2>1, <2>4, <2>6, <2>7 DEF Keeps
<1>7. QED BY <1>2, <1>3, <1>4, <1>5, <1>6

\* The value a throttled request works out is a time.
LEMMA ExpectedNat ==
  ASSUME IInv, TInv, NEW r \in Requests, pc[r] = "loadTime"
  PROVE  Expected(r) \in Nat
<1>1. at[r] \in Controllers /\ Rule(r).metric = "QPS" /\ TokenCount(at[r], Arg(r)) > 0
      /\ local[r].last \in Requests
  BY DEF IInv, InOrder, Loop
<1>2. PICK k \in Controllers : k = at[r]
  BY <1>1
<1>3. PICK a : a = Arg(r)
  OBVIOUS
<1>4. Interval(r, k, a) \in Nat
  BY <1>1, <1>2, <1>3, IntervalNat DEF IInv, Rule
<1>5. IntervalCost(r) = Interval(r, k, a)
  BY <1>2, <1>3 DEF IntervalCost, Interval, Rule
<1>6. time[k][local[r].last] \in Nat
  BY <1>1 DEF TInv
<1>7. QED BY <1>2, <1>4, <1>5, <1>6 DEF Expected

\* The steps of the loop keep their request where it may be.
LEMMA LoopKeeps ==
  ASSUME IInv, CInv, TInv, NEW r \in Requests, InLoop(r), UNCHANGED <<tcs, args>>
  PROVE  Keeps(r)
<1> DEFINE l == local[r]
<1>1. /\ pc[r] \in InQPS
      /\ at[r] \in Controllers /\ Sane(r) /\ clock \in Nat /\ l \in Locals
      /\ l.now \in Nat /\ l.now \in Moments
  <2>1. pc[r] \in InQPS
    BY LoopGoes DEF IInv
  <2>2. at[r] \in Controllers
    BY <2>1 DEF CInv, Placed, Asked
  <2>3. QED BY <2>1, <2>2 DEF TInv, Sane, IInv, Ranges, Moments
<1>2. \A v : /\ [l EXCEPT !.last = v].now = l.now
             /\ [l EXCEPT !.new = v].now = l.now
             /\ [l EXCEPT !.rest = v].now = l.now
             /\ \A w : [l EXCEPT !.old = v, !.new = w].now = l.now
                       /\ [l EXCEPT !.old = v, !.new = w].new = w
  BY <1>1 DEF Locals
<1>3. NoLocals.now = 0 /\ \A v : [NoLocals EXCEPT !.now = v].now = v
                                 /\ [NoLocals EXCEPT !.new = v].now = 0
  BY DEF NoLocals
<1>4. CASE ReadClock(r)
  <2>1. Blocked(r) \/ Remember(r, "addTime", [NoLocals EXCEPT !.now = clock])
    BY <1>4 DEF ReadClock
  <2>2. "addTime" \notin Setting /\ [NoLocals EXCEPT !.now = clock].now \in Nat
    BY <1>1, <1>3 DEF Setting
  <2>3. QED BY <1>1, <2>1, <2>2, OutcomeKeeps
<1>5. CASE AddTime(r)
  <2>1. Continue(r, "firstTokens") \/ Granted(r, l.now) \/ \E v : Remember(r, "loadTime", [l EXCEPT !.last = v])
    BY <1>5 DEF AddTime
  <2>2. "firstTokens" \notin Setting /\ "loadTime" \notin Setting
    BY DEF Setting
  <2>3. QED BY <1>1, <1>2, <2>1, <2>2, OutcomeKeeps
<1>6. CASE FirstTokens(r) \/ Stamp(r)
  <2>1. Granted(r, l.now)
    BY <1>6 DEF FirstTokens, Stamp
  <2>2. QED BY <1>1, <2>1, OutcomeKeeps
<1>7. CASE LoadTime(r)
  <2>1. \/ Blocked(r) \/ Continue(r, "spend") \/ \E v : Remember(r, "refill", [l EXCEPT !.new = v])
        \/ \E v : Remember(r, "swapTime", [l EXCEPT !.old = v, !.new = Expected(r)])
    BY <1>7 DEF LoadTime
  <2>2. Expected(r) \in Nat
    BY <1>7, ExpectedNat DEF LoadTime
  <2>3. "spend" \notin Setting /\ "refill" \notin Setting
    BY DEF Setting
  <2>4. QED BY <1>1, <1>2, <2>1, <2>2, <2>3, OutcomeKeeps
<1>8. CASE Refill(r)
  <2>1. Continue(r, "stamp") \/ \E v : Remember(r, "loadOld", [l EXCEPT !.rest = v])
    BY <1>8 DEF Refill
  <2>2. "stamp" \notin Setting /\ "loadOld" \notin Setting
    BY DEF Setting
  <2>3. QED BY <1>1, <1>2, <2>1, <2>2, OutcomeKeeps
<1>9. CASE LoadOld(r) \/ LoadRest(r)
  <2>1. \/ Blocked(r)
        \/ \E p \in {"swapRefill", "swapSpend"} : \E v, w : Remember(r, p, [l EXCEPT !.old = v, !.new = w])
    BY <1>9 DEF LoadOld, LoadRest
  <2>2. "swapRefill" \notin Setting /\ "swapSpend" \notin Setting
    BY DEF Setting
  <2>3. QED BY <1>1, <1>2, <2>1, <2>2, OutcomeKeeps
<1>10. CASE SwapRefill(r)
  <2>1. Continue(r, "stamp") \/ Again(r)
    BY <1>10 DEF SwapRefill
  <2>2. "stamp" \notin Setting
    BY DEF Setting
  <2>3. QED BY <1>1, <2>1, <2>2, OutcomeKeeps
<1>11. CASE Spend(r)
  <2>1. Again(r) \/ \E v : Remember(r, "loadRest", [l EXCEPT !.rest = v])
    BY <1>11 DEF Spend
  <2>2. "loadRest" \notin Setting
    BY DEF Setting
  <2>3. QED BY <1>1, <1>2, <2>1, <2>2, OutcomeKeeps
<1>12. CASE SwapSpend(r)
  <2>1. Granted(r, l.now) \/ Again(r)
    BY <1>12 DEF SwapSpend
  <2>2. QED BY <1>1, <2>1, OutcomeKeeps
<1>13. CASE SwapTime(r)
  <2>1. pc[r] = "swapTime" /\ (Continue(r, "stampExpected") \/ Granted(r, l.now) \/ Again(r))
    BY <1>13 DEF SwapTime
  <2>2. l.new \in Nat
    BY <1>1, <2>1 DEF Sane, Setting
  <2>3. QED BY <1>1, <2>1, <2>2, OutcomeKeeps
<1>14. CASE StampExpected(r)
  <2>1. PICK w : w = [NoLocals EXCEPT !.new = Smaller(clock + l.new - l.now, MaxClock)]
    OBVIOUS
  <2>2. /\ pc' = [pc EXCEPT ![r] = "sleeping"] /\ at' = at /\ local' = [local EXCEPT ![r] = w]
        /\ passAt' = [passAt EXCEPT ![at[r]][r] = l.new] /\ pc[r] = "stampExpected"
    BY <1>14, <2>1 DEF StampExpected, Move
  <2>3. Alone(r) /\ pc'[r] = "sleeping" /\ local'[r] = w
    BY <2>2 DEF Alone, IInv, Ranges
  <2>4. w.now = 0
    BY <1>3, <2>1
  <2>5. Sane(r)'
    BY <1>1, <2>2, <2>3, <2>4 DEF Sane, Setting
  <2>6. l.new \in Moments
    BY <1>1, <2>2 DEF Sane, Setting, Moments
  <2>7. PICK v \in Moments : v = l.new
    BY <2>6
  <2>8. [passAt EXCEPT ![at[r]][r] = v] \in [Controllers -> [Requests -> Moments]]
    <3>1. passAt \in [Controllers -> [Requests -> Moments]] /\ at[r] \in Controllers
      BY <1>1 DEF TInv
    <3>2. QED BY <3>1, WriteOne
  <2>9. passAt' \in [Controllers -> [Requests -> Moments]]
    BY <2>2, <2>7, <2>8
  <2>10. QED BY <2>3, <2>5, <2>9 DEF Keeps
<1>15. CASE Wake(r)
  <2>1. GoOn(r, at[r] + 1) /\ local' = [local EXCEPT ![r] = NoLocals] /\ passAt' = passAt
    BY <1>15 DEF Wake
  <2>2. at[r] + 1 \in Nat \ {0} /\ args' \in [Requests -> [Controllers -> Args \cup {NoArg}]]
    BY DEF IInv, Ranges
  <2>3. pc'[r] \in {"addConcurrent", "readClock", "checked"}
        /\ \A q \in Requests \ {r} : pc'[q] = pc[q] /\ at'[q] = at[q]
    BY <2>1, <2>2, GoOnSkips DEF IInv
  <2>4. Alone(r) /\ local'[r] = NoLocals
    BY <2>1, <2>3 DEF Alone, IInv, Ranges
  <2>5. at'[r] \in 1..(Len(tcs) + 1)
    BY <2>1, <2>2, GoOnRange DEF IInv
  <2>6. Sane(r)'
    BY <1>3, <2>3, <2>4, <2>5 DEF Sane, Setting
  <2>7. QED BY <2>1, <2>4, <2>6 DEF Keeps, TInv
<1>16. QED
  BY <1>4, <1>5, <1>6, <1>7, <1>8, <1>9, <1>10, <1>11, <1>12, <1>13, <1>14, <1>15 DEF InLoop

\* Nor do those of the concurrency metric and the stat slot lead elsewhere.
LEMMA OtherKeeps ==
  ASSUME IInv, CInv, TInv, NEW r \in Requests, UNCHANGED <<tcs, args>>,
         \/ AddConcurrent(r) \/ LoadConcurrent(r)
         \/ Decide(r) \/ Exit(r) \/ OnEntryPassed(r) \/ OnCompleted(r)
         \/ AddPassed(r) \/ AddCompleted(r)
  PROVE  Keeps(r)
<1>1. Sane(r) /\ local[r] \in Locals /\ NoLocals.now = 0
  BY DEF TInv, IInv, Ranges, NoLocals
<1>2. CASE AddConcurrent(r) \/ LoadConcurrent(r)
  <2>1. /\ pc[r] \in InConcurrency
        /\ \/ Blocked(r) \/ Granted(r, Never)
           \/ \E v : Remember(r, "loadConcurrent", [local[r] EXCEPT !.rest = v])
    BY <1>2 DEF AddConcurrent, LoadConcurrent, InConcurrency
  <2>2. at[r] \in Controllers
    BY <2>1 DEF CInv, Placed, Asked
  <2>3. \A v : [local[r] EXCEPT !.rest = v].now = local[r].now
    BY <1>1 DEF Locals
  <2>4. "loadConcurrent" \notin Setting /\ Never \in Moments /\ local[r].now \in Nat
    BY <1>1 DEF Setting, Moments, Sane
  <2>5. QED BY <2>1, <2>2, <2>3, <2>4, OutcomeKeeps
<1> DEFINE Left == InStat \cup {"done", "blocked"}
<1>3. CASE \/ Decide(r) \/ Exit(r) \/ OnEntryPassed(r) \/ OnCompleted(r)
           \/ AddPassed(r) \/ AddCompleted(r)
  <2>1. passAt' = passAt
    BY <1>3 DEF Decide, Exit, OnEntryPassed, OnCompleted, AddPassed, AddCompleted, LookUp, Add
  <2>2. /\ local' = local \/ \E l : l.now \in Nat /\ local' = [local EXCEPT ![r] = l]
        /\ \/ \E p \in Left : Move(r, p) /\ at' = at
           \/ \E k \in {1, at[r] + 1}, looking \in Left, after \in Left : CountOn(r, k, looking, after)
    <3>1. CASE Decide(r) \/ Exit(r)
      BY <3>1 DEF Decide, Exit, InStat
    <3>2. CASE OnEntryPassed(r) \/ OnCompleted(r)
      <4>1. \A v : [local EXCEPT ![r].rest = v] = [local EXCEPT ![r] = [local[r] EXCEPT !.rest = v]]
        OBVIOUS
      <4>2. \A v : [local[r] EXCEPT !.rest = v].now \in Nat
        BY <1>1 DEF Locals, Sane
      <4>3. QED BY <3>2, <4>1, <4>2 DEF OnEntryPassed, OnCompleted, LookUp, InStat
    <3>3. CASE AddPassed(r) \/ AddCompleted(r)
      BY <1>1, <3>3 DEF AddPassed, AddCompleted, Add, InStat
    <3>4. QED BY <1>3, <3>1, <3>2, <3>3
  <2>3. local'[r].now \in Nat
    BY <1>1, <2>2 DEF IInv, Ranges, Sane
  <2>4. Alone(r) /\ pc'[r] \in Left /\ at'[r] \in 1..(Len(tcs) + 1)
    <3>1. ASSUME NEW p \in Left, Move(r, p), at' = at
          PROVE  Alone(r) /\ pc'[r] \in Left /\ at'[r] \in 1..(Len(tcs) + 1)
      BY <1>1, <2>2, <3>1 DEF Move, Alone, IInv, Ranges, Sane
    <3>2. ASSUME NEW k \in {1, at[r] + 1}, NEW looking \in Left, NEW after \in Left,
                 CountOn(r, k, looking, after)
          PROVE  Alone(r) /\ pc'[r] \in Left /\ at'[r] \in 1..(Len(tcs) + 1)
      <4>1. k \in Nat \ {0}
        BY DEF IInv, Ranges
      <4>2. pc'[r] \in {looking, after}
        BY <3>2, <4>1, CountOnSkips DEF IInv
      <4>3. Alone(r)
        BY <2>2, <3>2, <4>1, CountOnAlone DEF IInv
      <4>4. at'[r] \in 1..(Len(tcs) + 1)
        BY <3>2, <4>1, GoOnRange DEF IInv
      <4>5. QED BY <4>2, <4>3, <4>4
    <3>3. QED BY <2>2, <3>1, <3>2
  <2>5. Sane(r)'
    BY <2>3, <2>4 DEF Sane, Setting, InStat
  <2>6. QED BY <2>1, <2>4, <2>5 DEF Keeps, TInv
<1>4. QED BY <1>2, <1>3

\* Whatever is written to a time is a time.
LEMMA TimesKept ==
  ASSUME IInv, CInv, TInv, NEW r \in Requests, Step(r)
  PROVE  time' \in [Controllers -> [Requests -> Nat]]
<1> DEFINE Written == \E p \in Requests, v \in Nat : time' = [time EXCEPT ![at[r]][p] = v]
<1>1. /\ time \in [Controllers -> [Requests -> Nat]] /\ local[r].now \in Nat
      /\ pc[r] \in Setting => local[r].new \in Nat
  BY DEF TInv, Sane
<1>2. pc[r] \in InQPS => at[r] \in Controllers
  BY DEF CInv, Placed, Asked
<1>3. ASSUME NEW p, NEW v \in Nat, time' = [time EXCEPT ![at[r]][p] = v], pc[r] \in InQPS
      PROVE  time' \in [Controllers -> [Requests -> Nat]]
  <2>1. [time EXCEPT ![at[r]][p] = v] \in [Controllers -> [Requests -> Nat]]
    <3>1. time \in [Controllers -> [Requests -> Nat]] /\ at[r] \in Controllers
      BY <1>1, <1>2, <1>3
    <3>2. QED BY <3>1, WriteOne
  <2>2. QED BY <1>3, <2>1
<1>4. CASE AddTime(r)
  <2>1. pc[r] \in InQPS /\ (time' = time \/ time' = [time EXCEPT ![at[r]][r] = local[r].now])
    BY <1>4 DEF AddTime, InQPS
  <2>2. QED BY <1>1, <1>3, <2>1
<1>5. CASE Stamp(r) \/ SwapTime(r)
  <2>1. pc[r] \in InQPS /\ (time' = time \/ time' = [time EXCEPT ![at[r]][local[r].last] = local[r].now])
    BY <1>5 DEF Stamp, SwapTime, InQPS
  <2>2. QED BY <1>1, <1>3, <2>1
<1>6. CASE StampExpected(r)
  <2>1. pc[r] \in InQPS /\ pc[r] \in Setting
        /\ time' = [time EXCEPT ![at[r]][local[r].last] = local[r].new]
    BY <1>6 DEF StampExpected, InQPS, Setting
  <2>2. QED BY <1>1, <1>3, <2>1
<1>7. CASE \/ ReadClock(r) \/ FirstTokens(r) \/ LoadTime(r) \/ Refill(r) \/ LoadOld(r)
           \/ SwapRefill(r) \/ Spend(r) \/ LoadRest(r) \/ SwapSpend(r)
           \/ Wake(r) \/ AddConcurrent(r) \/ LoadConcurrent(r)
           \/ Decide(r) \/ Exit(r) \/ OnEntryPassed(r) \/ OnCompleted(r)
           \/ AddPassed(r) \/ AddCompleted(r)
  <2>1. time' = time
    BY <1>7 DEF ReadClock, FirstTokens, AddTokens, LoadTime, Refill, LoadOld, SwapRefill, Spend,
                LoadRest, SwapSpend, Wake, AddConcurrent, LoadConcurrent, Decide, Exit,
                OnEntryPassed, OnCompleted, LookUp, AddPassed, AddCompleted, Add, values
  <2>2. QED BY <1>1, <2>1
<1>8. QED BY <1>4, <1>5, <1>6, <1>7 DEF Step

\* The caches of tokens stay consistent, and within their size.
LEMMA TokensRoomKept ==
  ASSUME IInv, TInv, NEW r \in Requests, Step(r)
  PROVE  TokensRoom'
<1>1. Controllers' = Controllers /\ tcs' = tcs
  BY DEF Controllers, Step
<1>2. ASSUME NEW k, k = at[r], NEW a, a = Arg(r), pc[r] \in Loop,
             \/ tokenCounter' = [tokenCounter EXCEPT ![k] = AddIfAbsent(@, Rule(r).capacity, a, r)]
             \/ tokenCounter' = [tokenCounter EXCEPT ![k] = Get(@, a)]
      PROVE  TokensRoom'
  <2>1. k \in Controllers /\ a \in Args /\ Rule(r) = tcs[k]
    BY <1>2 DEF IInv, InOrder, Rule
  <2>2. tcs[k].capacity \in Nat \ {0}
    BY <2>1, HotSpotAssumption DEF IInv, Ranges, Controllers, IsRule
  <2>3. PICK c : c = tokenCounter[k]
    OBVIOUS
  <2>4. IsLru(c) /\ Len(c.evictList) <= tcs[k].capacity
    BY <2>1, <2>3 DEF TInv, TokensRoom
  <2>5. PICK d : /\ tokenCounter' = [tokenCounter EXCEPT ![k] = d]
                 /\ d = AddIfAbsent(c, tcs[k].capacity, a, r) \/ d = Get(c, a)
    BY <1>2, <2>1, <2>3
  <2>6. IsLru(d) /\ Len(d.evictList) <= tcs[k].capacity
    <3>1. CASE d = AddIfAbsent(c, tcs[k].capacity, a, r)
      <4>1. PICK size \in Nat \ {0} : size = tcs[k].capacity
        BY <2>2
      <4>2. IsLru(AddIfAbsent(c, size, a, r)) /\ Len(AddIfAbsent(c, size, a, r).evictList) <= size
        BY <2>1, <2>4, <4>1, AddIfAbsentKeeps
      <4>3. QED BY <3>1, <4>1, <4>2
    <3>2. CASE d = Get(c, a)
      <4>1. IsLru(Get(c, a)) /\ Len(Get(c, a).evictList) = Len(c.evictList)
        BY <2>1, <2>4, GetKeeps
      <4>2. QED BY <2>4, <3>2, <4>1
    <3>3. QED BY <2>5, <3>1, <3>2
  <2>7. tokenCounter'[k] = d /\ \A j \in Controllers \ {k} : tokenCounter'[j] = tokenCounter[j]
    BY <2>1, <2>5 DEF IInv, Ranges, Stores, AreCaches
  <2>8. QED BY <1>1, <2>6, <2>7 DEF TInv, TokensRoom
<1>3. CASE FirstTokens(r) \/ Refill(r)
  <2>1. pc[r] \in Loop
        /\ tokenCounter' = [tokenCounter EXCEPT ![at[r]] = AddIfAbsent(@, Rule(r).capacity, Arg(r), r)]
    BY <1>3 DEF FirstTokens, Refill, AddTokens, Loop, BucketOnly
  <2>2. PICK k, a : k = at[r] /\ a = Arg(r)
    OBVIOUS
  <2>3. QED BY <1>2, <2>1, <2>2
<1>4. CASE Spend(r)
  <2>1. pc[r] \in Loop /\ tokenCounter' = [tokenCounter EXCEPT ![at[r]] = Get(@, Arg(r))]
    BY <1>4 DEF Spend, Loop, BucketOnly
  <2>2. PICK k, a : k = at[r] /\ a = Arg(r)
    OBVIOUS
  <2>3. QED BY <1>2, <2>1, <2>2
<1>5. CASE \/ ReadClock(r) \/ AddTime(r) \/ LoadTime(r) \/ LoadOld(r) \/ SwapRefill(r) \/ Stamp(r)
           \/ LoadRest(r) \/ SwapSpend(r) \/ SwapTime(r) \/ StampExpected(r)
           \/ Wake(r) \/ AddConcurrent(r) \/ LoadConcurrent(r)
           \/ Decide(r) \/ Exit(r) \/ OnEntryPassed(r) \/ OnCompleted(r)
           \/ AddPassed(r) \/ AddCompleted(r)
  <2>1. tokenCounter' = tokenCounter
    BY <1>5 DEF ReadClock, AddTime, LoadTime, LoadOld, SwapRefill, Stamp, LoadRest, SwapSpend,
                SwapTime, StampExpected, Wake, AddConcurrent, LoadConcurrent, Decide, Exit,
                OnEntryPassed, OnCompleted, LookUp, AddPassed, AddCompleted, Add, caches
  <2>2. QED BY <1>1, <2>1 DEF TInv, TokensRoom
<1>6. QED BY <1>3, <1>4, <1>5 DEF Step

\* An arrival changes little of this.
LEMMA BeginKeepsTypes ==
  ASSUME IInv, TInv, NEW r \in Requests, Begin(r)
  PROVE  TInv'
<1>1. /\ UNCHANGED <<clock, tcs, tokenCounter, time, local, passAt, disturbed>> /\ GoOn(r, 1)
      /\ Controllers' = Controllers
  BY DEF Begin, caches, values, Controllers
<1>2. PICK in \in Inputs, f \in BOOLEAN :
        /\ args' = [args EXCEPT ![r] = [k \in Controllers |-> ExtractArgs(tcs[k], in)]]
        /\ fromLimitApp' = [fromLimitApp EXCEPT ![r] = f]
  BY DEF Begin
<1>3. [k \in Controllers |-> ExtractArgs(tcs[k], in)] \in [Controllers -> Args \cup {NoArg}]
  BY HotSpotAssumption DEF Controllers, IInv, Ranges
<1>4. args' \in [Requests -> [Controllers -> Args \cup {NoArg}]]
  BY <1>2, <1>3 DEF IInv, Ranges
<1>5. 1 \in Nat \ {0}
  OBVIOUS
<1>6. /\ pc'[r] \in {"addConcurrent", "readClock", "checked"}
      /\ \A q \in Requests \ {r} : pc'[q] = pc[q] /\ at'[q] = at[q]
  BY <1>1, <1>4, <1>5, GoOnSkips DEF IInv
<1>7. at'[r] \in 1..(Len(tcs) + 1)
  BY <1>1, <1>5, GoOnRange DEF IInv
<1>8. \A q \in Requests : Sane(q)'
  BY <1>1, <1>6, <1>7 DEF TInv, Sane, Setting
<1>9. fromLimitApp' \in [Requests -> BOOLEAN]
  BY <1>2 DEF TInv
<1>10. TokensRoom'
  BY <1>1 DEF TInv, TokensRoom
<1>11. QED BY <1>1, <1>8, <1>9, <1>10 DEF TInv

LEMMA InitTypes == Init => TInv
<1> SUFFICES ASSUME Init PROVE TInv
  OBVIOUS
<1>1. /\ clock = 0 /\ disturbed = FALSE /\ fromLimitApp = [r \in Requests |-> FALSE]
      /\ time = [k \in Controllers |-> [r \in Requests |-> 0]]
      /\ passAt = [k \in Controllers |-> [r \in Requests |-> Never]]
      /\ \A k \in Controllers : tokenCounter[k] = NewLRU
      /\ \A r \in Requests : pc[r] = "new" /\ at[r] = 1 /\ local[r] = NoLocals
  BY DEF Init
<1>2. Len(tcs) \in Nat /\ \A k \in Controllers : tcs[k].capacity \in Nat
  BY HotSpotAssumption DEF Init, Controllers, IsRule
<1>3. TokensRoom
  BY <1>1, <1>2, NewLruIsLru DEF TokensRoom
<1>4. \A r \in Requests : Sane(r)
  BY <1>1, <1>2 DEF Sane, Setting, NoLocals
<1>5. passAt \in [Controllers -> [Requests -> Moments]]
  BY <1>1 DEF Moments
<1>6. fromLimitApp \in [Requests -> BOOLEAN] /\ disturbed \in BOOLEAN
  BY <1>1
<1>7. clock \in Nat /\ time \in [Controllers -> [Requests -> Nat]]
  BY <1>1
<1>8. QED BY <1>3, <1>4, <1>5, <1>6, <1>7 DEF TInv

LEMMA NextTypes == IInv /\ CInv /\ TInv /\ [Next]_vars => TInv'
<1> SUFFICES ASSUME IInv, CInv, TInv, [Next]_vars PROVE TInv'
  OBVIOUS
<1>1. CASE Tick \/ Finished \/ UNCHANGED vars
  <2>1. /\ clock' = clock \/ clock' = clock + 1
        /\ UNCHANGED <<tcs, tokenCounter, time, pc, at, local, passAt, fromLimitApp, disturbed>>
    BY <1>1 DEF Tick, Finished, vars, caches, values, request
  <2>2. Controllers' = Controllers
    BY <2>1 DEF Controllers
  <2>3. TokensRoom' /\ \A r \in Requests : Sane(r)'
    BY <2>1, <2>2 DEF TInv, TokensRoom, Sane
  <2>4. clock' \in Nat
    BY <2>1 DEF TInv
  <2>5. QED BY <2>1, <2>2, <2>3, <2>4 DEF TInv
<1>2. ASSUME NEW r \in Requests, Begin(r) PROVE TInv'
  BY <1>2, BeginKeepsTypes
<1>3. ASSUME NEW r \in Requests, Step(r) PROVE TInv'
  <2>1. UNCHANGED <<clock, tcs, args, fromLimitApp>> /\ disturbed' = (disturbed \/ Disturbs(r))
        /\ Controllers' = Controllers
    BY <1>3 DEF Step, request, Controllers
  <2>2. Keeps(r)
    <3>1. \/ InLoop(r) \/ AddConcurrent(r) \/ LoadConcurrent(r) \/ Decide(r) \/ Exit(r)
          \/ OnEntryPassed(r) \/ OnCompleted(r) \/ AddPassed(r) \/ AddCompleted(r)
      BY <1>3 DEF Step, InLoop
    <3>2. QED BY <2>1, <3>1, LoopKeeps, OtherKeeps
  <2>3. time' \in [Controllers -> [Requests -> Nat]] /\ TokensRoom'
    BY <1>3, TimesKept, TokensRoomKept
  <2>4. disturbed' \in BOOLEAN
    BY <2>1 DEF Disturbs
  <2>5. \A q \in Requests : Sane(q)'
    BY <2>1, <2>2 DEF TInv, Keeps, Alone, Sane
  <2>6. QED BY <2>1, <2>2, <2>3, <2>4, <2>5 DEF TInv, Keeps
<1>4. QED BY <1>1, <1>2, <1>3 DEF Next

\* For every list of rules and every interleaving: every variable stays in its
\* range, and in every cache the list and the map agree and fit the capacity.
THEOREM TypeCorrect == Spec => []TypeOK
<1>1. Init => IInv /\ CInv /\ DInv /\ TInv
  BY InitOrder, InitCounts, InitSpaces, InitTypes
<1>2. (IInv /\ CInv /\ DInv /\ TInv) /\ [Next]_vars => (IInv /\ CInv /\ DInv /\ TInv)'
  BY NextOrder, NextCounts, NextSpaces, NextTypes
<1>3. IInv /\ CInv /\ DInv /\ TInv => TypeOK
  BY TypesFollow
<1>4. QED
  BY <1>1, <1>2, <1>3, PTL DEF Spec

-----------------------------------------------------------------------------
(* Sums of batches                                                          *)

\* Of the numbers up to n in a set one is the least.
LEMMA LeastOne ==
  ASSUME NEW n \in Nat, NEW T \in SUBSET (0..n), T # {}
  PROVE  \E m \in T : \A i \in 0..(m - 1) : i \notin T
<1> DEFINE S == 0..n
           D == {0..m : m \in T}
<1>1. IsFiniteSet(S)
  BY FS_Interval
<1>2. IsWellFoundedOn(StrictSubsetOrdering(S), SUBSET S)
  BY <1>1, FS_StrictSubsetOrderingWellFounded, FS_FiniteSubsetsOfFinite
<1>3. D \in SUBSET (SUBSET S) /\ D # {}
  <2>1. \A m \in T : 0..m \in SUBSET S
    OBVIOUS
  <2> HIDE DEF S
  <2>2. QED BY <2>1
<1>4. PICK U \in D : \A V \in D : ~ (<<V, U>> \in StrictSubsetOrdering(S))
  <2> HIDE DEF D, S
  <2>1. QED BY <1>2, <1>3, WFMin
<1>5. PICK m \in T : U = 0..m
  BY <1>4
<1>6. ASSUME NEW i \in 0..(m - 1), i \in T PROVE FALSE
  <2>1. 0..i \in D /\ 0..i \subseteq 0..m /\ 0..i # 0..m /\ 0..m \subseteq S
    <3>1. i \in Nat /\ m \in Nat /\ i < m /\ m \in 0..m /\ m \notin 0..i /\ m <= n
      BY <1>6
    <3>2. QED BY <1>6, <3>1
  <2>2. <<0..i, U>> \in StrictSubsetOrdering(S)
    BY <1>5, <2>1 DEF StrictSubsetOrdering
  <2>3. QED BY <1>4, <2>1, <2>2
<1>7. QED BY <1>6

\* What is true of 0 and goes on to the next number is true of all up to n.
LEMMA Reaches ==
  ASSUME NEW n \in Nat, NEW G, 0 \in G, \A i \in 1..n : i - 1 \in G => i \in G
  PROVE  0..n \subseteq G
<1> DEFINE T == (0..n) \ G
<1>1. SUFFICES ASSUME T # {} PROVE FALSE
  OBVIOUS
<1>2. PICK m \in T : \A i \in 0..(m - 1) : i \notin T
  <2>1. T \in SUBSET (0..n)
    OBVIOUS
  <2> HIDE DEF T
  <2>2. QED BY <1>1, <2>1, LeastOne
<1>3. m \in 0..n /\ m # 0 /\ m \notin G
  OBVIOUS
<1>4. m \in 1..n /\ m - 1 \in 0..(m - 1) /\ m - 1 \in 0..n
  BY <1>3
<1>5. m - 1 \in G
  BY <1>2, <1>4
<1>6. QED BY <1>3, <1>4, <1>5

\* The batch of a request, if it is one of those.
Part(b, S, n) == IF n \in S THEN b[n] ELSE 0

\* A function that BatchSum may choose.
Adds(g, b, S) ==
  g = [n \in 0..NumRequests |-> IF n = 0 THEN 0 ELSE g[n - 1] + Part(b, S, n)]

BSum(b, S) == (CHOOSE g : Adds(g, b, S))[NumRequests]

LEMMA AddsAt ==
  ASSUME NEW g, NEW b, NEW S, Adds(g, b, S)
  PROVE  g[0] = 0 /\ \A n \in 1..NumRequests : g[n] = g[n - 1] + Part(b, S, n)
<1>1. g = [n \in 0..NumRequests |-> IF n = 0 THEN 0 ELSE g[n - 1] + Part(b, S, n)]
  BY DEF Adds
<1>2. NumRequests \in Nat
  BY HotSpotAssumption
<1>3. \A n \in 0..NumRequests : g[n] = IF n = 0 THEN 0 ELSE g[n - 1] + Part(b, S, n)
  BY <1>1
<1>4. QED BY <1>2, <1>3

LEMMA PartNat ==
  ASSUME NEW b \in [Requests -> Nat], NEW S, NEW n \in 1..NumRequests
  PROVE  Part(b, S, n) \in Nat
BY DEF Part, Requests

\* There is one.
LEMMA AddsExist ==
  ASSUME NEW b \in [Requests -> Nat], NEW S
  PROVE  \E g \in [0..NumRequests -> Nat] : Adds(g, b, S)
<1> DEFINE N == NumRequests
           Fits(g, i) == g[0] = 0 /\ \A n \in 1..i : g[n] = g[n - 1] + Part(b, S, n)
           G == {i \in 0..N : \E g \in [0..N -> Nat] : Fits(g, i)}
<1>1. N \in Nat
  BY HotSpotAssumption
<1>2. 0 \in G
  <2>1. [n \in 0..N |-> 0] \in [0..N -> Nat] /\ Fits([n \in 0..N |-> 0], 0)
    BY <1>1
  <2>2. \E g \in [0..N -> Nat] : Fits(g, 0)
    BY <2>1
  <2>3. QED BY <1>1, <2>2
<1>3. ASSUME NEW i \in 1..N, i - 1 \in G PROVE i \in G
  <2>1. PICK g \in [0..N -> Nat] : Fits(g, i - 1)
    BY <1>3
  <2>2. PICK v \in Nat : v = g[i - 1] + Part(b, S, i)
    <3>1. Part(b, S, i) \in Nat /\ i - 1 \in 0..N
      BY <1>1, PartNat
    <3>2. QED BY <3>1
  <2> DEFINE h == [g EXCEPT ![i] = v]
  <2>3. h \in [0..N -> Nat] /\ \A n \in 0..N : h[n] = IF n = i THEN v ELSE g[n]
    BY <1>1
  <2> HIDE DEF h
  <2>4. h[0] = 0
    BY <1>1, <2>1, <2>3
  <2>5. ASSUME NEW n \in 1..i PROVE h[n] = h[n - 1] + Part(b, S, n)
    <3>1. n \in 0..N /\ n - 1 \in 0..N /\ n - 1 # i /\ h[n - 1] = g[n - 1]
      BY <1>1, <2>3
    <3>2. CASE n = i
      BY <2>2, <2>3, <3>1, <3>2
    <3>3. CASE n # i
      <4>1. n \in 1..(i - 1)
        BY <3>3
      <4>2. QED BY <2>1, <2>3, <3>1, <3>3, <4>1
    <3>4. QED BY <3>2, <3>3
  <2>6. Fits(h, i)
    BY <2>4, <2>5
  <2>7. \E f \in [0..N -> Nat] : Fits(f, i)
    BY <2>3, <2>6
  <2>8. QED BY <1>1, <2>7
<1>4. N \in G
  <2> HIDE DEF G
  <2>1. 0..N \subseteq G
    BY <1>1, <1>2, <1>3, Reaches
  <2>2. QED BY <1>1, <2>1
<1>5. PICK g \in [0..N -> Nat] : Fits(g, N)
  BY <1>4
<1>6. g = [n \in 0..N |-> g[n]]
  OBVIOUS
<1>7. \A n \in 0..N : g[n] = IF n = 0 THEN 0 ELSE g[n - 1] + Part(b, S, n)
  <2>1. ASSUME NEW n \in 0..N, n # 0 PROVE n \in 1..N
    BY <1>1, <2>1
  <2>2. QED BY <1>5, <2>1
<1>8. Adds(g, b, S)
  BY <1>6, <1>7 DEF Adds
<1>9. QED BY <1>8

\* What BatchSum chooses.
LEMMA SumIs ==
  ASSUME NEW b \in [Requests -> Nat], NEW S
  PROVE  \E g : g[0] = 0 /\ (\A n \in 1..NumRequests : g[n] = g[n - 1] + Part(b, S, n))
                /\ BSum(b, S) = g[NumRequests]
<1>1. \E g : Adds(g, b, S)
  BY AddsExist
<1>2. Adds(CHOOSE g : Adds(g, b, S), b, S)
  BY <1>1
<1>3. PICK g : g = (CHOOSE h : Adds(h, b, S))
  OBVIOUS
<1>4. Adds(g, b, S)
  BY <1>2, <1>3
<1>5. BSum(b, S) = g[NumRequests]
  BY <1>3 DEF BSum
<1>6. QED BY <1>4, <1>5, AddsAt

\* Of nobody it is nothing.
LEMMA SumNone ==
  ASSUME NEW b \in [Requests -> Nat]
  PROVE  BSum(b, {}) = 0
<1>1. PICK g : /\ g[0] = 0 /\ \A n \in 1..NumRequests : g[n] = g[n - 1] + Part(b, {}, n)
               /\ BSum(b, {}) = g[NumRequests]
  BY SumIs
<1> DEFINE N == NumRequests
           G == {n \in 0..N : g[n] = 0}
<1>2. N \in Nat
  BY HotSpotAssumption
<1>3. 0 \in G
  BY <1>1, <1>2
<1>4. ASSUME NEW i \in 1..N, i - 1 \in G PROVE i \in G
  <2>1. Part(b, {}, i) = 0
    BY DEF Part
  <2>2. QED BY <1>1, <1>2, <1>4, <2>1
<1>5. N \in G
  <2> HIDE DEF G
  <2>1. 0..N \subseteq G
    BY <1>2, <1>3, <1>4, Reaches
  <2>2. QED BY <1>2, <2>1
<1>6. QED BY <1>1, <1>5

\* It depends on the batches of those only.
LEMMA SumSame ==
  ASSUME NEW b \in [Requests -> Nat], NEW c \in [Requests -> Nat], NEW S,
         \A r \in S : b[r] = c[r]
  PROVE  BSum(b, S) = BSum(c, S)
<1>1. PICK g : /\ g[0] = 0 /\ \A n \in 1..NumRequests : g[n] = g[n - 1] + Part(b, S, n)
               /\ BSum(b, S) = g[NumRequests]
  BY SumIs
<1>2. PICK h : /\ h[0] = 0 /\ \A n \in 1..NumRequests : h[n] = h[n - 1] + Part(c, S, n)
               /\ BSum(c, S) = h[NumRequests]
  BY SumIs
<1> DEFINE N == NumRequests
           G == {n \in 0..N : g[n] = h[n]}
<1>3. N \in Nat
  BY HotSpotAssumption
<1>4. 0 \in G
  BY <1>1, <1>2, <1>3
<1>5. ASSUME NEW i \in 1..N, i - 1 \in G PROVE i \in G
  <2>1. Part(b, S, i) = Part(c, S, i)
    BY DEF Part
  <2>2. QED BY <1>1, <1>2, <1>3, <1>5, <2>1
<1>6. N \in G
  <2> HIDE DEF G
  <2>1. 0..N \subseteq G
    BY <1>3, <1>4, <1>5, Reaches
  <2>2. QED BY <1>3, <2>1
<1>7. QED BY <1>1, <1>2, <1>6

\* One request more adds its batch.
LEMMA SumAdds ==
  ASSUME NEW b \in [Requests -> Nat], NEW S, NEW r \in Requests, r \notin S
  PROVE  BSum(b, S \cup {r}) = BSum(b, S) + b[r]
<1>1. PICK g : /\ g[0] = 0 /\ \A n \in 1..NumRequests : g[n] = g[n - 1] + Part(b, S, n)
               /\ BSum(b, S) = g[NumRequests]
  BY SumIs
<1>2. PICK h : /\ h[0] = 0
               /\ \A n \in 1..NumRequests : h[n] = h[n - 1] + Part(b, S \cup {r}, n)
               /\ BSum(b, S \cup {r}) = h[NumRequests]
  BY SumIs
<1> DEFINE N == NumRequests
           More(n) == IF n < r THEN 0 ELSE b[r]
           G == {n \in 0..N : g[n] \in Nat /\ h[n] = g[n] + More(n)}
<1>3. N \in Nat /\ r \in 1..N /\ b[r] \in Nat
  BY HotSpotAssumption DEF Requests
<1>4. 0 \in G
  BY <1>1, <1>2, <1>3
<1>5. ASSUME NEW i \in 1..N, i - 1 \in G PROVE i \in G
  <2>1. Part(b, S, i) \in Nat
    BY PartNat
  <2>2. Part(b, S \cup {r}, i) = Part(b, S, i) + (IF i = r THEN b[r] ELSE 0)
    <3>1. CASE i = r
      BY <1>3, <3>1 DEF Part
    <3>2. CASE i # r
      <4>1. Part(b, S \cup {r}, i) = Part(b, S, i)
        BY <3>2 DEF Part
      <4>2. QED BY <2>1, <3>2, <4>1
    <3>3. QED BY <3>1, <3>2
  <2>3. More(i) = More(i - 1) + (IF i = r THEN b[r] ELSE 0)
    BY <1>3
  <2>4. g[i] = g[i - 1] + Part(b, S, i) /\ h[i] = h[i - 1] + Part(b, S \cup {r}, i)
    BY <1>1, <1>2
  <2>5. g[i - 1] \in Nat /\ h[i - 1] = g[i - 1] + More(i - 1) /\ More(i - 1) \in Nat
    BY <1>3, <1>5
  <2> HIDE DEF More
  <2>6. g[i] \in Nat /\ h[i] = g[i] + More(i)
    BY <1>3, <2>1, <2>2, <2>3, <2>4, <2>5
  <2>7. i \in 0..N
    BY <1>3
  <2>8. QED BY <2>6, <2>7
<1>6. N \in G
  <2> HIDE DEF G
  <2>1. 0..N \subseteq G
    BY <1>3, <1>4, <1>5, Reaches
  <2>2. QED BY <1>3, <2>1
<1>7. More(N) = b[r]
  BY <1>3
<1>8. QED BY <1>1, <1>2, <1>6, <1>7

\* It is a number.
LEMMA SumNat ==
  ASSUME NEW b \in [Requests -> Nat], NEW S
  PROVE  BSum(b, S) \in Nat
<1>1. PICK g : /\ g[0] = 0 /\ \A n \in 1..NumRequests : g[n] = g[n - 1] + Part(b, S, n)
               /\ BSum(b, S) = g[NumRequests]
  BY SumIs
<1> DEFINE N == NumRequests
           G == {n \in 0..N : g[n] \in Nat}
<1>2. N \in Nat
  BY HotSpotAssumption
<1>3. 0 \in G
  BY <1>1, <1>2
<1>4. ASSUME NEW i \in 1..N, i - 1 \in G PROVE i \in G
  <2>1. Part(b, S, i) \in Nat
    BY PartNat
  <2>2. QED BY <1>1, <1>2, <1>4, <2>1
<1>5. N \in G
  <2> HIDE DEF G
  <2>1. 0..N \subseteq G
    BY <1>2, <1>3, <1>4, Reaches
  <2>2. QED BY <1>2, <2>1
<1>6. QED BY <1>1, <1>5

\* BatchSum is that sum.
LEMMA BatchSumIs ==
  ASSUME NEW S
  PROVE  BatchSum(S) = BSum(batch, S)
BY DEF BatchSum, BSum, Adds, Part

-----------------------------------------------------------------------------
(* The rate the reject strategy keeps                                       *)

\* A controller that rations its arguments out.
Rations(k) == tcs[k].metric = "QPS" /\ tcs[k].behavior = "Reject" /\ NoEviction(k)

TimeOf(k, arg)   == time[k][timeCounter[k].items[arg]]
TokensOf(k, arg) == token[k][tokenCounter[k].items[arg]]

\* What requests with this argument were granted, and when.
Spent(k, arg)  == BatchSum(PassedBy(k, arg))
Starts(k, arg) == {passAt[k][q] : q \in PassedBy(k, arg)}

\* A full bucket and what time has added to it since some grant are enough for that.
Enough(k, arg, sum, when) ==
  \E start \in Starts(k, arg) :
    sum * tcs[k].durationInSec
      <= MaxCount(k, arg) * tcs[k].durationInSec + TokenCount(k, arg) * (when - start)

\* Somebody is between the two writes that fill a bucket.
Filling(k, arg) ==
  \E r \in Requests : pc[r] \in {"firstTokens", "stamp"} /\ at[r] = k /\ Arg(r) = arg

\* An argument has a time and tokens once a request with it has passed, and a full
\* bucket and time are enough for what was granted and for the tokens left.
Balance(k, arg) ==
  /\ Holds(timeCounter[k], arg) <=> PassedBy(k, arg) # {}
  /\ Holds(tokenCounter[k], arg) <=> PassedBy(k, arg) # {}
  /\ PassedBy(k, arg) # {} =>
       /\ TokenCount(k, arg) > 0 /\ TimeOf(k, arg) <= clock
       /\ Enough(k, arg, Spent(k, arg) + TokensOf(k, arg), TimeOf(k, arg))

Balanced ==
  ~disturbed => \A k \in Controllers, arg \in Args :
    Rations(k) /\ ~Filling(k, arg) => Balance(k, arg)

\* A request has the counters of its argument in its hands.
Carries(r) ==
  pc[r] \in BucketOnly \cup {"loadTime"} /\ Rations(at[r]) =>
    /\ pc[r] # "firstTokens" => /\ Holds(timeCounter[at[r]], Arg(r))
                                /\ local[r].last = timeCounter[at[r]].items[Arg(r)]
    /\ pc[r] \in {"loadOld", "swapRefill", "loadRest", "swapSpend"} =>
         /\ Holds(tokenCounter[at[r]], Arg(r))
         /\ local[r].rest = tokenCounter[at[r]].items[Arg(r)]
    /\ pc[r] = "swapSpend" => local[r].new = local[r].old - batch[r]

\* What a request has worked out half way is still so while nobody disturbed it.
WorkedOut(r) ==
  ~disturbed /\ pc[r] \in HalfWay \ {"stampExpected"} /\ Rations(at[r]) =>
    /\ Holds(timeCounter[at[r]], Arg(r))
    /\ pc[r] = "firstTokens" =>
         /\ PassedBy(at[r], Arg(r)) = {} /\ ~Holds(tokenCounter[at[r]], Arg(r))
         /\ TimeOf(at[r], Arg(r)) = local[r].now
    /\ pc[r] \in {"refill", "loadOld"} => local[r].new = local[r].now - TimeOf(at[r], Arg(r))
    /\ pc[r] = "swapRefill" =>
         (local[r].new + batch[r]) * Rule(r).durationInSec
           <= local[r].old * Rule(r).durationInSec
              + TokenCount(at[r], Arg(r)) * (local[r].now - TimeOf(at[r], Arg(r)))
    /\ pc[r] = "stamp" =>
         /\ Holds(tokenCounter[at[r]], Arg(r))
         /\ Enough(at[r], Arg(r), Spent(at[r], Arg(r)) + TokensOf(at[r], Arg(r)) + batch[r],
                   local[r].now)

\* Nobody has read a moment that is still to come, and only throttling sets times.
Timely(r) ==
  /\ pc[r] \in Loop \ {"readClock"} => local[r].now <= clock
  /\ pc[r] \in Setting => Rule(r).behavior = "Throttling"

\* A request has not passed the controllers it has yet to pass.
Ahead(r) ==
  pc[r] \in InQPS \cup InConcurrency =>
    \A k \in Controllers :
      k > at[r] \/ (k = at[r] /\ pc[r] # "sleeping") => passAt[k][r] = Never

RInv ==
  /\ Balanced
  /\ \A r \in Requests : Carries(r) /\ WorkedOut(r) /\ Timely(r) /\ Ahead(r)

\* The sum of the batches granted, now and after a step.
LEMMA SpentIs ==
  ASSUME NEW k, NEW a
  PROVE  /\ Spent(k, a) = BSum(batch, PassedBy(k, a))
         /\ Spent(k, a)' = BSum(batch', PassedBy(k, a)')
<1>1. Spent(k, a) = BSum(batch, PassedBy(k, a))
  BY BatchSumIs DEF Spent
<1>2. Spent(k, a)' = BSum(batch', PassedBy(k, a)')
  BY DEF Spent, BatchSum, BSum, Adds, Part
<1>3. QED BY <1>1, <1>2

\* The numbers behind the comparison.
LEMMA RationNumbers ==
  ASSUME IInv, NEW k \in Controllers, NEW a
  PROVE  /\ MaxCount(k, a) \in Int /\ TokenCount(k, a) \in Int
         /\ tcs[k].metric = "QPS" => tcs[k].durationInSec \in Nat \ {0}
         /\ Spent(k, a) \in Nat
<1>1. MaxCount(k, a) \in Int /\ TokenCount(k, a) \in Int
  BY MaxCountInt DEF IInv, Ranges
<1>2. tcs[k].metric = "QPS" => tcs[k].durationInSec \in Nat \ {0}
  BY HotSpotAssumption DEF IInv, Ranges, Controllers, IsRule, IsValidRule
<1>3. batch \in [Requests -> Nat]
  BY DEF IInv, Ranges
<1>4. Spent(k, a) \in Nat
  <2>1. Spent(k, a) = BSum(batch, PassedBy(k, a))
    BY SpentIs
  <2>2. BSum(batch, PassedBy(k, a)) \in Nat
    BY <1>3, SumNat
  <2>3. QED BY <2>1, <2>2
<1>5. QED BY <1>1, <1>2, <1>4

\* The times and tokens of an argument are numbers.
LEMMA StoredNumbers ==
  ASSUME IInv, DInv, NEW k \in Controllers, NEW a \in Args
  PROVE  /\ Holds(timeCounter[k], a) => TimeOf(k, a) \in Int
         /\ Holds(tokenCounter[k], a) => TokensOf(k, a) \in Int /\ TokensOf(k, a) >= 0
         /\ Starts(k, a) \subseteq Int
<1>1. Holds(timeCounter[k], a) => TimeOf(k, a) \in Int
  BY DEF IInv, Ranges, Stores, DInv, TimesBelong, CounterFor, TimeOf
<1>2. Holds(tokenCounter[k], a) => TokensOf(k, a) \in Int /\ TokensOf(k, a) >= 0
  BY DEF IInv, Ranges, Stores, Owned, CounterFor, TokensOf, TokensInBucket
<1>3. Starts(k, a) \subseteq Int
  BY DEF DInv, Starts, PassedBy
<1>4. QED BY <1>1, <1>2, <1>3

\* The argument keeps what is in the caches for it, and what it was granted.
Same(k, arg) ==
  /\ timeCounter'[k].items[arg] = timeCounter[k].items[arg]
  /\ tokenCounter'[k].items[arg] = tokenCounter[k].items[arg]
  /\ Holds(timeCounter[k], arg) => TimeOf(k, arg)' = TimeOf(k, arg)
  /\ Holds(tokenCounter[k], arg) => TokensOf(k, arg)' = TokensOf(k, arg)
  /\ PassedBy(k, arg)' = PassedBy(k, arg) /\ Starts(k, arg)' = Starts(k, arg)
  /\ Spent(k, arg)' = Spent(k, arg)

\* With that its balance holds on.
LEMMA SameBalance ==
  ASSUME tcs' = tcs, IInv, DInv, clock' = clock \/ clock' = clock + 1,
         NEW k \in Controllers, NEW a \in Args, Same(k, a), Balance(k, a)
  PROVE  Balance(k, a)'
<1>1. /\ Holds(timeCounter[k], a)' <=> Holds(timeCounter[k], a)
      /\ Holds(tokenCounter[k], a)' <=> Holds(tokenCounter[k], a)
      /\ PassedBy(k, a)' = PassedBy(k, a)
  BY DEF Same, Holds
<1> SUFFICES ASSUME PassedBy(k, a) # {}
             PROVE  /\ TokenCount(k, a)' > 0 /\ TimeOf(k, a)' <= clock'
                    /\ Enough(k, a, Spent(k, a) + TokensOf(k, a), TimeOf(k, a))'
  BY <1>1 DEF Balance
<1>2. /\ Holds(timeCounter[k], a) /\ Holds(tokenCounter[k], a) /\ TokenCount(k, a) > 0
      /\ TimeOf(k, a) <= clock /\ Enough(k, a, Spent(k, a) + TokensOf(k, a), TimeOf(k, a))
  BY DEF Balance
<1>3. /\ TimeOf(k, a)' = TimeOf(k, a) /\ TokensOf(k, a)' = TokensOf(k, a)
      /\ Starts(k, a)' = Starts(k, a) /\ Spent(k, a)' = Spent(k, a)
  BY <1>2 DEF Same
<1>4. TokenCount(k, a)' = TokenCount(k, a) /\ MaxCount(k, a)' = MaxCount(k, a)
  BY DEF TokenCount, MaxCount
<1>5. TimeOf(k, a)' <= clock'
  <2>1. TimeOf(k, a) \in Int /\ clock \in Int
    BY <1>2, StoredNumbers DEF IInv, Ranges
  <2>2. QED BY <1>2, <1>3, <2>1
<1>6. QED BY <1>2, <1>3, <1>4, <1>5 DEF Enough

LEMMA RationsStays ==
  ASSUME UNCHANGED <<tcs, args>>, NEW k
  PROVE  Rations(k)' <=> Rations(k)
BY DEF Rations, NoEviction

\* Who does not move keeps what it carries and has worked out.
LEMMA OthersCarry ==
  ASSUME IInv, RInv, NEW r \in Requests, Alone(r), UNCHANGED <<tcs, args, batch>>,
         clock' = clock, NEW q \in Requests, q # r,
         pc[q] \in BucketOnly \cup {"loadTime"} /\ Rations(at[q]) =>
           /\ Holds(timeCounter[at[q]], Arg(q)) =>
                timeCounter'[at[q]].items[Arg(q)] = timeCounter[at[q]].items[Arg(q)]
           /\ Holds(tokenCounter[at[q]], Arg(q)) =>
                tokenCounter'[at[q]].items[Arg(q)] = tokenCounter[at[q]].items[Arg(q)],
         passAt' \in [Controllers -> [Requests -> Int]],
         \A j \in Controllers : passAt'[j][q] = passAt[j][q]
  PROVE  Carries(q)' /\ Timely(q)' /\ Ahead(q)'
<1>1. pc'[q] = pc[q] /\ at'[q] = at[q] /\ local'[q] = local[q] /\ Arg(q)' = Arg(q)
      /\ Controllers' = Controllers
  BY DEF Alone, Arg, Controllers
<1>2. Rations(at[q])' <=> Rations(at[q])
  BY <1>1 DEF Rations, NoEviction
<1>3. Carries(q) /\ Timely(q) /\ Ahead(q)
  BY DEF RInv
<1>4. Timely(q)'
  BY <1>1, <1>3 DEF Timely, Rule
<1>5. Ahead(q)'
  BY <1>1, <1>3 DEF Ahead
<1>6. Carries(q)'
  <2> SUFFICES ASSUME pc[q] \in BucketOnly \cup {"loadTime"}, Rations(at[q]) PROVE Carries(q)'
    BY <1>1, <1>2 DEF Carries
  <2>1. /\ pc[q] # "firstTokens" => /\ Holds(timeCounter[at[q]], Arg(q))
                                    /\ local[q].last = timeCounter[at[q]].items[Arg(q)]
        /\ pc[q] \in {"loadOld", "swapRefill", "loadRest", "swapSpend"} =>
             /\ Holds(tokenCounter[at[q]], Arg(q))
             /\ local[q].rest = tokenCounter[at[q]].items[Arg(q)]
        /\ pc[q] = "swapSpend" => local[q].new = local[q].old - batch[q]
    BY <1>3 DEF Carries
  <2>2. pc[q] # "firstTokens" => /\ Holds(timeCounter'[at[q]], Arg(q))
                                 /\ local[q].last = timeCounter'[at[q]].items[Arg(q)]
    BY <2>1 DEF Holds
  <2>3. pc[q] \in {"loadOld", "swapRefill", "loadRest", "swapSpend"} =>
             /\ Holds(tokenCounter'[at[q]], Arg(q))
             /\ local[q].rest = tokenCounter'[at[q]].items[Arg(q)]
    BY <2>1 DEF Holds
  <2>4. QED BY <1>1, <2>1, <2>2, <2>3 DEF Carries, Holds
<1>7. QED BY <1>4, <1>5, <1>6

\* What has been worked out for an argument that is the same as before.
LEMMA OthersWorked ==
  ASSUME IInv, RInv, NEW r \in Requests, Alone(r), UNCHANGED <<tcs, args, batch>>,
         disturbed => disturbed', NEW q \in Requests, q # r,
         NEW k, k = at[q], NEW a, a = Arg(q), Rations(k) /\ pc[q] \in HalfWay \ {"stampExpected"} => Same(k, a)
  PROVE  WorkedOut(q)'
<1>1. pc'[q] = pc[q] /\ at'[q] = at[q] /\ local'[q] = local[q] /\ Arg(q)' = Arg(q) /\ Rule(q)' = Rule(q)
  BY DEF Alone, Arg, Rule
<1>2. Rations(k)' <=> Rations(k)
  BY RationsStays
<1>3. WorkedOut(q)
  BY DEF RInv
<1>4. at'[q] = k /\ Arg(q)' = a
  BY <1>1
<1> SUFFICES ASSUME ~disturbed', ~disturbed, pc[q] \in HalfWay \ {"stampExpected"}, Rations(k)
             PROVE  /\ Holds(timeCounter[k], a)'
                    /\ pc[q] = "firstTokens" =>
                         /\ PassedBy(k, a)' = {} /\ ~Holds(tokenCounter[k], a)'
                         /\ TimeOf(k, a)' = local[q].now
                    /\ pc[q] \in {"refill", "loadOld"} => local[q].new = local[q].now - TimeOf(k, a)'
                    /\ pc[q] = "swapRefill" =>
                         (local[q].new + batch[q]) * Rule(q).durationInSec
                           <= local[q].old * Rule(q).durationInSec
                              + TokenCount(k, a)' * (local[q].now - TimeOf(k, a)')
                    /\ pc[q] = "stamp" =>
                         /\ Holds(tokenCounter[k], a)'
                         /\ Enough(k, a, Spent(k, a) + TokensOf(k, a) + batch[q], local[q].now)'
  <2>1. k = at[q]' /\ a = Arg(q)' /\ batch'[q] = batch[q]
    BY <1>4
  <2>2. QED BY <1>1, <1>2, <2>1 DEF WorkedOut, Rule, Holds, TimeOf, TokensOf, PassedBy, TokenCount, Enough, Spent, Starts, MaxCount
<1>5. Same(k, a)
  OBVIOUS
<1>6. /\ Holds(timeCounter[k], a)
      /\ pc[q] = "firstTokens" =>
           PassedBy(k, a) = {} /\ ~Holds(tokenCounter[k], a) /\ TimeOf(k, a) = local[q].now
      /\ pc[q] \in {"refill", "loadOld"} => local[q].new = local[q].now - TimeOf(k, a)
      /\ pc[q] = "swapRefill" =>
           (local[q].new + batch[q]) * Rule(q).durationInSec
             <= local[q].old * Rule(q).durationInSec + TokenCount(k, a) * (local[q].now - TimeOf(k, a))
      /\ pc[q] = "stamp" =>
           /\ Holds(tokenCounter[k], a)
           /\ Enough(k, a, Spent(k, a) + TokensOf(k, a) + batch[q], local[q].now)
  BY <1>3 DEF WorkedOut
<1>7. /\ Holds(timeCounter[k], a)' /\ TimeOf(k, a)' = TimeOf(k, a)
      /\ Holds(tokenCounter[k], a)' <=> Holds(tokenCounter[k], a)
      /\ PassedBy(k, a)' = PassedBy(k, a)
      /\ Holds(tokenCounter[k], a) => TokensOf(k, a)' = TokensOf(k, a)
      /\ Starts(k, a)' = Starts(k, a) /\ Spent(k, a)' = Spent(k, a)
  BY <1>5, <1>6 DEF Same, Holds
<1>8. TokenCount(k, a)' = TokenCount(k, a) /\ MaxCount(k, a)' = MaxCount(k, a)
  BY DEF TokenCount, MaxCount
<1>9. pc[q] = "stamp" => Enough(k, a, Spent(k, a) + TokensOf(k, a) + batch[q], local[q].now)'
  BY <1>1, <1>6, <1>7, <1>8 DEF Enough
<1>10. QED BY <1>6, <1>7, <1>8, <1>9

\* Nobody else fills the bucket of an argument once a request has moved.
LEMMA FillersStay ==
  ASSUME NEW r \in Requests, Alone(r), args' = args, NEW j, NEW x, Filling(j, x), ~Filling(j, x)'
  PROVE  pc[r] \in {"firstTokens", "stamp"} /\ at[r] = j /\ Arg(r) = x
<1>1. PICK q \in Requests : pc[q] \in {"firstTokens", "stamp"} /\ at[q] = j /\ Arg(q) = x
  BY DEF Filling
<1>2. ASSUME q # r PROVE FALSE
  <2>1. pc'[q] = pc[q] /\ at'[q] = at[q] /\ Arg(q)' = Arg(q)
    BY <1>2 DEF Alone, Arg
  <2>2. QED BY <1>1, <2>1 DEF Filling
<1>3. QED BY <1>1, <1>2

\* A step changes what there is for one argument at most.
LEMMA StepRations ==
  ASSUME IInv, DInv, RInv, NEW r \in Requests, Alone(r), UNCHANGED <<clock, tcs, args, batch>>,
         disturbed' = (disturbed \/ Disturbs(r)), passAt' \in [Controllers -> [Requests -> Int]],
         \A j \in Controllers, q \in Requests \ {r} : passAt'[j][q] = passAt[j][q],
         NEW k, k = at[r], NEW a, a = Arg(r),
         \A j \in Controllers, x \in Args : Rations(j) /\ (j # k \/ x # a) => Same(j, x),
         k \in Controllers /\ a \in Args /\ Rations(k) =>
           /\ Holds(timeCounter[k], a) => timeCounter'[k].items[a] = timeCounter[k].items[a]
           /\ Holds(tokenCounter[k], a) => tokenCounter'[k].items[a] = tokenCounter[k].items[a]
           /\ pc[r] \in InQPS \/ Same(k, a)
           /\ ~disturbed' /\ ~Filling(k, a)' => Balance(k, a)',
         Carries(r)', WorkedOut(r)', Timely(r)', Ahead(r)'
  PROVE  RInv'
<1>1. Controllers' = Controllers
  BY DEF Controllers
<1>2. \A q \in Requests : pc[q] \in BucketOnly \cup {"loadTime"} => at[q] \in Controllers /\ Arg(q) \in Args
  BY DEF IInv, InOrder, Loop
<1>3. ASSUME NEW j \in Controllers, NEW x \in Args, Rations(j)
      PROVE  /\ Holds(timeCounter[j], x) => timeCounter'[j].items[x] = timeCounter[j].items[x]
             /\ Holds(tokenCounter[j], x) => tokenCounter'[j].items[x] = tokenCounter[j].items[x]
  <2>1. CASE j = k /\ x = a
    BY <1>3, <2>1
  <2>2. CASE j # k \/ x # a
    BY <1>3, <2>2 DEF Same
  <2>3. QED BY <2>1, <2>2
<1>4. ASSUME NEW q \in Requests, q # r
      PROVE  Carries(q)' /\ WorkedOut(q)' /\ Timely(q)' /\ Ahead(q)'
  <2>1. Carries(q)' /\ Timely(q)' /\ Ahead(q)'
    <3>1. \A j \in Controllers : passAt'[j][q] = passAt[j][q]
      BY <1>4
    <3>2. pc[q] \in BucketOnly \cup {"loadTime"} /\ Rations(at[q]) =>
           /\ Holds(timeCounter[at[q]], Arg(q)) =>
                timeCounter'[at[q]].items[Arg(q)] = timeCounter[at[q]].items[Arg(q)]
           /\ Holds(tokenCounter[at[q]], Arg(q)) =>
                tokenCounter'[at[q]].items[Arg(q)] = tokenCounter[at[q]].items[Arg(q)]
      BY <1>2, <1>3
    <3>3. QED BY <1>4, <3>1, <3>2, OthersCarry
  <2>2. WorkedOut(q)'
    <3>1. CASE disturbed' \/ pc[q] \notin HalfWay \ {"stampExpected"}
      <4>1. pc'[q] = pc[q]
        BY <1>4 DEF Alone
      <4>2. QED BY <3>1, <4>1 DEF WorkedOut
    <3>2. CASE ~disturbed' /\ pc[q] \in HalfWay \ {"stampExpected"}
      <4>1. pc[r] \notin InQPS
        BY <1>4, <3>2 DEF Disturbs
      <4>2. PICK j, x : j = at[q] /\ x = Arg(q)
        OBVIOUS
      <4>3. j \in Controllers /\ x \in Args
        BY <1>2, <3>2, <4>2 DEF HalfWay, BucketOnly
      <4>4. Rations(j) => Same(j, x)
        BY <4>1, <4>3
      <4>5. QED BY <1>4, <4>2, <4>4, OthersWorked
    <3>3. QED BY <3>1, <3>2
  <2>3. QED BY <2>1, <2>2
<1>5. Balanced'
  <2>1. ASSUME ~disturbed', NEW j \in Controllers, NEW x \in Args, Rations(j), ~Filling(j, x)'
        PROVE  Balance(j, x)'
    <3>1. CASE j = k /\ x = a
      BY <2>1, <3>1
    <3>2. CASE j # k \/ x # a
      <4>1. Same(j, x)
        BY <2>1, <3>2
      <4>2. ~Filling(j, x)
        BY <2>1, <3>2, FillersStay
      <4>3. Balance(j, x)
        BY <2>1, <4>2 DEF RInv, Balanced
      <4>4. QED BY <4>1, <4>3, SameBalance
    <3>3. QED BY <3>1, <3>2
  <2>2. \A j : Rations(j)' <=> Rations(j)
    BY RationsStays
  <2>3. QED BY <1>1, <2>1, <2>2 DEF Balanced
<1>6. QED BY <1>4, <1>5 DEF RInv

\* Or none at all.
LEMMA QuietRations ==
  ASSUME IInv, DInv, RInv, NEW r \in Requests, Alone(r), UNCHANGED <<clock, tcs, args, batch>>,
         disturbed' = (disturbed \/ Disturbs(r)), passAt' \in [Controllers -> [Requests -> Int]],
         \A j \in Controllers, q \in Requests \ {r} : passAt'[j][q] = passAt[j][q],
         \A j \in Controllers, x \in Args : Rations(j) => Same(j, x),
         Rations(at[r]) => pc[r] \notin {"firstTokens", "stamp"},
         Carries(r)', WorkedOut(r)', Timely(r)', Ahead(r)'
  PROVE  RInv'
<1>1. PICK k, a : k = at[r] /\ a = Arg(r)
  OBVIOUS
<1>2. k \in Controllers /\ a \in Args /\ Rations(k) =>
           /\ Holds(timeCounter[k], a) => timeCounter'[k].items[a] = timeCounter[k].items[a]
           /\ Holds(tokenCounter[k], a) => tokenCounter'[k].items[a] = tokenCounter[k].items[a]
           /\ pc[r] \in InQPS \/ Same(k, a)
  BY DEF Same
<1>3. ASSUME k \in Controllers, a \in Args, Rations(k), ~disturbed', ~Filling(k, a)' PROVE Balance(k, a)'
  <2>1. ~Filling(k, a)
    BY <1>1, <1>3, FillersStay
  <2>2. Same(k, a) /\ Balance(k, a)
    BY <1>3, <2>1 DEF RInv, Balanced
  <2>3. QED BY <1>3, <2>2, SameBalance
<1>4. \A j \in Controllers, x \in Args : Rations(j) /\ (j # k \/ x # a) => Same(j, x)
  OBVIOUS
<1>5. QED BY <1>1, <1>2, <1>3, <1>4, StepRations

\* Nothing is written to what a controller keeps, nor granted.
LEMMA AllSame ==
  ASSUME UNCHANGED <<args, batch>>, NEW j \in Controllers, NEW x \in Args,
         timeCounter'[j].items = timeCounter[j].items, tokenCounter'[j].items = tokenCounter[j].items,
         time'[j] = time[j], token'[j] = token[j], passAt'[j] = passAt[j]
  PROVE  Same(j, x)
<1>1. PassedBy(j, x)' = PassedBy(j, x)
  BY DEF PassedBy
<1>2. Starts(j, x)' = Starts(j, x)
  BY <1>1 DEF Starts
<1>3. Spent(j, x)' = Spent(j, x)
  BY <1>1, SpentIs
<1>4. TimeOf(j, x)' = TimeOf(j, x) /\ TokensOf(j, x)' = TokensOf(j, x)
  BY DEF TimeOf, TokensOf
<1>5. QED BY <1>1, <1>2, <1>3, <1>4 DEF Same

\* Another argument is as before when what is written belongs to this one.
LEMMA ElseSame ==
  ASSUME IInv, DInv, UNCHANGED <<args, batch>>, NEW r \in Requests,
         NEW k \in Controllers, NEW a \in Args, args[r][k] = a,
         NEW j \in Controllers, NEW x \in Args, j # k \/ x # a,
         timeCounter'[j].items[x] = timeCounter[j].items[x],
         tokenCounter'[j].items[x] = tokenCounter[j].items[x],
         \A i \in Controllers, p \in Requests : i # k \/ args[p][k] # a =>
           time'[i][p] = time[i][p] /\ token'[i][p] = token[i][p],
         \A i \in Controllers, p \in Requests : i # k \/ p # r => passAt'[i][p] = passAt[i][p]
  PROVE  Same(j, x)
<1>1. \A p \in Requests : args[p][j] = x => passAt'[j][p] = passAt[j][p]
  OBVIOUS
<1>2. PassedBy(j, x)' = PassedBy(j, x)
  BY <1>1 DEF PassedBy
<1>3. Starts(j, x)' = Starts(j, x)
  BY <1>1, <1>2 DEF Starts, PassedBy
<1>4. Spent(j, x)' = Spent(j, x)
  BY <1>2, SpentIs
<1>5. Holds(timeCounter[j], x) => TimeOf(j, x)' = TimeOf(j, x)
  BY DEF DInv, TimesBelong, CounterFor, TimeOf
<1>6. Holds(tokenCounter[j], x) => TokensOf(j, x)' = TokensOf(j, x)
  BY DEF IInv, Owned, CounterFor, TokensOf
<1>7. QED BY <1>2, <1>3, <1>4, <1>5, <1>6 DEF Same

\* The loop of Slot.Check goes on from where it is told.
LEMMA GoOnFrom ==
  ASSUME Ranges, NEW r \in Requests, NEW k \in Nat, GoOn(r, k)
  PROVE  at'[r] >= k /\ at'[r] \in Nat
<1>1. PICK i \in k..(Len(tcs) + 1) : at' = [at EXCEPT ![r] = i]
  BY DEF GoOn
<1>2. Len(tcs) \in Nat
  BY HotSpotAssumption DEF Ranges
<1>3. at'[r] = i /\ i >= k /\ i \in Nat
  BY <1>1, <1>2 DEF Ranges
<1>4. QED BY <1>3

\* A request that goes on has yet to pass what is ahead.
LEMMA OutcomeAhead ==
  ASSUME IInv, DInv, RInv, NEW r \in Requests, at[r] \in Controllers, UNCHANGED <<tcs, args>>,
         pc[r] \in InQPS \cup InConcurrency, pc[r] # "sleeping",
         \/ Blocked(r) \/ Again(r)
         \/ \E p : Continue(r, p) \/ \E l : Remember(r, p, l)
         \/ \E when \in Int : Granted(r, when)
  PROVE  Ahead(r)'
<1>1. Ranges /\ passAt \in [Controllers -> [Requests -> Int]] /\ Controllers' = Controllers
  BY DEF IInv, DInv, Controllers
<1>2. \A k \in Controllers : k >= at[r] => passAt[k][r] = Never
  <2>1. Ahead(r)
    BY DEF RInv
  <2>2. QED BY <2>1 DEF Ahead, Controllers
<1>3. CASE Blocked(r)
  <2>1. pc'[r] = "blocked"
    BY <1>1, <1>3, OutcomeLeaves
  <2>2. QED BY <2>1 DEF Ahead, InQPS, InConcurrency
<1>4. CASE Again(r) \/ \E p : Continue(r, p) \/ \E l : Remember(r, p, l)
  <2>1. at' = at /\ passAt' = passAt
    BY <1>4 DEF Again, Continue, Remember
  <2>2. QED BY <1>1, <1>2, <2>1 DEF Ahead, Controllers
<1>5. ASSUME NEW when \in Int, Granted(r, when) PROVE Ahead(r)'
  <2>1. at[r] \in Nat /\ GoOn(r, at[r] + 1)
    BY <1>1, <1>5 DEF Ranges, Granted
  <2>2. at'[r] >= at[r] + 1 /\ at'[r] \in Nat
    BY <1>1, <2>1, GoOnFrom
  <2>3. \A j \in Controllers, q \in Requests :
          passAt'[j][q] = IF j = at[r] /\ q = r THEN when ELSE passAt[j][q]
    BY <1>1, <1>5, OutcomeLeaves
  <2>4. ASSUME NEW k \in Controllers, k >= at'[r] PROVE passAt'[k][r] = Never
    <3>1. k >= at[r] /\ k # at[r]
      BY <2>1, <2>2, <2>4 DEF Controllers
    <3>2. QED BY <1>2, <2>3, <3>1
  <2>5. QED BY <1>1, <2>2, <2>4 DEF Ahead, Controllers
<1>6. QED BY <1>3, <1>4, <1>5

\* Where a request is in the loop.
LEMMA AtRation ==
  ASSUME IInv, CInv, NEW r \in Requests, pc[r] \in InQPS, NEW k, k = at[r], NEW a, a = Arg(r)
  PROVE  /\ k \in Controllers /\ Rule(r) = tcs[k] /\ args[r][k] = a
         /\ pc[r] \in Loop => a \in Args
         /\ pc[r] \in Loop \ {"readClock"} => TokenCount(k, a) > 0
         /\ pc[r] \in Loop \ {"readClock"} /\ tcs[k].behavior = "Reject" => batch[r] <= MaxCount(k, a)
         /\ batch[r] \in Nat \ {0} /\ local[r].now \in Int /\ local[r].new \in Int /\ local[r].old \in Int
<1>1. k \in Controllers
  BY LoopFacts
<1>2. Rule(r) = tcs[k] /\ args[r][k] = a
  BY DEF Rule, Arg
<1>3. /\ pc[r] \in Loop => a \in Args
      /\ pc[r] \in Loop \ {"readClock"} => TokenCount(k, a) > 0
      /\ pc[r] \in Loop \ {"readClock"} /\ tcs[k].behavior = "Reject" => batch[r] <= MaxCount(k, a)
  BY <1>2 DEF IInv, InOrder
<1>4. batch[r] \in Nat \ {0} /\ local[r].now \in Int /\ local[r].new \in Int /\ local[r].old \in Int
  BY DEF IInv, Ranges, Locals
<1>5. QED BY <1>1, <1>2, <1>3, <1>4

\* Outside the part of the loop where counters are in its hands.
LEMMA FreeHands ==
  ASSUME NEW r \in Requests, pc'[r] \notin BucketOnly \cup {"loadTime"}
  PROVE  Carries(r)' /\ WorkedOut(r)'
<1>1. pc'[r] \notin HalfWay \ {"stampExpected"}
  BY DEF HalfWay, BucketOnly
<1>2. QED BY <1>1 DEF Carries, WorkedOut

LEMMA FreeEnds ==
  ASSUME Ranges, passAt \in [Controllers -> [Requests -> Int]], NEW r \in Requests,
         at[r] \in Controllers, UNCHANGED <<tcs, args>>,
         Blocked(r) \/ Again(r) \/ \E when \in Int : Granted(r, when)
  PROVE  Carries(r)' /\ WorkedOut(r)' /\ Timely(r)'
<1>1. pc'[r] \in {"blocked", "readClock", "addConcurrent", "checked"}
  BY OutcomeLeaves
<1>2. pc'[r] \notin BucketOnly \cup {"loadTime"} /\ pc'[r] \notin Loop \ {"readClock"}
      /\ pc'[r] \notin Setting
  BY <1>1 DEF BucketOnly, Loop, Setting
<1>3. QED BY <1>2, FreeHands DEF Timely

\* While nobody is disturbed, who takes a step of the loop finds a balance.
LEMMA FindsBalance ==
  ASSUME IInv, CInv, RInv, NEW r \in Requests, pc[r] \in Loop, disturbed' = (disturbed \/ Disturbs(r)),
         ~disturbed', pc[r] \notin {"firstTokens", "stamp"},
         NEW k, k = at[r], NEW a, a = Arg(r), Rations(k)
  PROVE  Balance(k, a)
<1>1. pc[r] \in InQPS
  BY DEF Loop, BucketOnly, InQPS
<1>2. k \in Controllers /\ a \in Args
  BY <1>1, AtRation
<1>3. ~Filling(k, a)
  BY <1>1 DEF Filling, Disturbs, HalfWay
<1>4. QED BY <1>2, <1>3 DEF RInv, Balanced

\* A step of the loop that leaves the bucket of its argument as it is.
LEMMA QuietLoop ==
  ASSUME IInv, CInv, DInv, RInv, NEW r \in Requests, pc[r] \in InQPS,
         pc[r] \notin {"firstTokens", "stamp", "sleeping"},
         UNCHANGED <<clock, tcs, args, batch>>, disturbed' = (disturbed \/ Disturbs(r)),
         \A j \in Controllers : Rations(j) =>
           /\ timeCounter'[j].items = timeCounter[j].items /\ time'[j] = time[j]
           /\ tokenCounter'[j].items = tokenCounter[j].items /\ token'[j] = token[j],
         \/ Blocked(r) \/ Again(r)
         \/ /\ \E p : Continue(r, p) \/ \E l : Remember(r, p, l)
            /\ Carries(r)' /\ WorkedOut(r)' /\ Timely(r)'
  PROVE  RInv'
<1>1. at[r] \in Controllers /\ Ranges /\ passAt \in [Controllers -> [Requests -> Int]]
  BY LoopFacts DEF IInv, DInv
<1>2. Alone(r) /\ passAt' = passAt
  BY <1>1, OutcomeLeaves
<1>3. Carries(r)' /\ WorkedOut(r)' /\ Timely(r)'
  BY <1>1, FreeEnds
<1>4. Ahead(r)'
  BY <1>1, OutcomeAhead
<1>5. \A j \in Controllers, x \in Args : Rations(j) => Same(j, x)
  BY <1>2, AllSame
<1>6. QED BY <1>1, <1>2, <1>3, <1>4, <1>5, QuietRations

\* The steps of a controller that does not ration concern none that does.
LEMMA ElsewhereRations ==
  ASSUME IInv, CInv, DInv, RInv, NEW r \in Requests, pc[r] \in InQPS \cup InConcurrency, pc[r] # "sleeping",
         UNCHANGED <<clock, tcs, args, batch>>, disturbed' = (disturbed \/ Disturbs(r)),
         ~Rations(at[r]),
         \A j \in Controllers \ {at[r]} :
           /\ timeCounter'[j].items = timeCounter[j].items /\ time'[j] = time[j]
           /\ tokenCounter'[j].items = tokenCounter[j].items /\ token'[j] = token[j],
         \/ Blocked(r) \/ Again(r)
         \/ \E when \in Int : Granted(r, when)
         \/ (\E p : Continue(r, p) \/ \E l : Remember(r, p, l)) /\ Timely(r)'
  PROVE  RInv'
<1>1. at[r] \in Controllers /\ Ranges /\ passAt \in [Controllers -> [Requests -> Int]]
  BY LoopFacts DEF IInv, DInv
<1>2. /\ Alone(r) /\ passAt' \in [Controllers -> [Requests -> Int]]
      /\ \A j \in Controllers \ {at[r]} : passAt'[j] = passAt[j]
      /\ \A j \in Controllers, q \in Requests \ {r} : passAt'[j][q] = passAt[j][q]
  <2>1. CASE Blocked(r) \/ Again(r) \/ \E p : Continue(r, p) \/ \E l : Remember(r, p, l)
    BY <1>1, <2>1, OutcomeLeaves
  <2>2. ASSUME NEW when \in Int, Granted(r, when)
        PROVE  /\ Alone(r) /\ passAt' \in [Controllers -> [Requests -> Int]]
               /\ \A j \in Controllers \ {at[r]} : passAt'[j] = passAt[j]
               /\ \A j \in Controllers, q \in Requests \ {r} : passAt'[j][q] = passAt[j][q]
    <3>1. /\ Alone(r) /\ passAt' \in [Controllers -> [Requests -> Int]]
          /\ \A j \in Controllers, q \in Requests :
               passAt'[j][q] = IF j = at[r] /\ q = r THEN when ELSE passAt[j][q]
          /\ \A j \in Controllers \ {at[r]} : passAt'[j] = passAt[j]
      BY <1>1, <2>2, OutcomeLeaves
    <3>2. QED BY <3>1
  <2>3. QED BY <2>1, <2>2
<1>3. Carries(r)' /\ WorkedOut(r)' /\ Timely(r)'
  <2>1. CASE Blocked(r) \/ Again(r) \/ \E when \in Int : Granted(r, when)
    BY <1>1, <2>1, FreeEnds
  <2>2. CASE (\E p : Continue(r, p) \/ \E l : Remember(r, p, l)) /\ Timely(r)'
    <3>1. at' = at
      BY <2>2 DEF Continue, Remember
    <3>2. ~Rations(at[r])'
      BY <3>1 DEF Rations, NoEviction
    <3>3. QED BY <2>2, <3>2 DEF Carries, WorkedOut
  <2>3. QED BY <2>1, <2>2
<1>4. Ahead(r)'
  BY <1>1, OutcomeAhead
<1>5. \A j \in Controllers, x \in Args : Rations(j) => Same(j, x)
  <2>1. \A j \in Controllers : Rations(j) => j # at[r]
    OBVIOUS
  <2>2. QED BY <1>2, <2>1, AllSame
<1>6. QED BY <1>1, <1>2, <1>3, <1>4, <1>5, QuietRations

\* What the steps of the loop write belongs to their controller.
LEMMA WritesHere ==
  ASSUME IInv, NEW r \in Requests, InLoop(r), NEW j \in Controllers \ {at[r]}
  PROVE  /\ timeCounter'[j] = timeCounter[j] /\ tokenCounter'[j] = tokenCounter[j]
         /\ time'[j] = time[j] /\ token'[j] = token[j]
<1>1. AreCaches(timeCounter) /\ AreCaches(tokenCounter)
      /\ time \in [Controllers -> [Requests -> Int]] /\ token \in [Controllers -> [Requests -> Int]]
  BY DEF IInv, Ranges, Stores
<1>2. timeCounter' = timeCounter \/ \E c : timeCounter' = [timeCounter EXCEPT ![at[r]] = c]
  <2>1. CASE AddTime(r)
    BY <2>1 DEF AddTime
  <2>2. CASE ~AddTime(r)
    BY <2>2 DEF InLoop, ReadClock, FirstTokens, AddTokens, LoadTime, Refill, LoadOld, SwapRefill,
              Stamp, Spend, LoadRest, SwapSpend, SwapTime, StampExpected, Wake, caches
  <2>3. QED BY <2>1, <2>2
<1>3. tokenCounter' = tokenCounter \/ \E c : tokenCounter' = [tokenCounter EXCEPT ![at[r]] = c]
  <2>1. CASE FirstTokens(r) \/ Refill(r) \/ Spend(r)
    BY <2>1 DEF FirstTokens, Refill, AddTokens, Spend
  <2>2. CASE ~(FirstTokens(r) \/ Refill(r) \/ Spend(r))
    BY <2>2 DEF InLoop, ReadClock, AddTime, LoadTime, LoadOld, SwapRefill,
              Stamp, LoadRest, SwapSpend, SwapTime, StampExpected, Wake, caches
  <2>3. QED BY <2>1, <2>2
<1>4. time'[j] = time[j]
  <2>1. CASE AddTime(r) \/ Stamp(r) \/ SwapTime(r) \/ StampExpected(r)
    BY <1>1, <2>1 DEF AddTime, Stamp, SwapTime, StampExpected
  <2>2. CASE ~(AddTime(r) \/ Stamp(r) \/ SwapTime(r) \/ StampExpected(r))
    BY <2>2 DEF InLoop, ReadClock, FirstTokens, AddTokens, LoadTime, Refill, LoadOld, SwapRefill,
              Spend, LoadRest, SwapSpend, Wake, values
  <2>3. QED BY <2>1, <2>2
<1>5. token'[j] = token[j]
  <2>1. CASE FirstTokens(r) \/ Refill(r) \/ SwapRefill(r) \/ SwapSpend(r)
    BY <1>1, <2>1 DEF FirstTokens, Refill, AddTokens, SwapRefill, SwapSpend, Swap
  <2>2. CASE ~(FirstTokens(r) \/ Refill(r) \/ SwapRefill(r) \/ SwapSpend(r))
    BY <2>2 DEF InLoop, ReadClock, AddTime, LoadTime, LoadOld, Stamp, Spend, LoadRest,
              SwapTime, StampExpected, Wake, values
  <2>3. QED BY <2>1, <2>2
<1>6. timeCounter'[j] = timeCounter[j]
  <2>1. ASSUME NEW c, timeCounter' = [timeCounter EXCEPT ![at[r]] = c] PROVE timeCounter'[j] = timeCounter[j]
    <3>1. timeCounter = [i \in Controllers |-> timeCounter[i]] /\ j # at[r] /\ j \in Controllers
      BY <1>1 DEF AreCaches
    <3>2. QED BY <2>1, <3>1
  <2>2. QED BY <1>2, <2>1
<1>7. tokenCounter'[j] = tokenCounter[j]
  <2>1. ASSUME NEW c, tokenCounter' = [tokenCounter EXCEPT ![at[r]] = c] PROVE tokenCounter'[j] = tokenCounter[j]
    <3>1. tokenCounter = [i \in Controllers |-> tokenCounter[i]] /\ j # at[r] /\ j \in Controllers
      BY <1>1 DEF AreCaches
    <3>2. QED BY <2>1, <3>1
  <2>2. QED BY <1>3, <2>1
<1>8. QED BY <1>4, <1>5, <1>6, <1>7

\* A request stays at its controller, as timely as before.
LEMMA TimelyOn ==
  ASSUME IInv, RInv, NEW r \in Requests, UNCHANGED <<tcs, clock>>, at' = at,
         pc[r] \in Loop \ {"readClock"}, local'[r].now = local[r].now,
         pc'[r] \in Setting => Rule(r).behavior = "Throttling"
  PROVE  Timely(r)'
<1>1. Timely(r) /\ Rule(r)' = Rule(r)
  BY DEF RInv, Rule
<1>2. QED BY <1>1 DEF Timely

\* The steps of the loop keep a request timely.
LEMMA LoopTimely ==
  ASSUME IInv, CInv, DInv, RInv, NEW r \in Requests, InLoop(r), pc[r] # "sleeping",
         UNCHANGED <<clock, tcs, args>>
  PROVE  \/ Blocked(r) \/ Again(r)
         \/ \E when \in Int : Granted(r, when)
         \/ (\E p : Continue(r, p) \/ \E l : Remember(r, p, l)) /\ Timely(r)'
         \/ StampExpected(r)
<1>1. at[r] \in Controllers /\ Ranges /\ passAt \in [Controllers -> [Requests -> Int]]
      /\ local[r].now \in Int /\ local[r] \in Locals
  <2>1. pc[r] \in InQPS
    BY LoopGoes DEF InLoop, ReadClock, AddTime, FirstTokens, LoadTime, Refill, LoadOld, SwapRefill,
         Stamp, Spend, LoadRest, SwapSpend, SwapTime, StampExpected, Wake, InQPS
  <2>2. QED BY <2>1, LoopFacts DEF IInv, DInv, Ranges
<1>2. ASSUME NEW p, pc[r] \in Loop \ {"readClock"}, NEW l, l.now = local[r].now,
             p \in Setting => Rule(r).behavior = "Throttling", Continue(r, p) \/ Remember(r, p, l)
      PROVE  Timely(r)'
  <2>1. pc'[r] = p /\ at' = at /\ (local'[r] = l \/ local' = local)
    BY <1>1, <1>2, OutcomeLeaves
  <2>2. QED BY <1>2, <2>1, TimelyOn
<1>3. CASE ReadClock(r)
  <2>1. ASSUME Remember(r, "addTime", [NoLocals EXCEPT !.now = clock]) PROVE Timely(r)'
    <3>1. pc'[r] = "addTime" /\ local'[r] = [NoLocals EXCEPT !.now = clock]
      BY <1>1, <2>1, OutcomeLeaves
    <3>2. local'[r].now = clock /\ clock \in Int
      BY <1>1, <3>1 DEF NoLocals, Ranges
    <3>3. QED BY <3>1, <3>2 DEF Timely, Setting
  <2>2. QED BY <1>3, <2>1 DEF ReadClock
<1> DEFINE Keeping(l) == l.now = local[r].now
<1>4. CASE AddTime(r)
  <2>1. \A q : Keeping([local[r] EXCEPT !.last = q])
    BY <1>1 DEF Locals
  <2>2. pc[r] \in Loop \ {"readClock"} /\ Keeping(local[r])
    BY <1>4 DEF AddTime, Loop
  <2>3. \/ Granted(r, local[r].now) \/ Continue(r, "firstTokens")
        \/ \E l : Keeping(l) /\ Remember(r, "loadTime", l)
    BY <1>4, <2>1 DEF AddTime
  <2>4. "firstTokens" \notin Setting /\ "loadTime" \notin Setting
    BY DEF Setting
  <2>5. QED BY <1>1, <1>2, <2>2, <2>3, <2>4
<1>5. CASE FirstTokens(r)
  BY <1>1, <1>5 DEF FirstTokens
<1>6. CASE LoadTime(r)
  <2>1. \A v, w : Keeping([local[r] EXCEPT !.old = v, !.new = w]) /\ Keeping([local[r] EXCEPT !.new = v])
    BY <1>1 DEF Locals
  <2>2. pc[r] \in Loop \ {"readClock"} /\ Keeping(local[r])
    BY <1>6 DEF LoadTime, Loop
  <2>3. \/ Blocked(r) \/ Continue(r, "spend") \/ \E l : Keeping(l) /\ Remember(r, "refill", l)
        \/ Rule(r).behavior = "Throttling" /\ \E l : Keeping(l) /\ Remember(r, "swapTime", l)
    BY <1>6, <2>1 DEF LoadTime
  <2>4. "refill" \notin Setting /\ "spend" \notin Setting
    BY DEF Setting
  <2>5. QED BY <1>2, <2>2, <2>3, <2>4
<1>7. CASE Refill(r) \/ LoadOld(r) \/ SwapRefill(r) \/ Spend(r) \/ LoadRest(r) \/ SwapSpend(r)
  <2>1. \A v, w : Keeping([local[r] EXCEPT !.old = v, !.new = w]) /\ Keeping([local[r] EXCEPT !.rest = v])
    BY <1>1 DEF Locals
  <2>2. pc[r] \in Loop \ {"readClock"} /\ Keeping(local[r])
    BY <1>7 DEF Refill, LoadOld, SwapRefill, Spend, LoadRest, SwapSpend, Loop, BucketOnly
  <2>3. \/ Blocked(r) \/ Again(r) \/ Granted(r, local[r].now)
        \/ \E p \in {"stamp", "loadOld", "swapRefill", "loadRest", "swapSpend"} :
             Continue(r, p) \/ \E l : Keeping(l) /\ Remember(r, p, l)
    <3>1. CASE Refill(r)
      BY <2>1, <3>1 DEF Refill
    <3>2. CASE LoadOld(r)
      BY <2>1, <3>2 DEF LoadOld
    <3>3. CASE SwapRefill(r)
      BY <2>1, <3>3 DEF SwapRefill
    <3>4. CASE Spend(r)
      BY <2>1, <3>4 DEF Spend
    <3>5. CASE LoadRest(r)
      BY <2>1, <3>5 DEF LoadRest
    <3>6. CASE SwapSpend(r)
      BY <2>1, <3>6 DEF SwapSpend
    <3>7. QED BY <1>7, <3>1, <3>2, <3>3, <3>4, <3>5, <3>6
  <2>4. \A p \in {"stamp", "loadOld", "swapRefill", "loadRest", "swapSpend"} : p \notin Setting
    BY DEF Setting
  <2>5. QED BY <1>1, <1>2, <2>2, <2>3, <2>4
<1>8. CASE Stamp(r)
  BY <1>1, <1>8 DEF Stamp
<1>9. CASE SwapTime(r)
  <2>1. pc[r] \in Loop \ {"readClock"} /\ Keeping(local[r]) /\ pc[r] \in Setting
    BY <1>9 DEF SwapTime, Loop, Setting
  <2>2. Rule(r).behavior = "Throttling"
    BY <2>1 DEF RInv, Timely
  <2>3. Continue(r, "stampExpected") \/ Granted(r, local[r].now) \/ Again(r)
    BY <1>9 DEF SwapTime
  <2>4. QED BY <1>1, <1>2, <2>1, <2>2, <2>3
<1>10. CASE Wake(r)
  BY <1>10 DEF Wake
<1>11. QED BY <1>3, <1>4, <1>5, <1>6, <1>7, <1>8, <1>9, <1>10 DEF InLoop

\* Nothing that is rationed, and no grant, is touched.
LEMMA AsideRations ==
  ASSUME IInv, DInv, RInv, NEW r \in Requests, Alone(r), UNCHANGED <<clock, tcs, args, batch>>,
         disturbed' = (disturbed \/ Disturbs(r)), UNCHANGED <<timeCounter, tokenCounter, time, token, passAt>>,
         pc[r] \notin {"firstTokens", "stamp"},
         pc'[r] \notin BucketOnly \cup {"loadTime"}, Timely(r)', Ahead(r)'
  PROVE  RInv'
<1>1. passAt' \in [Controllers -> [Requests -> Int]]
      /\ \A j \in Controllers, q \in Requests \ {r} : passAt'[j][q] = passAt[j][q]
  BY DEF DInv
<1>2. \A j \in Controllers, x \in Args : Rations(j) => Same(j, x)
  BY AllSame
<1>3. Carries(r)' /\ WorkedOut(r)'
  BY FreeHands
<1>4. QED BY <1>1, <1>2, <1>3, QuietRations

LEMMA LoopElsewhere ==
  ASSUME IInv, CInv, DInv, RInv, NEW r \in Requests, InLoop(r), pc[r] # "sleeping", ~StampExpected(r),
         UNCHANGED <<clock, tcs, args, batch>>, disturbed' = (disturbed \/ Disturbs(r)),
         ~Rations(at[r])
  PROVE  RInv'
<1>1. pc[r] \in InQPS
  BY LoopGoes DEF IInv
<1>2. \A j \in Controllers \ {at[r]} :
        /\ timeCounter'[j] = timeCounter[j] /\ tokenCounter'[j] = tokenCounter[j]
        /\ time'[j] = time[j] /\ token'[j] = token[j]
  BY WritesHere
<1>3. \/ Blocked(r) \/ Again(r)
      \/ \E when \in Int : Granted(r, when)
      \/ (\E p : Continue(r, p) \/ \E l : Remember(r, p, l)) /\ Timely(r)'
  BY LoopTimely
<1>4. QED BY <1>1, <1>2, <1>3, ElsewhereRations

\* The end of the queue of throttling is none of a bucket.
LEMMA StampExpectedRations ==
  ASSUME IInv, CInv, DInv, RInv, NEW r \in Requests, StampExpected(r),
         UNCHANGED <<clock, tcs, args, batch>>, disturbed' = (disturbed \/ Disturbs(r))
  PROVE  RInv'
<1>1. /\ pc[r] = "stampExpected" /\ at' = at
      /\ passAt' = [passAt EXCEPT ![at[r]][r] = local[r].new]
      /\ Move(r, "sleeping")
      /\ \E l : local' = [local EXCEPT ![r] = l]
      /\ InLoop(r)
  BY DEF StampExpected, InLoop
<1>2. at[r] \in Controllers /\ local[r].new \in Int
  BY <1>1, LoopFacts DEF InQPS
<1>3. ~Rations(at[r])
  BY <1>1 DEF RInv, Timely, Setting, Rations, Rule
<1>4. pc'[r] = "sleeping" /\ Alone(r)
  BY <1>1 DEF IInv, Ranges, Move, Alone
<1>5. /\ passAt' \in [Controllers -> [Requests -> Int]]
      /\ \A j \in Controllers, q \in Requests :
           passAt'[j][q] = IF j = at[r] /\ q = r THEN local[r].new ELSE passAt[j][q]
      /\ \A j \in Controllers \ {at[r]} : passAt'[j] = passAt[j]
  <2>1. PICK k \in Controllers, v \in Int : k = at[r] /\ v = local[r].new
    BY <1>2
  <2>2. passAt \in [Controllers -> [Requests -> Int]] /\ passAt' = [passAt EXCEPT ![k][r] = v]
    BY <1>1, <2>1 DEF DInv
  <2>3. /\ [passAt EXCEPT ![k][r] = v] \in [Controllers -> [Requests -> Int]]
        /\ \A j \in Controllers, q \in Requests :
             [passAt EXCEPT ![k][r] = v][j][q] = IF j = k /\ q = r THEN v ELSE passAt[j][q]
    <3>1. passAt \in [Controllers -> [Requests -> Int]] /\ k \in Controllers /\ v \in Int
      BY <2>2
    <3>2. QED BY <3>1, WriteOne
  <2>4. \A j \in Controllers \ {k} : passAt'[j] = passAt[j]
    BY <2>2
  <2>5. QED BY <2>1, <2>2, <2>3, <2>4
<1>6. Carries(r)' /\ WorkedOut(r)' /\ Timely(r)'
  <2>1. pc'[r] \notin BucketOnly \cup {"loadTime"} /\ pc'[r] \notin Loop /\ pc'[r] \notin Setting
    BY <1>4 DEF BucketOnly, Loop, Setting
  <2>2. QED BY <2>1, FreeHands DEF Timely
<1>7. Ahead(r)'
  <2>1. \A k \in Controllers : k > at[r] => passAt[k][r] = Never
    BY <1>1 DEF RInv, Ahead, InQPS
  <2>2. at[r] \in Int /\ Controllers' = Controllers
    BY <1>2 DEF Controllers
  <2>3. ASSUME NEW k \in Controllers, k > at[r] PROVE passAt'[k][r] = Never
    <3>1. k # at[r]
      BY <2>2, <2>3
    <3>2. QED BY <1>5, <2>1, <2>3, <3>1
  <2>4. QED BY <1>1, <1>4, <2>2, <2>3 DEF Ahead
<1>8. \A j \in Controllers, x \in Args : Rations(j) => Same(j, x)
  <2>1. ASSUME NEW j \in Controllers, NEW x \in Args, Rations(j) PROVE Same(j, x)
    <3>1. j # at[r]
      BY <1>3, <2>1
    <3>2. QED BY <1>1, <1>5, <2>1, <3>1, WritesHere, AllSame
  <2>2. QED BY <2>1
<1>9. QED BY <1>1, <1>4, <1>5, <1>6, <1>7, <1>8, QuietRations

LEMMA WakeRations ==
  ASSUME IInv, CInv, DInv, RInv, NEW r \in Requests, Wake(r),
         UNCHANGED <<clock, tcs, args, batch>>, disturbed' = (disturbed \/ Disturbs(r))
  PROVE  RInv'
<1>1. GoOn(r, at[r] + 1) /\ local' = [local EXCEPT ![r] = NoLocals] /\ pc[r] = "sleeping"
      /\ UNCHANGED <<timeCounter, tokenCounter, time, token, passAt>>
  BY DEF Wake, caches, values
<1>2. at[r] + 1 \in Nat \ {0} /\ at[r] \in Nat /\ Controllers' = Controllers
      /\ args' \in [Requests -> [Controllers -> Args \cup {NoArg}]]
  BY DEF IInv, Ranges, Controllers
<1>3. pc'[r] \in {"addConcurrent", "readClock", "checked"}
      /\ \A q \in Requests \ {r} : pc'[q] = pc[q] /\ at'[q] = at[q]
  BY <1>1, <1>2, GoOnSkips DEF IInv
<1>4. Alone(r)
  BY <1>1, <1>3 DEF Alone, IInv, Ranges
<1>5. pc'[r] \notin BucketOnly \cup {"loadTime"} /\ Timely(r)'
  BY <1>3 DEF BucketOnly, Timely, Loop, Setting
<1>6. Ahead(r)'
  <2>1. at'[r] >= at[r] + 1 /\ at'[r] \in Nat
    BY <1>1, <1>2, GoOnFrom DEF IInv
  <2>2. \A k \in Controllers : k > at[r] => passAt[k][r] = Never
    BY <1>1 DEF RInv, Ahead, InQPS
  <2>3. \A k \in Controllers : k >= at'[r] => passAt'[k][r] = Never
    BY <1>1, <1>2, <2>1, <2>2 DEF Controllers
  <2>4. QED BY <1>2, <2>1, <2>3 DEF Ahead, Controllers
<1>7. QED BY <1>1, <1>4, <1>5, <1>6, AsideRations

LEMMA ConcurrencyRations ==
  ASSUME IInv, CInv, DInv, RInv, NEW r \in Requests, AddConcurrent(r) \/ LoadConcurrent(r),
         UNCHANGED <<clock, tcs, args, batch>>, disturbed' = (disturbed \/ Disturbs(r))
  PROVE  RInv'
<1>1. /\ pc[r] \in InConcurrency /\ UNCHANGED <<timeCounter, tokenCounter, time, token>>
      /\ \/ Blocked(r) \/ Granted(r, Never)
         \/ \E l : Remember(r, "loadConcurrent", l)
  BY DEF AddConcurrent, LoadConcurrent, caches, values, InConcurrency
<1>2. ~Rations(at[r]) /\ Never \in Int /\ at[r] \in Controllers
  <2>1. Rule(r).metric = "Concurrency"
    BY <1>1 DEF CInv, Placed, Asked
  <2>2. QED BY <1>1, <2>1, LoopFacts DEF Rations, Rule
<1>3. ASSUME NEW l, Remember(r, "loadConcurrent", l) PROVE Timely(r)'
  <2>1. pc'[r] = "loadConcurrent"
    BY <1>2, <1>3, OutcomeLeaves DEF IInv, DInv
  <2>2. QED BY <2>1 DEF Timely, Loop, BucketOnly, Setting
<1>4. pc[r] # "sleeping" /\ pc[r] \in InQPS \cup InConcurrency
  BY <1>1 DEF InConcurrency
<1>5. \/ Blocked(r) \/ Again(r)
      \/ \E when \in Int : Granted(r, when)
      \/ (\E p : Continue(r, p) \/ \E l : Remember(r, p, l)) /\ Timely(r)'
  BY <1>1, <1>2, <1>3
<1>6. \A j \in Controllers \ {at[r]} :
           /\ timeCounter'[j].items = timeCounter[j].items /\ time'[j] = time[j]
           /\ tokenCounter'[j].items = tokenCounter[j].items /\ token'[j] = token[j]
  BY <1>1
<1>7. QED BY <1>2, <1>4, <1>5, <1>6, ElsewhereRations

LEMMA StatRations ==
  ASSUME IInv, CInv, DInv, RInv, NEW r \in Requests,
         UNCHANGED <<clock, tcs, args, batch>>, disturbed' = (disturbed \/ Disturbs(r)),
         \/ Decide(r) \/ Exit(r) \/ OnEntryPassed(r) \/ OnCompleted(r)
         \/ AddPassed(r) \/ AddCompleted(r)
  PROVE  RInv'
<1>1. UNCHANGED <<timeCounter, tokenCounter, time, token, passAt>>
      /\ pc[r] \in InStat \cup {"checked"}
  BY DEF Decide, Exit, OnEntryPassed, OnCompleted, AddPassed, AddCompleted, LookUp, Add,
         caches, values, InStat
<1> DEFINE Left == InStat \cup {"done", "blocked"}
<1>2. /\ local' = local \/ \E l : local' = [local EXCEPT ![r] = l]
      /\ \/ \E p \in Left : Move(r, p) /\ at' = at
         \/ \E k \in {1, at[r] + 1}, looking \in Left, after \in Left : CountOn(r, k, looking, after)
  <2>1. CASE Decide(r) \/ Exit(r)
    BY <2>1 DEF Decide, Exit, InStat
  <2>2. CASE OnEntryPassed(r) \/ OnCompleted(r)
    <3>1. \A v : [local EXCEPT ![r].rest = v] = [local EXCEPT ![r] = [local[r] EXCEPT !.rest = v]]
      OBVIOUS
    <3>2. QED BY <2>2, <3>1 DEF OnEntryPassed, OnCompleted, LookUp, InStat
  <2>3. CASE AddPassed(r) \/ AddCompleted(r)
    BY <2>3 DEF AddPassed, AddCompleted, Add, InStat
  <2>4. QED BY <2>1, <2>2, <2>3
<1>3. Alone(r) /\ pc'[r] \in Left
  <2>1. ASSUME NEW p \in Left, Move(r, p), at' = at PROVE Alone(r) /\ pc'[r] \in Left
    BY <1>2, <2>1 DEF Move, Alone, IInv, Ranges
  <2>2. ASSUME NEW k \in {1, at[r] + 1}, NEW looking \in Left, NEW after \in Left,
               CountOn(r, k, looking, after)
        PROVE  Alone(r) /\ pc'[r] \in Left
    <3>1. k \in Nat \ {0}
      BY DEF IInv, Ranges
    <3>2. pc'[r] \in {looking, after}
      BY <2>2, <3>1, CountOnSkips DEF IInv
    <3>3. Alone(r)
      BY <1>2, <2>2, <3>1, CountOnAlone DEF IInv
    <3>4. QED BY <3>2, <3>3
  <2>3. QED BY <1>2, <2>1, <2>2
<1>4. /\ pc[r] \notin {"firstTokens", "stamp"} /\ pc'[r] \notin BucketOnly \cup {"loadTime"}
      /\ Timely(r)' /\ Ahead(r)'
  BY <1>1, <1>3 DEF InStat, BucketOnly, Timely, Loop, Setting, Ahead, InQPS, InConcurrency
<1>5. QED BY <1>1, <1>3, <1>4, AsideRations

\* What a request has in its hands after a step at the same controller.
LEMMA HandsAfter ==
  ASSUME NEW r \in Requests, UNCHANGED <<tcs, args, batch>>, at' = at,
         NEW k, k = at[r], NEW a, a = Arg(r), NEW p, p = pc'[r], NEW l, l = local'[r],
         p \in BucketOnly \cup {"loadTime"} /\ p # "firstTokens" =>
           timeCounter'[k].items[a] # Nil /\ l.last = timeCounter'[k].items[a],
         p \in {"loadOld", "swapRefill", "loadRest", "swapSpend"} =>
           tokenCounter'[k].items[a] # Nil /\ l.rest = tokenCounter'[k].items[a],
         p = "swapSpend" => l.new = l.old - batch[r]
  PROVE  Carries(r)'
<1>1. at'[r] = k /\ Arg(r)' = a
  BY DEF Arg
<1>2. QED BY <1>1 DEF Carries, Holds

\* And what it has worked out there.
LEMMA WorkedAfter ==
  ASSUME NEW r \in Requests, UNCHANGED <<tcs, args, batch>>, at' = at,
         NEW k, k = at[r], NEW a, a = Arg(r), NEW p, p = pc'[r], NEW l, l = local'[r],
         ~disturbed' /\ p \in HalfWay \ {"stampExpected"} =>
           /\ timeCounter'[k].items[a] # Nil
           /\ p = "firstTokens" =>
                PassedBy(k, a)' = {} /\ tokenCounter'[k].items[a] = Nil /\ TimeOf(k, a)' = l.now
           /\ p \in {"refill", "loadOld"} => l.new = l.now - TimeOf(k, a)'
           /\ p = "swapRefill" =>
                (l.new + batch[r]) * tcs[k].durationInSec
                  <= l.old * tcs[k].durationInSec + TokenCount(k, a) * (l.now - TimeOf(k, a)')
           /\ p = "stamp" =>
                /\ tokenCounter'[k].items[a] # Nil
                /\ Enough(k, a, Spent(k, a) + TokensOf(k, a) + batch[r], l.now)'
  PROVE  WorkedOut(r)'
<1>1. at'[r] = k /\ Arg(r)' = a /\ Rule(r)' = tcs[k] /\ batch'[r] = batch[r]
      /\ TokenCount(k, a)' = TokenCount(k, a)
  BY DEF Arg, Rule, TokenCount
<1> SUFFICES ASSUME ~disturbed', p \in HalfWay \ {"stampExpected"}, Rations(at[r])' PROVE WorkedOut(r)'
  BY DEF WorkedOut
<1>2. k = at[r]' /\ a = Arg(r)' /\ p = pc[r]' /\ l = local[r]'
  BY <1>1
<1>3. p = "stamp" => Enough(k, a, Spent(k, a) + TokensOf(k, a) + batch[r], l.now)'
  OBVIOUS
<1>4. p = "stamp" => Enough(at[r], Arg(r), Spent(at[r], Arg(r)) + TokensOf(at[r], Arg(r)) + batch[r],
                            local[r].now)'
  BY <1>2, <1>3 DEF Enough, Spent, Starts, TokensOf, PassedBy, MaxCount, TokenCount
<1>5. QED BY <1>1, <1>2, <1>4 DEF WorkedOut, Holds, PassedBy, TimeOf, TokenCount

\* The steps that read.
LEMMA ReadClockRations ==
  ASSUME IInv, CInv, DInv, RInv, NEW r \in Requests, ReadClock(r),
         UNCHANGED <<clock, tcs, args, batch>>, disturbed' = (disturbed \/ Disturbs(r))
  PROVE  RInv'
<1>1. /\ pc[r] = "readClock" /\ UNCHANGED <<timeCounter, tokenCounter, time, token>>
      /\ Blocked(r) \/ Remember(r, "addTime", [NoLocals EXCEPT !.now = clock])
      /\ InLoop(r)
  BY DEF ReadClock, caches, values, InLoop
<1>2. pc[r] \in InQPS /\ pc[r] # "sleeping" /\ pc[r] \notin {"firstTokens", "stamp", "stampExpected"}
  BY <1>1 DEF InQPS
<1>3. at[r] \in Controllers
  BY <1>2, LoopFacts
<1>4. Blocked(r) \/ (Remember(r, "addTime", [NoLocals EXCEPT !.now = clock])
                     /\ Carries(r)' /\ WorkedOut(r)' /\ Timely(r)')
  <2>1. ASSUME Remember(r, "addTime", [NoLocals EXCEPT !.now = clock])
        PROVE  Carries(r)' /\ WorkedOut(r)' /\ Timely(r)'
    <3>1. pc'[r] = "addTime" /\ local'[r] = [NoLocals EXCEPT !.now = clock]
      BY <1>3, <2>1, OutcomeLeaves DEF IInv, DInv
    <3>2. local'[r].now = clock /\ clock \in Int
      BY <3>1 DEF NoLocals, Ranges, IInv
    <3>3. pc'[r] \notin BucketOnly \cup {"loadTime"}
      BY <3>1 DEF BucketOnly
    <3>4. QED BY <3>1, <3>2, <3>3, FreeHands DEF Timely, Setting
  <2>2. QED BY <1>1, <2>1
<1>5. \A j \in Controllers : Rations(j) =>
           /\ timeCounter'[j].items = timeCounter[j].items /\ time'[j] = time[j]
           /\ tokenCounter'[j].items = tokenCounter[j].items /\ token'[j] = token[j]
  BY <1>1
<1>6. QED BY <1>2, <1>4, <1>5, QuietLoop

LEMMA LoadTimeRations ==
  ASSUME IInv, CInv, DInv, RInv, NEW r \in Requests, LoadTime(r), Rations(at[r]),
         UNCHANGED <<clock, tcs, args, batch>>, disturbed' = (disturbed \/ Disturbs(r))
  PROVE  RInv'
<1>1. PICK k, a : k = at[r] /\ a = Arg(r)
  OBVIOUS
<1>2. /\ pc[r] = "loadTime" /\ pc[r] \in InQPS /\ pc[r] \in Loop \ {"readClock"} /\ InLoop(r)
      /\ UNCHANGED <<timeCounter, tokenCounter, time, token>> /\ Rule(r).behavior = "Reject"
      /\ Remember(r, "refill", [local[r] EXCEPT !.new = PassTime(r)]) \/ Continue(r, "spend")
  BY DEF LoadTime, caches, values, InQPS, Loop, InLoop, Rations, Rule
<1>3. k \in Controllers /\ a \in Args /\ Rations(k) /\ Ranges /\ local[r] \in Locals
      /\ passAt \in [Controllers -> [Requests -> Int]]
  BY <1>1, <1>2, AtRation DEF IInv, DInv, Ranges
<1>4. timeCounter[k].items[a] # Nil /\ local[r].last = timeCounter[k].items[a]
  BY <1>1, <1>2 DEF RInv, Carries, Holds
<1>5. TimeOf(k, a)' = TimeOf(k, a) /\ PassTime(r) = local[r].now - TimeOf(k, a)
  BY <1>1, <1>2, <1>4 DEF TimeOf, PassTime
<1>6. ASSUME Remember(r, "refill", [local[r] EXCEPT !.new = PassTime(r)])
      PROVE  Carries(r)' /\ WorkedOut(r)' /\ Timely(r)'
  <2>1. PICK l : l = [local[r] EXCEPT !.new = PassTime(r)]
    OBVIOUS
  <2>2. l.last = local[r].last /\ l.now = local[r].now /\ l.new = PassTime(r)
    BY <1>3, <2>1 DEF Locals
  <2>3. pc'[r] = "refill" /\ local'[r] = l /\ at' = at
    BY <1>1, <1>3, <1>6, <2>1, OutcomeLeaves
  <2>4. Carries(r)'
    BY <1>1, <1>2, <1>4, <2>2, <2>3, HandsAfter
  <2>5. WorkedOut(r)'
    BY <1>1, <1>2, <1>4, <1>5, <2>2, <2>3, WorkedAfter
  <2>6. Timely(r)'
    BY <1>2, <2>2, <2>3, TimelyOn DEF Setting
  <2>7. QED BY <2>4, <2>5, <2>6
<1>7. ASSUME Continue(r, "spend") PROVE Carries(r)' /\ WorkedOut(r)' /\ Timely(r)'
  <2>1. pc'[r] = "spend" /\ local' = local /\ at' = at
    BY <1>1, <1>3, <1>7, OutcomeLeaves
  <2>2. Carries(r)'
    BY <1>1, <1>2, <1>4, <2>1, HandsAfter
  <2>3. WorkedOut(r)'
    BY <2>1 DEF WorkedOut, HalfWay
  <2>4. Timely(r)'
    BY <1>2, <2>1, TimelyOn DEF Setting
  <2>5. QED BY <2>2, <2>3, <2>4
<1>8. \A j \in Controllers : Rations(j) =>
           /\ timeCounter'[j].items = timeCounter[j].items /\ time'[j] = time[j]
           /\ tokenCounter'[j].items = tokenCounter[j].items /\ token'[j] = token[j]
  BY <1>2
<1>9. /\ \E p : Continue(r, p) \/ \E l : Remember(r, p, l)
      /\ Carries(r)' /\ WorkedOut(r)' /\ Timely(r)'
  BY <1>2, <1>6, <1>7
<1>10. pc[r] \notin {"firstTokens", "stamp", "sleeping"}
  BY <1>2
<1>11. QED BY <1>2, <1>8, <1>9, <1>10, QuietLoop

\* The tokens for a passed time fit what it has added.
LEMMA RefillFits ==
  ASSUME NEW passed \in Int, NEW count \in Int, NEW dur \in Nat \ {0}, NEW rest \in Int, NEW b \in Int,
         NEW new \in Int, new <= ((passed * count) \div dur) + rest - b
  PROVE  (new + b) * dur <= rest * dur + count * passed
<1>1. PICK toAdd : toAdd = (passed * count) \div dur
  OBVIOUS
<1>2. PICK n \in Int : n = passed * count
  OBVIOUS
<1>3. \A m \in Int, d \in Nat \ {0} : (m \div d) * d <= m /\ m \div d \in Int
  OBVIOUS
<1>4. toAdd \in Int /\ toAdd * dur <= n
  BY <1>1, <1>2, <1>3
<1>5. new + b <= toAdd + rest
  BY <1>1, <1>4
<1>6. \A x, y \in Int, d \in Nat \ {0} : x <= y => x * d <= y * d
  OBVIOUS
<1>7. (new + b) * dur <= (toAdd + rest) * dur
  BY <1>4, <1>5, <1>6
<1>8. (toAdd + rest) * dur = toAdd * dur + rest * dur
  BY <1>4
<1>9. (new + b) * dur \in Int /\ (toAdd + rest) * dur \in Int /\ toAdd * dur \in Int /\ rest * dur \in Int
  BY <1>4
<1>10. count * passed = n
  BY <1>2
<1>11. QED BY <1>4, <1>7, <1>8, <1>9, <1>10

LEMMA LoadOldRations ==
  ASSUME IInv, CInv, DInv, RInv, NEW r \in Requests, LoadOld(r), Rations(at[r]),
         UNCHANGED <<clock, tcs, args, batch>>, disturbed' = (disturbed \/ Disturbs(r))
  PROVE  RInv'
<1>1. PICK k, a : k = at[r] /\ a = Arg(r)
  OBVIOUS
<1> DEFINE rest == token[k][local[r].rest]
           toAdd == (local[r].new * TokenCount(k, a)) \div tcs[k].durationInSec
           newQps == Smaller(toAdd + rest, MaxCount(k, a)) - batch[r]
           l == [local[r] EXCEPT !.old = rest, !.new = newQps]
<1>2. /\ pc[r] = "loadOld" /\ pc[r] \in InQPS /\ pc[r] \in Loop \ {"readClock"} /\ InLoop(r)
      /\ UNCHANGED <<timeCounter, tokenCounter, time, token>>
      /\ Blocked(r) \/ Remember(r, "swapRefill", l)
  BY <1>1 DEF LoadOld, caches, values, InQPS, Loop, BucketOnly, InLoop, Rule
<1>3. k \in Controllers /\ a \in Args /\ Rations(k) /\ Ranges /\ local[r] \in Locals
      /\ passAt \in [Controllers -> [Requests -> Int]] /\ batch[r] \in Nat /\ local[r].new \in Int
  BY <1>1, <1>2, AtRation DEF IInv, DInv, Ranges
<1>4. /\ timeCounter[k].items[a] # Nil /\ local[r].last = timeCounter[k].items[a]
      /\ tokenCounter[k].items[a] # Nil /\ local[r].rest = tokenCounter[k].items[a]
  BY <1>1, <1>2 DEF RInv, Carries, Holds, BucketOnly
<1>5. TimeOf(k, a)' = TimeOf(k, a)
  BY <1>2 DEF TimeOf
<1>6. ASSUME Remember(r, "swapRefill", l) PROVE Carries(r)' /\ WorkedOut(r)' /\ Timely(r)'
  <2>1. PICK v, w : v = rest /\ w = newQps
    OBVIOUS
  <2>2. /\ l.last = local[r].last /\ l.rest = local[r].rest /\ l.now = local[r].now
        /\ l.old = v /\ l.new = w
    BY <1>3, <2>1 DEF Locals
  <2>3. ASSUME ~disturbed'
        PROVE  (w + batch[r]) * tcs[k].durationInSec
                 <= v * tcs[k].durationInSec + TokenCount(k, a) * (local[r].now - TimeOf(k, a))
    <3>1. local[r].new = local[r].now - TimeOf(k, a)
      BY <1>1, <1>2, <2>3 DEF RInv, WorkedOut, HalfWay
    <3>2. v \in Int
      BY <1>1, <1>2, <1>3, <2>1 DEF IInv, InOrder, CounterFor, Ranges, Stores
    <3>3. TokenCount(k, a) \in Int /\ MaxCount(k, a) \in Int /\ tcs[k].durationInSec \in Nat \ {0}
      BY <1>3, RationNumbers DEF Rations
    <3>4. PICK c \in Int, d \in Nat \ {0}, m \in Int, n \in Int :
            c = TokenCount(k, a) /\ d = tcs[k].durationInSec /\ m = MaxCount(k, a) /\ n = local[r].new
      BY <1>3, <3>3
    <3>5. (n * c) \div d \in Int
      <4>1. \A x \in Int, y \in Nat \ {0} : x \div y \in Int
        OBVIOUS
      <4>2. n * c \in Int
        OBVIOUS
      <4>3. QED BY <4>1, <4>2
    <3>6. w = Smaller(((n * c) \div d) + v, m) - batch[r]
      BY <2>1, <3>4
    <3>7. w \in Int /\ w <= ((n * c) \div d) + v - batch[r]
      <4>1. PICK q \in Int : q = (n * c) \div d
        BY <3>5
      <4>2. w = Smaller(q + v, m) - batch[r]
        BY <3>6, <4>1
      <4>3. w \in Int /\ w <= q + v - batch[r]
        BY <1>3, <3>2, <4>2 DEF Smaller
      <4>4. QED BY <4>1, <4>3
    <3>8. (w + batch[r]) * d <= v * d + c * n
      <4>1. PICK b \in Int : b = batch[r]
        BY <1>3
      <4>2. w \in Int /\ w <= ((n * c) \div d) + v - b
        BY <3>7, <4>1
      <4>3. (w + b) * d <= v * d + c * n
        BY <3>2, <3>4, <4>2, RefillFits
      <4>4. QED BY <4>1, <4>3
    <3>9. QED BY <3>1, <3>4, <3>8
  <2> HIDE DEF l, rest, newQps, toAdd
  <2>4. pc'[r] = "swapRefill" /\ local'[r] = l /\ at' = at
    BY <1>1, <1>3, <1>6, OutcomeLeaves
  <2>5. Carries(r)'
    BY <1>1, <1>2, <1>4, <2>2, <2>4, HandsAfter
  <2>6. WorkedOut(r)'
    BY <1>1, <1>2, <1>4, <1>5, <2>2, <2>3, <2>4, WorkedAfter
  <2>7. Timely(r)'
    BY <1>2, <2>2, <2>4, TimelyOn DEF Setting
  <2>8. QED BY <2>5, <2>6, <2>7
<1> HIDE DEF l
<1>7. \A j \in Controllers : Rations(j) =>
           /\ timeCounter'[j].items = timeCounter[j].items /\ time'[j] = time[j]
           /\ tokenCounter'[j].items = tokenCounter[j].items /\ token'[j] = token[j]
  BY <1>2
<1>8. \/ Blocked(r)
      \/ /\ \E p : Continue(r, p) \/ \E m : Remember(r, p, m)
         /\ Carries(r)' /\ WorkedOut(r)' /\ Timely(r)'
  BY <1>2, <1>6
<1>9. pc[r] \notin {"firstTokens", "stamp", "sleeping"}
  BY <1>2
<1>10. QED BY <1>2, <1>7, <1>8, <1>9, QuietLoop

\* A step at the same controller that leaves the bucket as it is.
LEMMA StaysRations ==
  ASSUME IInv, CInv, DInv, RInv, NEW r \in Requests,
         UNCHANGED <<clock, tcs, args, batch>>, disturbed' = (disturbed \/ Disturbs(r)),
         pc[r] \in Loop \ {"readClock"}, pc[r] \notin {"firstTokens", "stamp"},
         \A j \in Controllers : Rations(j) =>
           /\ timeCounter'[j].items = timeCounter[j].items /\ time'[j] = time[j]
           /\ tokenCounter'[j].items = tokenCounter[j].items /\ token'[j] = token[j],
         NEW k, k = at[r], NEW a, a = Arg(r), Rations(k),
         NEW p \in {"loadTime", "loadOld", "loadRest", "swapSpend"}, NEW l, Remember(r, p, l),
         l.now = local[r].now,
         timeCounter[k].items[a] # Nil, l.last = timeCounter[k].items[a],
         p # "loadTime" => tokenCounter[k].items[a] # Nil /\ l.rest = tokenCounter[k].items[a],
         p = "swapSpend" => l.new = l.old - batch[r],
         p = "loadOld" /\ ~disturbed' => l.new = l.now - TimeOf(k, a)
  PROVE  RInv'
<1>1. pc[r] \in InQPS /\ pc[r] # "sleeping"
  BY DEF Loop, BucketOnly, InQPS
<1>2. k \in Controllers /\ Ranges /\ passAt \in [Controllers -> [Requests -> Int]]
  BY <1>1, LoopFacts DEF IInv, DInv
<1>3. pc'[r] = p /\ local'[r] = l /\ at' = at
  BY <1>2, OutcomeLeaves
<1>4. timeCounter'[k].items = timeCounter[k].items /\ tokenCounter'[k].items = tokenCounter[k].items
      /\ time'[k] = time[k]
  BY <1>2
<1>5. Carries(r)'
  BY <1>3, <1>4, HandsAfter
<1>6. TimeOf(k, a)' = TimeOf(k, a)
  BY <1>4 DEF TimeOf
<1>7. WorkedOut(r)'
  BY <1>3, <1>4, <1>6, WorkedAfter
<1>8. Timely(r)'
  BY <1>3, TimelyOn DEF Setting
<1>9. QED BY <1>1, <1>5, <1>7, <1>8, QuietLoop

\* The loop starts again.
LEMMA AgainRations ==
  ASSUME IInv, CInv, DInv, RInv, NEW r \in Requests,
         UNCHANGED <<clock, tcs, args, batch>>, disturbed' = (disturbed \/ Disturbs(r)),
         pc[r] \in Loop, pc[r] \notin {"firstTokens", "stamp"},
         \A j \in Controllers : Rations(j) =>
           /\ timeCounter'[j].items = timeCounter[j].items /\ time'[j] = time[j]
           /\ tokenCounter'[j].items = tokenCounter[j].items /\ token'[j] = token[j],
         Blocked(r) \/ Again(r)
  PROVE  RInv'
<1>1. pc[r] \in InQPS /\ pc[r] # "sleeping"
  BY DEF Loop, BucketOnly, InQPS
<1>2. QED BY <1>1, QuietLoop

\* The hands of a request within the window of a bucket.
LEMMA CarriesOn ==
  ASSUME IInv, CInv, RInv, NEW r \in Requests, NEW k, k = at[r], NEW a, a = Arg(r), Rations(k),
         pc[r] \in (BucketOnly \cup {"loadTime"}) \ {"firstTokens"}
  PROVE  /\ k \in Controllers /\ a \in Args /\ args[r][k] = a /\ Rule(r) = tcs[k]
         /\ pc[r] \in InQPS /\ pc[r] \in Loop \ {"readClock"} /\ pc[r] # "sleeping"
         /\ local[r] \in Locals /\ local[r].now \in Int /\ local[r].now <= clock
         /\ batch[r] \in Nat \ {0}
         /\ timeCounter[k].items[a] # Nil /\ local[r].last = timeCounter[k].items[a]
         /\ pc[r] \in {"loadOld", "swapRefill", "loadRest", "swapSpend"} =>
              tokenCounter[k].items[a] # Nil /\ local[r].rest = tokenCounter[k].items[a]
<1>1. pc[r] \in InQPS /\ pc[r] \in Loop \ {"readClock"} /\ pc[r] # "sleeping"
  BY DEF Loop, BucketOnly, InQPS
<1>2. k \in Controllers /\ a \in Args /\ args[r][k] = a /\ Rule(r) = tcs[k]
      /\ local[r].now \in Int /\ batch[r] \in Nat \ {0}
  BY <1>1, AtRation
<1>3. local[r] \in Locals
  BY DEF IInv, Ranges
<1>4. local[r].now <= clock
  BY <1>1 DEF RInv, Timely
<1>5. /\ timeCounter[k].items[a] # Nil /\ local[r].last = timeCounter[k].items[a]
      /\ pc[r] \in {"loadOld", "swapRefill", "loadRest", "swapSpend"} =>
           tokenCounter[k].items[a] # Nil /\ local[r].rest = tokenCounter[k].items[a]
  BY DEF RInv, Carries, Holds
<1>6. QED BY <1>1, <1>2, <1>3, <1>4, <1>5

LEMMA SpendRations ==
  ASSUME IInv, CInv, DInv, TInv, RInv, NEW r \in Requests, Spend(r), Rations(at[r]),
         UNCHANGED <<clock, tcs, args, batch>>, disturbed' = (disturbed \/ Disturbs(r))
  PROVE  RInv'
<1>1. PICK k, a : k = at[r] /\ a = Arg(r)
  OBVIOUS
<1>2. pc[r] = "spend" /\ UNCHANGED <<timeCounter, time, token>>
      /\ tokenCounter' = [tokenCounter EXCEPT ![k] = Get(@, a)] /\ InLoop(r)
  BY <1>1 DEF Spend, values, InLoop
<1>3. /\ k \in Controllers /\ a \in Args /\ local[r] \in Locals
      /\ timeCounter[k].items[a] # Nil /\ local[r].last = timeCounter[k].items[a]
      /\ pc[r] \in Loop \ {"readClock"} /\ pc[r] \notin {"firstTokens", "stamp"}
  BY <1>1, <1>2, CarriesOn DEF BucketOnly
<1>4. tokenCounter'[k].items = tokenCounter[k].items
  <2>1. PICK c : c = tokenCounter[k]
    OBVIOUS
  <2>2. IsLru(c)
    BY <1>3, <2>1 DEF TInv, TokensRoom
  <2>3. PICK d : d = Get(c, a)
    OBVIOUS
  <2>4. d.items = c.items
    BY <1>3, <2>2, <2>3, GetKeeps
  <2>5. tokenCounter' = [tokenCounter EXCEPT ![k] = d]
    BY <1>2, <1>3, <2>1, <2>3
  <2>6. tokenCounter = [i \in Controllers |-> tokenCounter[i]]
    BY DEF IInv, Ranges, Stores, AreCaches
  <2>7. tokenCounter'[k] = d
    BY <1>3, <2>5, <2>6
  <2>8. QED BY <2>1, <2>4, <2>7
<1>5. \A j \in Controllers :
        /\ timeCounter'[j].items = timeCounter[j].items /\ time'[j] = time[j]
        /\ tokenCounter'[j].items = tokenCounter[j].items /\ token'[j] = token[j]
  <2>1. \A j \in Controllers \ {k} : tokenCounter'[j] = tokenCounter[j]
    BY <1>1, <1>2, WritesHere
  <2>2. QED BY <1>2, <1>4, <2>1
<1>6. PICK q : q = tokenCounter[k].items[a]
  OBVIOUS
<1>7. CASE q = Nil
  <2>1. Again(r)
    BY <1>1, <1>6, <1>7 DEF Spend
  <2>2. QED BY <1>3, <1>5, <2>1, AgainRations
<1>8. CASE q # Nil
  <2>1. PICK l : l = [local[r] EXCEPT !.rest = q]
    OBVIOUS
  <2>2. Remember(r, "loadRest", l)
    BY <1>1, <1>6, <1>8, <2>1 DEF Spend
  <2>3. l.now = local[r].now /\ l.last = local[r].last /\ l.rest = q
    BY <1>3, <2>1 DEF Locals
  <2>4. PICK p \in {"loadTime", "loadOld", "loadRest", "swapSpend"} : p = "loadRest"
    OBVIOUS
  <2>5. Remember(r, p, l) /\ p # "swapSpend" /\ p # "loadOld"
    BY <2>2, <2>4
  <2>6. QED BY <1>1, <1>3, <1>5, <1>6, <1>8, <2>3, <2>5, StaysRations
<1>9. QED BY <1>7, <1>8

LEMMA LoadRestRations ==
  ASSUME IInv, CInv, DInv, RInv, NEW r \in Requests, LoadRest(r), Rations(at[r]),
         UNCHANGED <<clock, tcs, args, batch>>, disturbed' = (disturbed \/ Disturbs(r))
  PROVE  RInv'
<1>1. PICK k, a : k = at[r] /\ a = Arg(r)
  OBVIOUS
<1>2. PICK v : v = token[at[r]][local[r].rest]
  OBVIOUS
<1>3. PICK l : l = [local[r] EXCEPT !.old = v, !.new = v - batch[r]]
  OBVIOUS
<1>4. /\ pc[r] = "loadRest" /\ UNCHANGED <<timeCounter, tokenCounter, time, token>>
      /\ Blocked(r) \/ Remember(r, "swapSpend", l)
  BY <1>2, <1>3 DEF LoadRest, caches, values
<1>5. /\ local[r] \in Locals
      /\ timeCounter[k].items[a] # Nil /\ local[r].last = timeCounter[k].items[a]
      /\ tokenCounter[k].items[a] # Nil /\ local[r].rest = tokenCounter[k].items[a]
      /\ pc[r] \in Loop \ {"readClock"} /\ pc[r] \notin {"firstTokens", "stamp"}
  BY <1>1, <1>4, CarriesOn DEF BucketOnly
<1>6. \A j \in Controllers :
        /\ timeCounter'[j].items = timeCounter[j].items /\ time'[j] = time[j]
        /\ tokenCounter'[j].items = tokenCounter[j].items /\ token'[j] = token[j]
  BY <1>4
<1>7. CASE Blocked(r)
  BY <1>5, <1>6, <1>7, AgainRations
<1>8. CASE Remember(r, "swapSpend", l)
  <2>1. /\ l.now = local[r].now /\ l.last = local[r].last /\ l.rest = local[r].rest
        /\ l.old = v /\ l.new = v - batch[r]
    BY <1>3, <1>5 DEF Locals
  <2>2. PICK p \in {"loadTime", "loadOld", "loadRest", "swapSpend"} : p = "swapSpend"
    OBVIOUS
  <2>3. QED BY <1>1, <1>5, <1>6, <1>8, <2>1, <2>2, StaysRations
<1>9. QED BY <1>4, <1>7, <1>8

\* A step that writes to the bucket of its argument.
LEMMA WritesRations ==
  ASSUME IInv, CInv, DInv, RInv, NEW r \in Requests, Alone(r), pc[r] \in InQPS,
         UNCHANGED <<clock, tcs, args, batch>>, disturbed' = (disturbed \/ Disturbs(r)),
         NEW k \in Controllers, k = at[r], NEW a \in Args, a = Arg(r), Rations(k),
         passAt' \in [Controllers -> [Requests -> Int]],
         \A j \in Controllers, q \in Requests : j # k \/ q # r => passAt'[j][q] = passAt[j][q],
         \A j \in Controllers \ {k} :
           timeCounter'[j].items = timeCounter[j].items /\ tokenCounter'[j].items = tokenCounter[j].items,
         \A x \in Args : x # a \/ Holds(timeCounter[k], x) =>
           timeCounter'[k].items[x] = timeCounter[k].items[x],
         \A x \in Args : x # a \/ Holds(tokenCounter[k], x) =>
           tokenCounter'[k].items[x] = tokenCounter[k].items[x],
         \A j \in Controllers, p \in Requests : j # k \/ args[p][k] # a =>
           time'[j][p] = time[j][p] /\ token'[j][p] = token[j][p],
         ~disturbed' /\ ~Filling(k, a)' => Balance(k, a)',
         Carries(r)', WorkedOut(r)', Timely(r)', Ahead(r)'
  PROVE  RInv'
<1>1. args[r][k] = a
  BY DEF Arg
<1>2. ASSUME NEW j \in Controllers, NEW x \in Args, j # k \/ x # a PROVE Same(j, x)
  <2>1. /\ timeCounter'[j].items[x] = timeCounter[j].items[x]
        /\ tokenCounter'[j].items[x] = tokenCounter[j].items[x]
    <3>1. CASE j = k
      BY <1>2, <3>1
    <3>2. CASE j # k
      BY <3>2
    <3>3. QED BY <3>1, <3>2
  <2>2. QED BY <1>1, <1>2, <2>1, ElseSame
<1>3. \A j \in Controllers, q \in Requests \ {r} : passAt'[j][q] = passAt[j][q]
  OBVIOUS
<1>4. /\ Holds(timeCounter[k], a) => timeCounter'[k].items[a] = timeCounter[k].items[a]
      /\ Holds(tokenCounter[k], a) => tokenCounter'[k].items[a] = tokenCounter[k].items[a]
  OBVIOUS
<1>5. \A j \in Controllers, x \in Args : Rations(j) /\ (j # k \/ x # a) => Same(j, x)
  BY <1>2
<1>6. QED BY <1>3, <1>4, <1>5, StepRations

\* A cache of tokens takes an argument.
LEMMA TokensAdded ==
  ASSUME IInv, TInv, NEW r \in Requests, AddTokens(r), NEW k \in Controllers, k = at[r],
         NEW a \in Args, a = Arg(r)
  PROVE  /\ \A j \in Controllers \ {k} : tokenCounter'[j] = tokenCounter[j] /\ token'[j] = token[j]
         /\ Holds(tokenCounter[k], a) => tokenCounter'[k].items = tokenCounter[k].items /\ token' = token
         /\ NoEviction(k) /\ ~Holds(tokenCounter[k], a) =>
              /\ tokenCounter'[k].items = [tokenCounter[k].items EXCEPT ![a] = r]
              /\ token'[k][r] = MaxCount(k, a) - batch[r]
              /\ \A p \in Requests \ {r} : token'[k][p] = token[k][p]
<1>1. args[r][k] = a /\ Rule(r) = tcs[k]
  BY DEF Arg, Rule
<1>2. PICK size \in Nat \ {0} : size = tcs[k].capacity
  BY HotSpotAssumption DEF IInv, Ranges, Controllers, IsRule
<1>3. PICK c : c = tokenCounter[k]
  OBVIOUS
<1>4. IsLru(c) /\ Len(c.evictList) <= size
  BY <1>2, <1>3 DEF TInv, TokensRoom
<1>5. PICK d : d = AddIfAbsent(c, size, a, r)
  OBVIOUS
<1>6. tokenCounter' = [tokenCounter EXCEPT ![k] = d]
  BY <1>1, <1>2, <1>3, <1>5 DEF AddTokens
<1>7. tokenCounter = [i \in Controllers |-> tokenCounter[i]]
      /\ token \in [Controllers -> [Requests -> Int]]
  BY DEF IInv, Ranges, Stores, AreCaches
<1>8. tokenCounter'[k] = d /\ \A j \in Controllers \ {k} : tokenCounter'[j] = tokenCounter[j]
  BY <1>6, <1>7
<1>9. /\ Holds(c, a) => d.items = c.items
      /\ ~Holds(c, a) /\ Len(c.evictList) < size => d.items = [c.items EXCEPT ![a] = r]
  BY <1>4, <1>5, AddIfAbsentKeeps
<1>10. token' = IF Holds(c, a) THEN token ELSE [token EXCEPT ![k][r] = MaxCount(k, a) - batch[r]]
  BY <1>3 DEF AddTokens
<1>11. \A j \in Controllers \ {k} : token'[j] = token[j]
  BY <1>7, <1>10
<1>12. ~Holds(c, a) => token'[k][r] = MaxCount(k, a) - batch[r]
                       /\ \A p \in Requests \ {r} : token'[k][p] = token[k][p]
  BY <1>7, <1>10
<1>13. NoEviction(k) /\ ~Holds(c, a) => Len(c.evictList) < size
  <2>1. \A x \in Args : Holds(c, x) => \E p \in Requests : args[p][k] = x
    BY <1>3 DEF IInv, Owned, CounterFor
  <2>2. \E p \in Requests : args[p][k] = a
    BY <1>1
  <2>3. QED BY <1>2, <1>4, <2>1, <2>2, CacheHasRoom
<1>14. QED BY <1>3, <1>8, <1>9, <1>10, <1>11, <1>12, <1>13

LEMMA AddTimeRations ==
  ASSUME IInv, CInv, DInv, RInv, NEW r \in Requests, AddTime(r), Rations(at[r]),
         UNCHANGED <<clock, tcs, args, batch>>, disturbed' = (disturbed \/ Disturbs(r))
  PROVE  RInv'
<1>1. PICK k, a : k = at[r] /\ a = Arg(r)
  OBVIOUS
<1>2. PICK q : q = timeCounter[k].items[a]
  OBVIOUS
<1>3. /\ pc[r] = "addTime" /\ UNCHANGED <<tokenCounter, token>> /\ pc[r] \in InQPS /\ InLoop(r)
      /\ \/ /\ q = Nil /\ time' = [time EXCEPT ![k][r] = local[r].now]
            /\ Continue(r, "firstTokens")
         \/ /\ q # Nil /\ time' = time
            /\ Remember(r, "loadTime", [local[r] EXCEPT !.last = q])
  BY <1>1, <1>2 DEF AddTime, InQPS, InLoop, Rations, Rule
<1>4. /\ k \in Controllers /\ a \in Args /\ args[r][k] = a
      /\ Ranges /\ local[r] \in Locals /\ local[r].now \in Int
      /\ passAt \in [Controllers -> [Requests -> Int]]
      /\ pc[r] \in Loop \ {"readClock"} /\ pc[r] \notin {"firstTokens", "stamp", "sleeping"}
  BY <1>1, <1>3, AtRation DEF IInv, DInv, Ranges, Loop
<1>5. Alone(r) /\ pc'[r] \in {"firstTokens", "loadTime"} /\ passAt' = passAt /\ at' = at
  BY <1>1, <1>3, <1>4, OutcomeLeaves
<1>6. /\ \A j \in Controllers \ {k} : timeCounter'[j] = timeCounter[j]
      /\ Holds(timeCounter[k], a) => timeCounter'[k].items = timeCounter[k].items
      /\ ~Holds(timeCounter[k], a) =>
           timeCounter'[k].items = [timeCounter[k].items EXCEPT ![a] = r]
  BY <1>1, <1>5, AddTimeCaches DEF Rations
<1>7. CASE q # Nil
  <2>1. \A j \in Controllers :
          /\ timeCounter'[j].items = timeCounter[j].items /\ time'[j] = time[j]
          /\ tokenCounter'[j].items = tokenCounter[j].items /\ token'[j] = token[j]
    BY <1>2, <1>3, <1>6, <1>7 DEF Holds
  <2>2. PICK l : l = [local[r] EXCEPT !.last = q]
    OBVIOUS
  <2>3. l.now = local[r].now /\ l.last = q
    BY <1>4, <2>2 DEF Locals
  <2>4. PICK p \in {"loadTime", "loadOld", "loadRest", "swapSpend"} : p = "loadTime"
    OBVIOUS
  <2>5. Remember(r, p, l) /\ p # "swapSpend" /\ p # "loadOld"
    BY <1>3, <1>7, <2>2, <2>4
  <2>6. QED BY <1>1, <1>2, <1>4, <1>7, <2>1, <2>3, <2>4, <2>5, StaysRations
<1>8. CASE q = Nil
  <2>1. /\ time' = [time EXCEPT ![k][r] = local[r].now] /\ ~Holds(timeCounter[k], a)
        /\ pc'[r] = "firstTokens" /\ local' = local /\ Continue(r, "firstTokens")
    BY <1>1, <1>2, <1>3, <1>4, <1>8, OutcomeLeaves DEF Holds
  <2>2. time'[k][r] = local[r].now
        /\ \A j \in Controllers, p \in Requests : j # k \/ p # r => time'[j][p] = time[j][p]
    <3>1. time \in [Controllers -> [Requests -> Int]]
      BY <1>4 DEF Ranges, Stores
    <3>2. QED BY <1>4, <2>1, <3>1
  <2>3. timeCounter'[k].items[a] = r
        /\ \A x \in Args \ {a} : timeCounter'[k].items[x] = timeCounter[k].items[x]
    <3>1. timeCounter[k].items \in [Args -> Requests \cup {Nil}]
      BY <1>4 DEF IInv, Ranges, Stores, AreCaches, IsCache
    <3>2. QED BY <1>4, <1>6, <2>1, <3>1
  <2>4. TimeOf(k, a)' = local[r].now
    BY <2>2, <2>3 DEF TimeOf
  <2>5. r # Nil
    BY DEF Requests, Nil
  <2>6. ~disturbed' => PassedBy(k, a)' = {} /\ tokenCounter'[k].items[a] = Nil
    <3>1. ASSUME ~disturbed' PROVE Balance(k, a)
      BY <1>1, <1>4, <3>1, FindsBalance
    <3>2. PassedBy(k, a)' = PassedBy(k, a)
      BY <1>5 DEF PassedBy
    <3>3. QED BY <1>3, <2>1, <3>1, <3>2 DEF Balance, Holds
  <2>7. Carries(r)'
    BY <1>1, <1>5, <2>1, HandsAfter
  <2>8. WorkedOut(r)'
    BY <1>1, <1>5, <2>1, <2>3, <2>4, <2>5, <2>6, WorkedAfter
  <2>9. Timely(r)'
    BY <1>4, <1>5, <2>1, TimelyOn DEF Setting
  <2>10. Ahead(r)'
    BY <1>1, <1>3, <1>4, <2>1, OutcomeAhead
  <2>11. Filling(k, a)'
    BY <1>1, <1>5, <2>1 DEF Filling, Arg
  <2>12. \A j \in Controllers, p \in Requests : j # k \/ args[p][k] # a =>
           time'[j][p] = time[j][p] /\ token'[j][p] = token[j][p]
    BY <1>3, <1>4, <2>2
  <2>13. \A x \in Args : x # a \/ Holds(timeCounter[k], x) =>
           timeCounter'[k].items[x] = timeCounter[k].items[x]
    BY <2>1, <2>3
  <2>14. QED BY <1>1, <1>3, <1>4, <1>5, <1>6, <2>7, <2>8, <2>9, <2>10, <2>11, <2>12, <2>13,
                WritesRations
<1>9. QED BY <1>7, <1>8

\* A request passes for the first time.
LEMMA GrantCounts ==
  ASSUME IInv, DInv, args' = args, batch' = batch, NEW r \in Requests, NEW k \in Controllers,
         NEW a, args[r][k] = a, passAt[k][r] = Never, NEW when \in Nat, passAt'[k][r] = when,
         \A q \in Requests \ {r} : passAt'[k][q] = passAt[k][q]
  PROVE  /\ PassedBy(k, a)' = PassedBy(k, a) \cup {r}
         /\ Starts(k, a)' = Starts(k, a) \cup {when}
         /\ Spent(k, a)' = Spent(k, a) + batch[r]
<1>1. when # Never
  BY DEF Never
<1>2. PassedBy(k, a)' = PassedBy(k, a) \cup {r} /\ r \notin PassedBy(k, a)
  BY <1>1 DEF PassedBy
<1>3. Starts(k, a)' = Starts(k, a) \cup {when}
  <2>1. PassedBy(k, a) \subseteq Requests \ {r}
    BY <1>2 DEF PassedBy
  <2>2. QED BY <1>2, <2>1 DEF Starts
<1>4. Spent(k, a)' = Spent(k, a) + batch[r]
  <2>1. Spent(k, a) = BSum(batch, PassedBy(k, a))
        /\ Spent(k, a)' = BSum(batch', PassedBy(k, a)')
    BY SpentIs
  <2>2. PICK S : S = PassedBy(k, a)
    OBVIOUS
  <2>3. batch \in [Requests -> Nat] /\ r \notin S
    BY <1>2, <2>2 DEF IInv, Ranges
  <2>4. BSum(batch, S \cup {r}) = BSum(batch, S) + batch[r]
    BY <2>3, SumAdds
  <2>5. QED BY <1>2, <2>1, <2>2, <2>4
<1>5. QED BY <1>2, <1>3, <1>4

LEMMA RefillRations ==
  ASSUME IInv, CInv, DInv, TInv, RInv, NEW r \in Requests, Refill(r), Rations(at[r]),
         UNCHANGED <<clock, tcs, args, batch>>, disturbed' = (disturbed \/ Disturbs(r))
  PROVE  RInv'
<1>1. PICK k, a : k = at[r] /\ a = Arg(r)
  OBVIOUS
<1>2. PICK q : q = tokenCounter[k].items[a]
  OBVIOUS
<1>3. /\ pc[r] = "refill" /\ AddTokens(r) /\ UNCHANGED <<timeCounter, time>>
      /\ \/ q = Nil /\ Continue(r, "stamp")
         \/ q # Nil /\ Remember(r, "loadOld", [local[r] EXCEPT !.rest = q])
  BY <1>1, <1>2 DEF Refill, AddTokens
<1>4. /\ k \in Controllers /\ a \in Args /\ args[r][k] = a /\ local[r] \in Locals
      /\ pc[r] \in InQPS /\ pc[r] \in Loop \ {"readClock"}
      /\ pc[r] \notin {"firstTokens", "stamp", "sleeping"}
      /\ timeCounter[k].items[a] # Nil /\ local[r].last = timeCounter[k].items[a]
      /\ Ranges /\ passAt \in [Controllers -> [Requests -> Int]]
  BY <1>1, <1>3, CarriesOn DEF BucketOnly, IInv, DInv
<1>5. /\ \A j \in Controllers \ {k} : tokenCounter'[j] = tokenCounter[j] /\ token'[j] = token[j]
      /\ Holds(tokenCounter[k], a) => tokenCounter'[k].items = tokenCounter[k].items /\ token' = token
      /\ ~Holds(tokenCounter[k], a) =>
           /\ tokenCounter'[k].items = [tokenCounter[k].items EXCEPT ![a] = r]
           /\ \A p \in Requests \ {r} : token'[k][p] = token[k][p]
  BY <1>1, <1>3, <1>4, TokensAdded DEF Rations
<1>6. CASE q # Nil
  <2>1. \A j \in Controllers :
          /\ timeCounter'[j].items = timeCounter[j].items /\ time'[j] = time[j]
          /\ tokenCounter'[j].items = tokenCounter[j].items /\ token'[j] = token[j]
    BY <1>2, <1>3, <1>5, <1>6 DEF Holds
  <2>2. PICK l : l = [local[r] EXCEPT !.rest = q]
    OBVIOUS
  <2>3. l.now = local[r].now /\ l.last = local[r].last /\ l.rest = q /\ l.new = local[r].new
    BY <1>4, <2>2 DEF Locals
  <2>4. ~disturbed' => local[r].new = local[r].now - TimeOf(k, a)
    BY <1>1, <1>3 DEF RInv, WorkedOut, HalfWay
  <2>5. PICK p \in {"loadTime", "loadOld", "loadRest", "swapSpend"} : p = "loadOld"
    OBVIOUS
  <2>6. Remember(r, p, l) /\ p # "swapSpend"
    BY <1>3, <1>6, <2>2, <2>5
  <2>7. QED BY <1>1, <1>2, <1>4, <1>6, <2>1, <2>3, <2>4, <2>6, StaysRations
<1>7. CASE q = Nil
  <2>1. /\ ~Holds(tokenCounter[k], a) /\ Continue(r, "stamp")
        /\ Alone(r) /\ pc'[r] = "stamp" /\ local' = local /\ at' = at /\ passAt' = passAt
    BY <1>1, <1>2, <1>3, <1>4, <1>7, OutcomeLeaves DEF Holds
  <2>2. \A x \in Args : x # a \/ Holds(tokenCounter[k], x) =>
          tokenCounter'[k].items[x] = tokenCounter[k].items[x]
    <3>1. tokenCounter[k].items \in [Args -> Requests \cup {Nil}]
      BY <1>4 DEF Ranges, Stores, AreCaches, IsCache
    <3>2. QED BY <1>5, <2>1, <3>1
  <2>3. disturbed'
    <3>1. ASSUME ~disturbed' PROVE Balance(k, a)
      BY <1>1, <1>4, <3>1, FindsBalance
    <3>2. QED BY <1>4, <2>1, <3>1 DEF Balance, Holds
  <2>4. Carries(r)'
    BY <1>1, <1>3, <1>4, <2>1, HandsAfter
  <2>5. WorkedOut(r)'
    BY <2>3 DEF WorkedOut
  <2>6. Timely(r)'
    BY <1>4, <2>1, TimelyOn DEF Setting
  <2>7. Ahead(r)'
    BY <1>1, <1>4, <2>1, OutcomeAhead
  <2>8. \A j \in Controllers, p \in Requests : j # k \/ args[p][k] # a =>
           time'[j][p] = time[j][p] /\ token'[j][p] = token[j][p]
    BY <1>3, <1>4, <1>5, <2>1
  <2>9. \A j \in Controllers \ {k} :
          timeCounter'[j].items = timeCounter[j].items /\ tokenCounter'[j].items = tokenCounter[j].items
    BY <1>3, <1>5
  <2>10. QED BY <1>1, <1>3, <1>4, <2>1, <2>2, <2>3, <2>4, <2>5, <2>6, <2>7, <2>8, <2>9, WritesRations
<1>8. QED BY <1>6, <1>7

LEMMA FirstTokensRations ==
  ASSUME IInv, CInv, DInv, TInv, RInv, NEW r \in Requests, FirstTokens(r), Rations(at[r]),
         UNCHANGED <<clock, tcs, args, batch>>, disturbed' = (disturbed \/ Disturbs(r))
  PROVE  RInv'
<1>1. PICK k, a, now : k = at[r] /\ a = Arg(r) /\ now = local[r].now
  OBVIOUS
<1>2. /\ pc[r] = "firstTokens" /\ AddTokens(r) /\ UNCHANGED <<timeCounter, time>>
      /\ Granted(r, now) /\ pc[r] \in InQPS /\ pc[r] \in Loop \ {"readClock"}
  BY <1>1 DEF FirstTokens, AddTokens, InQPS, Loop, BucketOnly
<1>3. /\ k \in Controllers /\ a \in Args /\ args[r][k] = a /\ now \in Int
      /\ Ranges /\ passAt \in [Controllers -> [Requests -> Int]]
      /\ TokenCount(k, a) > 0 /\ batch[r] \in Nat
  BY <1>1, <1>2, AtRation DEF IInv, DInv
<1>4. now \in Nat /\ now <= clock
  BY <1>1, <1>2 DEF TInv, Sane, RInv, Timely
<1>5. /\ \A j \in Controllers \ {k} : tokenCounter'[j] = tokenCounter[j] /\ token'[j] = token[j]
      /\ Holds(tokenCounter[k], a) => tokenCounter'[k].items = tokenCounter[k].items /\ token' = token
      /\ ~Holds(tokenCounter[k], a) =>
           /\ tokenCounter'[k].items = [tokenCounter[k].items EXCEPT ![a] = r]
           /\ token'[k][r] = MaxCount(k, a) - batch[r]
           /\ \A p \in Requests \ {r} : token'[k][p] = token[k][p]
  BY <1>1, <1>2, <1>3, TokensAdded DEF Rations
<1>6. /\ Alone(r) /\ passAt' \in [Controllers -> [Requests -> Int]]
      /\ \A j \in Controllers, q \in Requests :
           passAt'[j][q] = IF j = k /\ q = r THEN now ELSE passAt[j][q]
  BY <1>1, <1>2, <1>3, OutcomeLeaves
<1>7. Carries(r)' /\ WorkedOut(r)' /\ Timely(r)'
  BY <1>1, <1>2, <1>3, FreeEnds
<1>8. Ahead(r)'
  BY <1>1, <1>2, <1>3, OutcomeAhead
<1>9. tokenCounter[k].items \in [Args -> Requests \cup {Nil}]
  BY <1>3 DEF Ranges, Stores, AreCaches, IsCache
<1>10. \A x \in Args : x # a \/ Holds(tokenCounter[k], x) =>
          tokenCounter'[k].items[x] = tokenCounter[k].items[x]
  BY <1>5, <1>9
<1>11. \A j \in Controllers, p \in Requests : j # k \/ args[p][k] # a =>
         time'[j][p] = time[j][p] /\ token'[j][p] = token[j][p]
  <2>1. CASE Holds(tokenCounter[k], a)
    BY <1>2, <1>5, <2>1
  <2>2. CASE ~Holds(tokenCounter[k], a)
    BY <1>2, <1>3, <1>5, <2>2
  <2>3. QED BY <2>1, <2>2
<1>12. ASSUME ~disturbed' PROVE Balance(k, a)'
  <2>1. /\ Holds(timeCounter[k], a) /\ PassedBy(k, a) = {} /\ ~Holds(tokenCounter[k], a)
        /\ TimeOf(k, a) = now
    BY <1>1, <1>2, <1>12 DEF RInv, WorkedOut, HalfWay
  <2>2. tokenCounter'[k].items[a] = r /\ token'[k][r] = MaxCount(k, a) - batch[r] /\ r # Nil
    BY <1>3, <1>5, <1>9, <2>1 DEF Requests, Nil
  <2>3. TokensOf(k, a)' = MaxCount(k, a) - batch[r] /\ TimeOf(k, a)' = now
    BY <1>2, <2>1, <2>2 DEF TokensOf, TimeOf
  <2>4. passAt[k][r] = Never
    BY <1>3, <2>1 DEF PassedBy
  <2>5. /\ PassedBy(k, a)' = PassedBy(k, a) \cup {r} /\ Starts(k, a)' = Starts(k, a) \cup {now}
        /\ Spent(k, a)' = Spent(k, a) + batch[r]
    <3>1. passAt'[k][r] = now /\ \A q \in Requests \ {r} : passAt'[k][q] = passAt[k][q]
      BY <1>3, <1>6
    <3>2. args' = args /\ batch' = batch
      OBVIOUS
    <3>3. now \in Nat /\ k \in Controllers /\ args[r][k] = a
      BY <1>3, <1>4
    <3>4. QED BY <2>4, <3>1, <3>2, <3>3, GrantCounts
  <2>6. Spent(k, a) = 0
    <3>1. Spent(k, a) = BSum(batch, {})
      BY <2>1, SpentIs
    <3>2. batch \in [Requests -> Nat]
      BY <1>3 DEF Ranges
    <3>3. QED BY <3>1, <3>2, SumNone
  <2>7. PICK m \in Int, c \in Int, d \in Int :
          m = MaxCount(k, a) /\ c = TokenCount(k, a) /\ d = tcs[k].durationInSec
    BY <1>1, <1>3, RationNumbers DEF Rations
  <2>8. MaxCount(k, a)' = m /\ TokenCount(k, a)' = c /\ tcs'[k].durationInSec = d
    BY <2>7 DEF MaxCount, TokenCount
  <2>9. Spent(k, a)' + TokensOf(k, a)' = m
    BY <1>3, <2>3, <2>5, <2>6, <2>7
  <2>10. m * d <= m * d + c * (now - now)
    <3>1. now - now = 0 /\ c * 0 = 0 /\ m * d \in Int
      BY <1>3
    <3>2. QED BY <3>1
  <2>11. Enough(k, a, Spent(k, a) + TokensOf(k, a), TimeOf(k, a))'
    BY <2>3, <2>5, <2>8, <2>9, <2>10 DEF Enough
  <2>12. Holds(timeCounter[k], a)' /\ Holds(tokenCounter[k], a)' /\ PassedBy(k, a)' # {}
    BY <1>2, <2>1, <2>2, <2>5 DEF Holds
  <2>13. TokenCount(k, a)' > 0 /\ TimeOf(k, a)' <= clock'
    BY <1>3, <1>4, <2>3, <2>7, <2>8
  <2>14. QED BY <2>11, <2>12, <2>13 DEF Balance
<1>13. \A j \in Controllers \ {k} :
         timeCounter'[j].items = timeCounter[j].items /\ tokenCounter'[j].items = tokenCounter[j].items
  BY <1>2, <1>5
<1>14. \A j \in Controllers, q \in Requests : j # k \/ q # r => passAt'[j][q] = passAt[j][q]
  BY <1>6
<1>15. QED BY <1>1, <1>2, <1>3, <1>6, <1>7, <1>8, <1>10, <1>11, <1>12, <1>13, <1>14, WritesRations

\* The time that has passed adds what the tokens taken then need.
LEMMA RefillAdds ==
  ASSUME NEW spent \in Int, NEW old \in Int, NEW new \in Int, NEW b \in Int, NEW m \in Int,
         NEW d \in Int, NEW c \in Int, NEW then \in Int, NEW start \in Int, NEW now \in Int,
         (spent + old) * d <= m * d + c * (then - start),
         (new + b) * d <= old * d + c * (now - then)
  PROVE  (spent + new + b) * d <= m * d + c * (now - start)
<1>1. /\ (spent + old) * d = spent * d + old * d
      /\ (new + b) * d = new * d + b * d
      /\ (spent + new + b) * d = spent * d + new * d + b * d
  OBVIOUS
<1>2. /\ c * (then - start) = c * then - c * start
      /\ c * (now - then) = c * now - c * then
      /\ c * (now - start) = c * now - c * start
  OBVIOUS
<1>3. PICK sd \in Int, od \in Int, nd \in Int, bd \in Int, md \in Int, ct \in Int, cs \in Int, cn \in Int :
        /\ sd = spent * d /\ od = old * d /\ nd = new * d /\ bd = b * d /\ md = m * d
        /\ ct = c * then /\ cs = c * start /\ cn = c * now
  OBVIOUS
<1>4. sd + od <= md + (ct - cs) /\ nd + bd <= od + (cn - ct)
  BY <1>1, <1>2, <1>3
<1>5. sd + nd + bd <= md + (cn - cs)
  BY <1>4
<1>6. QED BY <1>1, <1>2, <1>3, <1>5

\* A swap of tokens writes to the bucket of the argument, if at all.
LEMMA SwapWrites ==
  ASSUME IInv, CInv, RInv, NEW r \in Requests, NEW k, k = at[r], NEW a, a = Arg(r), Rations(k),
         pc[r] \in {"swapRefill", "swapSpend"}, tokenCounter' = tokenCounter,
         NEW p, p = local[r].rest, token' = Swap(r, token, p)
  PROVE  /\ p \in Requests /\ args[p][k] = a /\ p = tokenCounter[k].items[a]
         /\ ~Swapped(r, token, p) => token' = token
         /\ Swapped(r, token, p) =>
              TokensOf(k, a) = local[r].old /\ TokensOf(k, a)' = local[r].new
         /\ \A j \in Controllers, q \in Requests : j # k \/ args[q][k] # a => token'[j][q] = token[j][q]
<1>1. k \in Controllers /\ a \in Args /\ p = tokenCounter[k].items[a]
  BY CarriesOn DEF BucketOnly
<1>2. p \in Requests /\ args[p][k] = a
  BY DEF IInv, InOrder, CounterFor
<1>3. ~Swapped(r, token, p) => token' = token
  BY DEF Swap, Swapped
<1>4. token \in [Controllers -> [Requests -> Int]]
  BY DEF IInv, Ranges, Stores
<1>5. PICK v \in Int : v = local[r].new
  BY LoopFacts
<1>6. Swapped(r, token, p) =>
        /\ token[k][p] = local[r].old /\ token'[k][p] = v
        /\ \A j \in Controllers, q \in Requests : j # k \/ q # p => token'[j][q] = token[j][q]
  <2>1. PICK f : f = [token EXCEPT ![k][p] = v]
    OBVIOUS
  <2>2. Swapped(r, token, p) => token' = f /\ token[k][p] = local[r].old
    BY <1>5, <2>1 DEF Swap, Swapped
  <2>3. \A j \in Controllers, q \in Requests : f[j][q] = IF j = k /\ q = p THEN v ELSE token[j][q]
    BY <1>1, <1>2, <1>4, <2>1, WriteOne
  <2>4. f[k][p] = v /\ \A j \in Controllers, q \in Requests : j # k \/ q # p => f[j][q] = token[j][q]
    BY <1>1, <1>2, <2>3
  <2>5. QED BY <2>2, <2>4
<1>7. \A j \in Controllers, q \in Requests : j # k \/ q # p => token'[j][q] = token[j][q]
  BY <1>3, <1>6
<1>8. \A j \in Controllers, q \in Requests : j # k \/ args[q][k] # a => token'[j][q] = token[j][q]
  BY <1>2, <1>7
<1>9. Swapped(r, token, p) => TokensOf(k, a) = local[r].old /\ TokensOf(k, a)' = local[r].new
  BY <1>1, <1>5, <1>6 DEF TokensOf
<1>10. QED BY <1>1, <1>2, <1>3, <1>8, <1>9

LEMMA SwapRefillRations ==
  ASSUME IInv, CInv, DInv, RInv, NEW r \in Requests, SwapRefill(r), Rations(at[r]),
         UNCHANGED <<clock, tcs, args, batch>>, disturbed' = (disturbed \/ Disturbs(r))
  PROVE  RInv'
<1>1. PICK k, a, p : k = at[r] /\ a = Arg(r) /\ p = local[r].rest
  OBVIOUS
<1>2. /\ pc[r] = "swapRefill" /\ UNCHANGED <<timeCounter, tokenCounter, time>>
      /\ token' = Swap(r, token, p)
      /\ \/ Swapped(r, token, p) /\ Continue(r, "stamp")
         \/ ~Swapped(r, token, p) /\ Again(r)
  BY <1>1 DEF SwapRefill, caches
<1>3. /\ k \in Controllers /\ a \in Args /\ args[r][k] = a /\ Rule(r) = tcs[k]
      /\ pc[r] \in InQPS /\ pc[r] \in Loop \ {"readClock"} /\ pc[r] \in Loop
      /\ pc[r] \notin {"firstTokens", "stamp", "sleeping"}
      /\ timeCounter[k].items[a] # Nil /\ local[r].last = timeCounter[k].items[a]
      /\ tokenCounter[k].items[a] # Nil /\ local[r].now \in Int /\ batch[r] \in Nat
      /\ Ranges /\ passAt \in [Controllers -> [Requests -> Int]]
  BY <1>1, <1>2, CarriesOn DEF BucketOnly, IInv, DInv
<1>4. /\ p = tokenCounter[k].items[a]
      /\ ~Swapped(r, token, p) => token' = token
      /\ Swapped(r, token, p) => TokensOf(k, a) = local[r].old /\ TokensOf(k, a)' = local[r].new
      /\ \A j \in Controllers, q \in Requests : j # k \/ args[q][k] # a => token'[j][q] = token[j][q]
  BY <1>1, <1>2, SwapWrites
<1>5. CASE ~Swapped(r, token, p)
  <2>1. \A j \in Controllers :
          /\ timeCounter'[j].items = timeCounter[j].items /\ time'[j] = time[j]
          /\ tokenCounter'[j].items = tokenCounter[j].items /\ token'[j] = token[j]
    BY <1>2, <1>4, <1>5
  <2>2. QED BY <1>2, <1>3, <1>5, <2>1, AgainRations
<1>6. CASE Swapped(r, token, p)
  <2>1. /\ Continue(r, "stamp") /\ Alone(r) /\ pc'[r] = "stamp" /\ local' = local /\ at' = at
        /\ passAt' = passAt
    BY <1>1, <1>2, <1>3, <1>6, OutcomeLeaves
  <2>2. ASSUME ~disturbed'
        PROVE  Enough(k, a, Spent(k, a) + TokensOf(k, a) + batch[r], local[r].now)'
    <3>1. Balance(k, a)
      BY <1>1, <1>3, <2>2, FindsBalance
    <3>2. Enough(k, a, Spent(k, a) + TokensOf(k, a), TimeOf(k, a))
      BY <1>3, <3>1 DEF Balance, Holds
    <3>3. PICK start \in Starts(k, a) :
            (Spent(k, a) + TokensOf(k, a)) * tcs[k].durationInSec
              <= MaxCount(k, a) * tcs[k].durationInSec + TokenCount(k, a) * (TimeOf(k, a) - start)
      BY <3>2 DEF Enough
    <3>4. (local[r].new + batch[r]) * tcs[k].durationInSec
            <= local[r].old * tcs[k].durationInSec + TokenCount(k, a) * (local[r].now - TimeOf(k, a))
      BY <1>1, <1>2, <1>3, <2>2 DEF RInv, WorkedOut, HalfWay
    <3>5. PICK m \in Int, c \in Int, d \in Int, s \in Int, b \in Int, w \in Int, o \in Int, n \in Int :
            /\ m = MaxCount(k, a) /\ c = TokenCount(k, a) /\ d = tcs[k].durationInSec
            /\ s = Spent(k, a) /\ b = batch[r] /\ w = local[r].now /\ o = local[r].old /\ n = local[r].new
      <4>1. MaxCount(k, a) \in Int /\ TokenCount(k, a) \in Int /\ tcs[k].durationInSec \in Int
            /\ Spent(k, a) \in Int
        <5>1. k \in Controllers /\ tcs[k].metric = "QPS"
          BY <1>1, <1>3 DEF Rations
        <5>2. MaxCount(k, a) \in Int /\ TokenCount(k, a) \in Int /\ tcs[k].durationInSec \in Nat \ {0}
              /\ Spent(k, a) \in Nat
          BY <5>1, RationNumbers
        <5>3. QED BY <5>2
      <4>2. batch[r] \in Int /\ local[r].now \in Int /\ local[r].old \in Int /\ local[r].new \in Int
        BY <1>3, LoopFacts
      <4>3. QED BY <4>1, <4>2
    <3>6. PICK t \in Int, f \in Int : t = TimeOf(k, a) /\ f = start
      <4>1. TimeOf(k, a) \in Int /\ Starts(k, a) \subseteq Int
        BY <1>3, StoredNumbers DEF Holds
      <4>2. QED BY <4>1
    <3>7. (s + o) * d <= m * d + c * (t - f) /\ (n + b) * d <= o * d + c * (w - t)
      BY <1>4, <1>6, <3>3, <3>4, <3>5, <3>6
    <3>8. (s + n + b) * d <= m * d + c * (w - f)
      BY <3>7, RefillAdds
    <3>9. PassedBy(k, a)' = PassedBy(k, a) /\ Starts(k, a)' = Starts(k, a) /\ Spent(k, a)' = s
      <4>1. PassedBy(k, a)' = PassedBy(k, a)
        BY <2>1 DEF PassedBy
      <4>2. Spent(k, a)' = Spent(k, a)
        BY <4>1, SpentIs
      <4>3. Starts(k, a)' = Starts(k, a)
        BY <2>1, <4>1 DEF Starts
      <4>4. QED BY <3>5, <4>1, <4>2, <4>3
    <3>10. /\ MaxCount(k, a)' = m /\ TokenCount(k, a)' = c /\ tcs'[k].durationInSec = d
           /\ TokensOf(k, a)' = n /\ batch'[r] = b /\ local'[r].now = w
      BY <1>4, <1>6, <2>1, <3>5 DEF MaxCount, TokenCount
    <3>11. Spent(k, a)' + TokensOf(k, a)' + batch'[r] = s + n + b
      BY <3>9, <3>10
    <3>12. QED BY <3>6, <3>8, <3>9, <3>10, <3>11 DEF Enough
  <2>3. Carries(r)'
    BY <1>1, <1>2, <1>3, <2>1, HandsAfter
  <2>4. WorkedOut(r)'
    <3>1. PICK l : l = local'[r]
      OBVIOUS
    <3>2. ASSUME ~disturbed' PROVE Enough(k, a, Spent(k, a) + TokensOf(k, a) + batch[r], l.now)'
      <4>1. l' = l /\ l.now = local'[r].now
        BY <3>1
      <4>2. QED BY <2>2, <3>2, <4>1 DEF Enough
    <3>3. QED BY <1>1, <1>2, <1>3, <2>1, <3>1, <3>2, WorkedAfter
  <2>5. Timely(r)'
    BY <1>3, <2>1, TimelyOn DEF Setting
  <2>6. Ahead(r)'
    BY <1>1, <1>3, <2>1, OutcomeAhead
  <2>7. Filling(k, a)'
    BY <1>1, <2>1 DEF Filling, Arg
  <2>8. QED BY <1>1, <1>2, <1>3, <1>4, <2>1, <2>3, <2>4, <2>5, <2>6, <2>7, WritesRations
<1>7. QED BY <1>5, <1>6

\* A request passes, and with what is left the balance holds.
LEMMA GrantBalance ==
  ASSUME IInv, DInv, UNCHANGED <<tcs, args, batch>>, NEW r \in Requests, NEW k \in Controllers,
         tcs[k].metric = "QPS", NEW a \in Args, args[r][k] = a, passAt[k][r] = Never,
         NEW now \in Nat, passAt'[k][r] = now, now <= clock',
         \A q \in Requests \ {r} : passAt'[k][q] = passAt[k][q],
         TokenCount(k, a) > 0,
         NEW t \in Int, Holds(timeCounter'[k], a), TimeOf(k, a)' = t, t <= clock',
         NEW n \in Int, Holds(tokenCounter'[k], a), TokensOf(k, a)' = n,
         Enough(k, a, Spent(k, a) + n + batch[r], t)
  PROVE  Balance(k, a)'
<1>1. args' = args /\ batch' = batch
  OBVIOUS
<1>2. /\ PassedBy(k, a)' = PassedBy(k, a) \cup {r}
      /\ Starts(k, a)' = Starts(k, a) \cup {now}
      /\ Spent(k, a)' = Spent(k, a) + batch[r]
  BY <1>1, GrantCounts
<1>3. Spent(k, a) \in Nat /\ batch[r] \in Nat
  BY RationNumbers DEF IInv, Ranges
<1>4. Spent(k, a)' + TokensOf(k, a)' = Spent(k, a) + n + batch[r]
  BY <1>2, <1>3
<1>5. MaxCount(k, a)' = MaxCount(k, a) /\ TokenCount(k, a)' = TokenCount(k, a)
  BY DEF MaxCount, TokenCount
<1>6. Enough(k, a, Spent(k, a) + TokensOf(k, a), TimeOf(k, a))'
  <2>1. PICK start \in Starts(k, a) :
          (Spent(k, a) + n + batch[r]) * tcs[k].durationInSec
            <= MaxCount(k, a) * tcs[k].durationInSec + TokenCount(k, a) * (t - start)
    BY DEF Enough
  <2>2. start \in Starts(k, a)'
    BY <1>2
  <2>3. QED BY <1>4, <1>5, <2>1, <2>2 DEF Enough
<1>7. PassedBy(k, a)' # {}
  BY <1>2
<1>8. QED BY <1>5, <1>6, <1>7 DEF Balance, Holds

LEMMA StampRations ==
  ASSUME IInv, CInv, DInv, TInv, RInv, NEW r \in Requests, Stamp(r), Rations(at[r]),
         UNCHANGED <<clock, tcs, args, batch>>, disturbed' = (disturbed \/ Disturbs(r))
  PROVE  RInv'
<1>1. PICK k, a, now, p : k = at[r] /\ a = Arg(r) /\ now = local[r].now /\ p = local[r].last
  OBVIOUS
<1>2. /\ pc[r] = "stamp" /\ UNCHANGED <<timeCounter, tokenCounter, token>>
      /\ time' = [time EXCEPT ![k][p] = now] /\ Granted(r, now)
  BY <1>1 DEF Stamp, caches
<1>3. /\ k \in Controllers /\ a \in Args /\ args[r][k] = a
      /\ pc[r] \in InQPS /\ pc[r] \in Loop \ {"readClock"} /\ pc[r] # "sleeping"
      /\ timeCounter[k].items[a] # Nil /\ p = timeCounter[k].items[a]
      /\ now \in Int /\ now <= clock /\ batch[r] \in Nat
      /\ Ranges /\ passAt \in [Controllers -> [Requests -> Int]]
  BY <1>1, <1>2, CarriesOn DEF BucketOnly, IInv, DInv
<1>4. now \in Nat
  BY <1>1 DEF TInv, Sane
<1>5. p \in Requests /\ args[p][k] = a
  BY <1>3 DEF DInv, TimesBelong, CounterFor, Holds
<1>6. /\ time'[k][p] = now
      /\ \A j \in Controllers, q \in Requests : j # k \/ q # p => time'[j][q] = time[j][q]
  <2>1. time \in [Controllers -> [Requests -> Int]]
    BY <1>3 DEF Ranges, Stores
  <2>2. QED BY <1>2, <1>3, <1>5, <2>1
<1>7. /\ Alone(r) /\ passAt' \in [Controllers -> [Requests -> Int]]
      /\ \A j \in Controllers, q \in Requests :
           passAt'[j][q] = IF j = k /\ q = r THEN now ELSE passAt[j][q]
  BY <1>1, <1>2, <1>3, OutcomeLeaves
<1>8. Carries(r)' /\ WorkedOut(r)' /\ Timely(r)'
  BY <1>1, <1>2, <1>3, FreeEnds
<1>9. Ahead(r)'
  BY <1>1, <1>2, <1>3, OutcomeAhead
<1>10. \A j \in Controllers, q \in Requests : j # k \/ args[q][k] # a =>
         time'[j][q] = time[j][q] /\ token'[j][q] = token[j][q]
  BY <1>2, <1>5, <1>6
<1>11. ASSUME ~disturbed' PROVE Balance(k, a)'
  <2>1. /\ Holds(tokenCounter[k], a)
        /\ Enough(k, a, Spent(k, a) + TokensOf(k, a) + batch[r], now)
    BY <1>1, <1>2, <1>11 DEF RInv, WorkedOut, HalfWay
  <2>2. passAt[k][r] = Never
    BY <1>1, <1>3 DEF RInv, Ahead
  <2>3. TokenCount(k, a) > 0
    BY <1>1, <1>3, AtRation
  <2>4. PICK n \in Int : n = TokensOf(k, a)
    BY <1>3, <2>1, StoredNumbers
  <2>5. TimeOf(k, a)' = now /\ TokensOf(k, a)' = n
    BY <1>2, <1>3, <1>6, <2>4 DEF TimeOf, TokensOf
  <2>6. passAt'[k][r] = now /\ \A q \in Requests \ {r} : passAt'[k][q] = passAt[k][q]
    BY <1>3, <1>7
  <2>7. /\ Holds(timeCounter'[k], a) /\ Holds(tokenCounter'[k], a) /\ now <= clock'
        /\ tcs[k].metric = "QPS" /\ now \in Int
    BY <1>1, <1>2, <1>3, <2>1 DEF Holds, Rations
  <2>8. Enough(k, a, Spent(k, a) + n + batch[r], now)
    BY <2>1, <2>4
  <2>9. k \in Controllers /\ a \in Args /\ args[r][k] = a
    BY <1>3
  <2>10. QED BY <1>4, <2>2, <2>3, <2>5, <2>6, <2>7, <2>8, <2>9, GrantBalance
<1>12. \A j \in Controllers, q \in Requests : j # k \/ q # r => passAt'[j][q] = passAt[j][q]
  BY <1>7
<1>13. QED BY <1>1, <1>2, <1>3, <1>7, <1>8, <1>9, <1>10, <1>11, <1>12, WritesRations

LEMMA SwapSpendRations ==
  ASSUME IInv, CInv, DInv, TInv, RInv, NEW r \in Requests, SwapSpend(r), Rations(at[r]),
         UNCHANGED <<clock, tcs, args, batch>>, disturbed' = (disturbed \/ Disturbs(r))
  PROVE  RInv'
<1>1. PICK k, a, p, now : k = at[r] /\ a = Arg(r) /\ p = local[r].rest /\ now = local[r].now
  OBVIOUS
<1>2. /\ pc[r] = "swapSpend" /\ UNCHANGED <<timeCounter, tokenCounter, time>>
      /\ token' = Swap(r, token, p)
      /\ \/ Swapped(r, token, p) /\ Granted(r, now)
         \/ ~Swapped(r, token, p) /\ Again(r)
  BY <1>1 DEF SwapSpend, caches
<1>3. /\ k \in Controllers /\ a \in Args /\ args[r][k] = a
      /\ pc[r] \in InQPS /\ pc[r] \in Loop \ {"readClock"} /\ pc[r] \in Loop
      /\ pc[r] \notin {"firstTokens", "stamp", "sleeping"}
      /\ timeCounter[k].items[a] # Nil /\ tokenCounter[k].items[a] # Nil
      /\ now \in Int /\ now <= clock /\ batch[r] \in Nat
      /\ Ranges /\ passAt \in [Controllers -> [Requests -> Int]]
  BY <1>1, <1>2, CarriesOn DEF BucketOnly, IInv, DInv
<1>4. now \in Nat
  BY <1>1 DEF TInv, Sane
<1>5. /\ ~Swapped(r, token, p) => token' = token
      /\ Swapped(r, token, p) => TokensOf(k, a) = local[r].old /\ TokensOf(k, a)' = local[r].new
      /\ \A j \in Controllers, q \in Requests : j # k \/ args[q][k] # a => token'[j][q] = token[j][q]
  BY <1>1, <1>2, SwapWrites
<1>6. CASE ~Swapped(r, token, p)
  <2>1. \A j \in Controllers :
          /\ timeCounter'[j].items = timeCounter[j].items /\ time'[j] = time[j]
          /\ tokenCounter'[j].items = tokenCounter[j].items /\ token'[j] = token[j]
    BY <1>2, <1>5, <1>6
  <2>2. QED BY <1>2, <1>3, <1>6, <2>1, AgainRations
<1>7. CASE Swapped(r, token, p)
  <2>1. /\ Granted(r, now) /\ Alone(r) /\ passAt' \in [Controllers -> [Requests -> Int]]
        /\ \A j \in Controllers, q \in Requests :
             passAt'[j][q] = IF j = k /\ q = r THEN now ELSE passAt[j][q]
    BY <1>1, <1>2, <1>3, <1>7, OutcomeLeaves
  <2>2. Carries(r)' /\ WorkedOut(r)' /\ Timely(r)'
    BY <1>1, <1>3, <2>1, FreeEnds
  <2>3. Ahead(r)'
    BY <1>1, <1>3, <2>1, OutcomeAhead
  <2>4. ASSUME ~disturbed' PROVE Balance(k, a)'
    <3>1. Balance(k, a)
      BY <1>1, <1>3, <2>4, FindsBalance
    <3>2. /\ TokenCount(k, a) > 0 /\ TimeOf(k, a) <= clock
          /\ Enough(k, a, Spent(k, a) + TokensOf(k, a), TimeOf(k, a))
      BY <1>3, <3>1 DEF Balance, Holds
    <3>3. passAt[k][r] = Never
      BY <1>1, <1>3 DEF RInv, Ahead
    <3>4. PICK t \in Int, n \in Int : t = TimeOf(k, a) /\ n = TokensOf(k, a) - batch[r]
      <4>1. TimeOf(k, a) \in Int /\ TokensOf(k, a) \in Int
        BY <1>3, StoredNumbers DEF Holds
      <4>2. QED BY <1>3, <4>1
    <3>5. local[r].new = local[r].old - batch[r]
      BY <1>1, <1>2 DEF RInv, Carries, BucketOnly
    <3>6. TimeOf(k, a)' = t /\ TokensOf(k, a)' = n
      BY <1>2, <1>5, <1>7, <3>4, <3>5 DEF TimeOf
    <3>7. passAt'[k][r] = now /\ \A q \in Requests \ {r} : passAt'[k][q] = passAt[k][q]
      BY <1>3, <2>1
    <3>8. Enough(k, a, Spent(k, a) + n + batch[r], t)
      <4>1. Spent(k, a) \in Int /\ TokensOf(k, a) \in Int
        BY <1>3, RationNumbers, StoredNumbers DEF Holds
      <4>2. Spent(k, a) + n + batch[r] = Spent(k, a) + TokensOf(k, a)
        BY <1>3, <3>4, <4>1
      <4>3. QED BY <3>2, <3>4, <4>2
    <3>9. /\ Holds(timeCounter'[k], a) /\ Holds(tokenCounter'[k], a) /\ now <= clock' /\ t <= clock'
          /\ tcs[k].metric = "QPS"
      BY <1>1, <1>2, <1>3, <3>2, <3>4 DEF Holds, Rations
    <3>10. k \in Controllers /\ a \in Args /\ args[r][k] = a
      BY <1>3
    <3>11. QED BY <1>4, <3>2, <3>3, <3>6, <3>7, <3>8, <3>9, <3>10, GrantBalance
  <2>5. \A j \in Controllers, q \in Requests : j # k \/ q # r => passAt'[j][q] = passAt[j][q]
    BY <2>1
  <2>6. QED BY <1>1, <1>2, <1>3, <1>5, <2>1, <2>2, <2>3, <2>4, <2>5, WritesRations
<1>8. QED BY <1>6, <1>7

\* An arrival changes nothing for the requests that are there.
LEMMA BeginRations ==
  ASSUME IInv, CInv, DInv, RInv, NEW r \in Requests, Begin(r)
  PROVE  RInv'
<1>1. /\ UNCHANGED <<clock, tcs, timeCounter, tokenCounter, time, token, local, passAt, disturbed>>
      /\ pc[r] = "new" /\ GoOn(r, 1) /\ Controllers' = Controllers
  BY DEF Begin, caches, values, Controllers
<1>2. PICK in \in Inputs, b \in Batches :
        /\ args' = [args EXCEPT ![r] = [k \in Controllers |-> ExtractArgs(tcs[k], in)]]
        /\ batch' = [batch EXCEPT ![r] = b]
  BY DEF Begin
<1>3. [k \in Controllers |-> ExtractArgs(tcs[k], in)] \in [Controllers -> Args \cup {NoArg}]
  BY HotSpotAssumption DEF Controllers, IInv, Ranges
<1>4. /\ args' \in [Requests -> [Controllers -> Args \cup {NoArg}]]
      /\ \A q \in Requests \ {r} : args'[q] = args[q] /\ batch'[q] = batch[q]
      /\ batch' \in [Requests -> Nat]
  BY <1>2, <1>3, HotSpotAssumption DEF IInv, Ranges
<1>5. /\ pc'[r] \in {"addConcurrent", "readClock", "checked"}
      /\ \A q \in Requests \ {r} : pc'[q] = pc[q] /\ at'[q] = at[q]
  <2>1. 1 \in Nat \ {0}
    OBVIOUS
  <2>2. QED BY <1>1, <1>4, <2>1, GoOnSkips DEF IInv
<1>6. \A k \in Controllers : args[r][k] = NoArg /\ passAt[k][r] = Never
  BY <1>1 DEF DInv, Unheard
<1>7. ASSUME NEW k \in Controllers, Rations(k)' PROVE Rations(k)
  BY <1>1, <1>4, <1>6, <1>7, BeginRoom DEF Rations
<1>8. ASSUME NEW k \in Controllers, NEW a PROVE PassedBy(k, a)' = PassedBy(k, a)
  BY <1>1, <1>4, <1>6 DEF PassedBy
<1>9. \A q \in Requests \ {r} : Arg(q)' = Arg(q)
  BY <1>4, <1>5 DEF Arg
<1>10. ASSUME NEW k \in Controllers, NEW a \in Args PROVE Same(k, a)
  <2>1. PassedBy(k, a)' = PassedBy(k, a)
    BY <1>8
  <2>2. Starts(k, a)' = Starts(k, a)
    BY <1>1, <2>1 DEF Starts
  <2>3. Spent(k, a)' = Spent(k, a)
    <3>1. PICK S : S = PassedBy(k, a)
      OBVIOUS
    <3>2. \A q \in S : batch'[q] = batch[q]
      BY <1>4, <1>6, <3>1 DEF PassedBy
    <3>3. BSum(batch', S) = BSum(batch, S)
      <4>1. PICK c : c = batch'
        OBVIOUS
      <4>2. c \in [Requests -> Nat] /\ batch \in [Requests -> Nat]
            /\ \A q \in S : c[q] = batch[q]
        BY <1>4, <3>2, <4>1 DEF IInv, Ranges
      <4>3. BSum(c, S) = BSum(batch, S)
        BY <4>2, SumSame
      <4>4. QED BY <4>1, <4>3
    <3>4. Spent(k, a) = BSum(batch, S) /\ Spent(k, a)' = BSum(batch', S)
      BY <2>1, <3>1, SpentIs
    <3>5. QED BY <3>3, <3>4
  <2>4. TimeOf(k, a)' = TimeOf(k, a) /\ TokensOf(k, a)' = TokensOf(k, a)
    BY <1>1 DEF TimeOf, TokensOf
  <2>5. QED BY <1>1, <2>1, <2>2, <2>3, <2>4 DEF Same
<1>11. Balanced'
  <2>1. ASSUME ~disturbed', NEW k \in Controllers, NEW a \in Args, Rations(k)', ~Filling(k, a)'
        PROVE  Balance(k, a)'
    <3>1. Rations(k) /\ ~disturbed
      BY <1>1, <1>7, <2>1
    <3>2. ~Filling(k, a)
      <4>1. ASSUME NEW q \in Requests, pc[q] \in {"firstTokens", "stamp"}, at[q] = k, Arg(q) = a
            PROVE  FALSE
        <5>1. q # r
          BY <1>1, <4>1
        <5>2. pc'[q] = pc[q] /\ at'[q] = k /\ Arg(q)' = a
          BY <1>5, <1>9, <4>1, <5>1
        <5>3. QED BY <2>1, <4>1, <5>2 DEF Filling
      <4>2. QED BY <4>1 DEF Filling
    <3>3. Balance(k, a) /\ Same(k, a)
      BY <1>10, <3>1, <3>2 DEF RInv, Balanced
    <3>4. QED BY <1>1, <3>3, SameBalance
  <2>2. QED BY <1>1, <2>1 DEF Balanced
<1>12. Carries(r)' /\ WorkedOut(r)' /\ Timely(r)' /\ Ahead(r)'
  <2>1. pc'[r] \notin BucketOnly \cup {"loadTime"} /\ pc'[r] \notin Loop \ {"readClock"}
        /\ pc'[r] \notin Setting
    BY <1>5 DEF BucketOnly, Loop, Setting
  <2>2. Ahead(r)'
    BY <1>1, <1>6 DEF Ahead
  <2>3. QED BY <2>1, <2>2, FreeHands DEF Timely
<1>13. ASSUME NEW q \in Requests \ {r}
       PROVE  Carries(q)' /\ WorkedOut(q)' /\ Timely(q)' /\ Ahead(q)'
  <2>1. /\ pc'[q] = pc[q] /\ at'[q] = at[q] /\ Arg(q)' = Arg(q) /\ local'[q] = local[q]
        /\ batch'[q] = batch[q] /\ Rule(q)' = Rule(q)
    BY <1>1, <1>4, <1>5, <1>9 DEF Rule
  <2>2. Carries(q) /\ WorkedOut(q) /\ Timely(q) /\ Ahead(q)
    BY DEF RInv
  <2>3. Timely(q)'
    BY <1>1, <2>1, <2>2 DEF Timely
  <2>4. Ahead(q)'
    BY <1>1, <2>1, <2>2 DEF Ahead
  <2>5. PICK k, a : k = at[q] /\ a = Arg(q)
    OBVIOUS
  <2>6. pc[q] \in BucketOnly \cup {"loadTime"} => k \in Controllers /\ a \in Args
    BY <2>5 DEF IInv, InOrder, Loop
  <2>7. CASE pc[q] \notin BucketOnly \cup {"loadTime"}
    <3>1. pc'[q] \notin BucketOnly \cup {"loadTime"}
      BY <2>1, <2>7
    <3>2. QED BY <2>3, <2>4, <3>1, FreeHands
  <2>8. CASE pc[q] \in BucketOnly \cup {"loadTime"} /\ ~Rations(k)'
    <3>1. ~Rations(at[q])'
      BY <2>1, <2>5, <2>8 DEF Rations, NoEviction
    <3>2. QED BY <2>3, <2>4, <3>1 DEF Carries, WorkedOut
  <2>9. CASE pc[q] \in BucketOnly \cup {"loadTime"} /\ Rations(k)'
    <3>1. Rations(k) /\ Rations(at[q])
      BY <1>7, <2>5, <2>6, <2>9
    <3>2. Carries(q)'
      BY <1>1, <2>1, <2>2, <3>1 DEF Carries, Holds
    <3>3. WorkedOut(q)'
      <4>1. Same(k, a)
        BY <1>10, <2>6, <2>9
      <4>2. MaxCount(k, a)' = MaxCount(k, a) /\ TokenCount(k, a)' = TokenCount(k, a)
        BY <1>1 DEF MaxCount, TokenCount
      <4>3. ASSUME ~disturbed', pc[q] \in HalfWay \ {"stampExpected"}
            PROVE  /\ Holds(timeCounter[k], a)'
                   /\ pc[q] = "firstTokens" =>
                        /\ PassedBy(k, a)' = {} /\ ~Holds(tokenCounter[k], a)'
                        /\ TimeOf(k, a)' = local[q].now
                   /\ pc[q] \in {"refill", "loadOld"} => local[q].new = local[q].now - TimeOf(k, a)'
                   /\ pc[q] = "swapRefill" =>
                        (local[q].new + batch[q]) * Rule(q).durationInSec
                          <= local[q].old * Rule(q).durationInSec
                             + TokenCount(k, a)' * (local[q].now - TimeOf(k, a)')
                   /\ pc[q] = "stamp" =>
                        /\ Holds(tokenCounter[k], a)'
                        /\ Enough(k, a, Spent(k, a) + TokensOf(k, a) + batch[q], local[q].now)'
        <5>1. /\ Holds(timeCounter[k], a)
              /\ pc[q] = "firstTokens" =>
                   PassedBy(k, a) = {} /\ ~Holds(tokenCounter[k], a) /\ TimeOf(k, a) = local[q].now
              /\ pc[q] \in {"refill", "loadOld"} => local[q].new = local[q].now - TimeOf(k, a)
              /\ pc[q] = "swapRefill" =>
                   (local[q].new + batch[q]) * Rule(q).durationInSec
                     <= local[q].old * Rule(q).durationInSec + TokenCount(k, a) * (local[q].now - TimeOf(k, a))
              /\ pc[q] = "stamp" =>
                   /\ Holds(tokenCounter[k], a)
                   /\ Enough(k, a, Spent(k, a) + TokensOf(k, a) + batch[q], local[q].now)
          BY <1>1, <2>2, <2>5, <3>1, <4>3 DEF WorkedOut
        <5>2. /\ Holds(timeCounter[k], a)' /\ TimeOf(k, a)' = TimeOf(k, a)
              /\ Holds(tokenCounter[k], a)' <=> Holds(tokenCounter[k], a)
              /\ PassedBy(k, a)' = PassedBy(k, a)
              /\ Holds(tokenCounter[k], a) => TokensOf(k, a)' = TokensOf(k, a)
              /\ Starts(k, a)' = Starts(k, a) /\ Spent(k, a)' = Spent(k, a)
          BY <4>1, <5>1 DEF Same, Holds
        <5>3. pc[q] = "stamp" => Enough(k, a, Spent(k, a) + TokensOf(k, a) + batch[q], local[q].now)'
          BY <1>1, <2>1, <4>2, <5>1, <5>2 DEF Enough
        <5>4. QED BY <4>2, <5>1, <5>2, <5>3
      <4>4. k = at[q]' /\ a = Arg(q)'
        BY <2>1, <2>5
      <4>5. QED BY <1>1, <2>1, <4>3, <4>4
              DEF WorkedOut, Rule, Holds, TimeOf, TokensOf, PassedBy, TokenCount, Enough, Spent,
                  Starts, MaxCount
    <3>4. QED BY <2>3, <2>4, <3>2, <3>3
  <2>10. QED BY <2>7, <2>8, <2>9
<1>14. \A q \in Requests : Carries(q)' /\ WorkedOut(q)' /\ Timely(q)' /\ Ahead(q)'
  BY <1>12, <1>13
<1>15. QED BY <1>11, <1>14 DEF RInv

LEMMA InitRations == Init => RInv
<1> SUFFICES ASSUME Init PROVE RInv
  OBVIOUS
<1>1. /\ \A k \in Controllers : timeCounter[k] = NewLRU /\ tokenCounter[k] = NewLRU
      /\ \A r \in Requests : pc[r] = "new"
      /\ \A k \in Controllers, r \in Requests : passAt[k][r] = Never
  BY DEF Init
<1>2. \A k \in Controllers, x \in Args :
        /\ ~Holds(timeCounter[k], x) /\ ~Holds(tokenCounter[k], x) /\ PassedBy(k, x) = {}
  BY <1>1 DEF Holds, NewLRU, PassedBy
<1>3. Balanced
  BY <1>2 DEF Balanced, Balance
<1>4. \A r \in Requests : Carries(r) /\ WorkedOut(r) /\ Timely(r) /\ Ahead(r)
  BY <1>1 DEF Carries, WorkedOut, Timely, Ahead, BucketOnly, HalfWay, Loop, Setting, InQPS, InConcurrency
<1>5. QED BY <1>3, <1>4 DEF RInv

\* Time only adds to what a bucket may have given.
LEMMA IdleRations ==
  ASSUME IInv, DInv, RInv, clock' = clock \/ clock' = clock + 1,
         UNCHANGED <<tcs, timeCounter, tokenCounter, time, token, pc, args, batch, at, local,
                     passAt, disturbed>>
  PROVE  RInv'
<1>1. Controllers' = Controllers
  BY DEF Controllers
<1>2. \A k : (Rations(k)' <=> Rations(k)) /\ \A x : Filling(k, x)' <=> Filling(k, x)
  BY DEF Rations, NoEviction, Filling, Arg
<1>3. Balanced'
  <2>1. ASSUME ~disturbed', NEW k \in Controllers, NEW a \in Args, Rations(k), ~Filling(k, a)
        PROVE  Balance(k, a)'
    <3>1. Balance(k, a)
      BY <2>1 DEF RInv, Balanced
    <3>2. Same(k, a)
      BY AllSame
    <3>3. QED BY <3>1, <3>2, SameBalance
  <2>2. QED BY <1>1, <1>2, <2>1 DEF Balanced
<1>4. ASSUME NEW r \in Requests PROVE Carries(r)' /\ WorkedOut(r)' /\ Timely(r)' /\ Ahead(r)'
  <2>1. Carries(r) /\ WorkedOut(r) /\ Timely(r) /\ Ahead(r)
    BY DEF RInv
  <2>2. Arg(r)' = Arg(r) /\ Rule(r)' = Rule(r) /\ (Rations(at[r])' <=> Rations(at[r]))
    BY DEF Arg, Rule, Rations, NoEviction
  <2>3. Carries(r)'
    BY <2>1, <2>2 DEF Carries, Holds
  <2>4. Timely(r)'
    <3>1. clock \in Int /\ local[r].now \in Int
      BY DEF IInv, Ranges, Locals
    <3>2. QED BY <2>1, <2>2, <3>1 DEF Timely
  <2>5. Ahead(r)'
    BY <1>1, <2>1 DEF Ahead
  <2>6. WorkedOut(r)'
    BY <2>1, <2>2 DEF WorkedOut, Holds, PassedBy, TimeOf, TokensOf, Enough, Spent, Starts, BatchSum,
                      TokenCount, MaxCount
  <2>7. QED BY <2>3, <2>4, <2>5, <2>6
<1>5. QED BY <1>3, <1>4 DEF RInv

LEMMA LoopRations ==
  ASSUME IInv, CInv, DInv, TInv, RInv, NEW r \in Requests, InLoop(r),
         UNCHANGED <<clock, tcs, args, batch>>, disturbed' = (disturbed \/ Disturbs(r))
  PROVE  RInv'
<1>1. CASE StampExpected(r) \/ Wake(r)
  BY <1>1, StampExpectedRations, WakeRations
<1>2. CASE ~StampExpected(r) /\ ~Wake(r) /\ ~Rations(at[r])
  <2>1. pc[r] # "sleeping"
    BY <1>2 DEF InLoop, ReadClock, AddTime, FirstTokens, LoadTime, Refill, LoadOld, SwapRefill,
         Stamp, Spend, LoadRest, SwapSpend, SwapTime
  <2>2. QED BY <1>2, <2>1, LoopElsewhere
<1>3. CASE ~StampExpected(r) /\ ~Wake(r) /\ Rations(at[r])
  <2>1. ~SwapTime(r)
    <3>1. ASSUME SwapTime(r) PROVE FALSE
      <4>1. pc[r] \in Setting
        BY <3>1 DEF SwapTime, Setting
      <4>2. Rule(r).behavior = "Throttling"
        BY <4>1 DEF RInv, Timely
      <4>3. QED BY <1>3, <4>2 DEF Rations, Rule
    <3>2. QED BY <3>1
  <2>2. CASE ReadClock(r) \/ AddTime(r) \/ FirstTokens(r) \/ LoadTime(r)
    BY <1>3, <2>2, ReadClockRations, AddTimeRations, FirstTokensRations, LoadTimeRations
  <2>3. CASE Refill(r) \/ LoadOld(r) \/ SwapRefill(r) \/ Stamp(r)
    BY <1>3, <2>3, RefillRations, LoadOldRations, SwapRefillRations, StampRations
  <2>4. CASE Spend(r) \/ LoadRest(r) \/ SwapSpend(r)
    BY <1>3, <2>4, SpendRations, LoadRestRations, SwapSpendRations
  <2>5. QED BY <1>3, <2>1, <2>2, <2>3, <2>4 DEF InLoop
<1>4. QED BY <1>1, <1>2, <1>3

LEMMA NextRations == IInv /\ CInv /\ DInv /\ TInv /\ RInv /\ [Next]_vars => RInv'
<1> SUFFICES ASSUME IInv, CInv, DInv, TInv, RInv, [Next]_vars PROVE RInv'
  OBVIOUS
<1>1. CASE Tick \/ Finished \/ UNCHANGED vars
  BY <1>1, IdleRations DEF Tick, Finished, vars, caches, values, request
<1>2. ASSUME NEW r \in Requests, Begin(r) PROVE RInv'
  BY <1>2, BeginRations
<1>3. ASSUME NEW r \in Requests, Step(r) PROVE RInv'
  <2>1. UNCHANGED <<clock, tcs, args, batch>> /\ disturbed' = (disturbed \/ Disturbs(r))
    BY <1>3 DEF Step, request
  <2>2. \/ InLoop(r) \/ AddConcurrent(r) \/ LoadConcurrent(r) \/ Decide(r) \/ Exit(r)
        \/ OnEntryPassed(r) \/ OnCompleted(r) \/ AddPassed(r) \/ AddCompleted(r)
    BY <1>3 DEF Step, InLoop
  <2>3. QED BY <2>1, <2>2, LoopRations, ConcurrencyRations, StatRations
<1>4. QED BY <1>1, <1>2, <1>3 DEF Next

\* What a bucket had for some time it has for a longer one.
LEMMA LongerIsMore ==
  ASSUME NEW spent \in Int, NEW more \in Nat, NEW d \in Nat, NEW m \in Int, NEW c \in Nat,
         NEW when \in Int, NEW start \in Int, NEW now \in Int, NEW first \in Int,
         when <= now, first <= start,
         (spent + more) * d <= m * d + c * (when - start)
  PROVE  spent * d <= m * d + c * (now - first)
<1>1. \A x, y \in Int, n \in Nat : x <= y => n * x <= n * y
  OBVIOUS
<1>2. (spent + more) * d = spent * d + more * d /\ more * d \in Nat
  OBVIOUS
<1>3. PICK x \in Int, y \in Int : x = when - start /\ y = now - first /\ x <= y
  OBVIOUS
<1>4. c * x <= c * y
  BY <1>1, <1>3
<1>5. PICK sd \in Int, e \in Int, md \in Int, cx \in Int, cy \in Int :
        sd = spent * d /\ e = more * d /\ md = m * d /\ cx = c * x /\ cy = c * y
  OBVIOUS
<1>6. sd + e <= md + cx /\ e >= 0 /\ cx <= cy
  BY <1>2, <1>3, <1>4, <1>5
<1>7. sd <= md + cy
  BY <1>6
<1>8. QED BY <1>3, <1>5, <1>7

\* What was granted fits a bucket and the time since the first grant.
LEMMA EnoughIsKept ==
  ASSUME IInv, DInv, NEW k \in Controllers, NEW a \in Args, tcs[k].metric = "QPS",
         TokenCount(k, a) > 0, NEW more \in Nat, NEW when \in Int, when <= clock,
         Enough(k, a, Spent(k, a) + more, when),
         NEW first \in PassedBy(k, a), \A r \in PassedBy(k, a) : passAt[k][first] <= passAt[k][r]
  PROVE  BatchSum(PassedBy(k, a)) * tcs[k].durationInSec
           <= MaxCount(k, a) * tcs[k].durationInSec + TokenCount(k, a) * (clock - passAt[k][first])
<1>1. PICK start \in Starts(k, a) :
        (Spent(k, a) + more) * tcs[k].durationInSec
          <= MaxCount(k, a) * tcs[k].durationInSec + TokenCount(k, a) * (when - start)
  BY DEF Enough
<1>2. PICK q \in PassedBy(k, a) : start = passAt[k][q]
  BY <1>1 DEF Starts
<1>3. PICK f \in Int, s \in Int : f = passAt[k][first] /\ s = start /\ f <= s
  <2>1. first \in Requests /\ q \in Requests /\ passAt[k][first] <= passAt[k][q]
    BY <1>2 DEF PassedBy
  <2>2. passAt[k][first] \in Int /\ passAt[k][q] \in Int
    BY <2>1 DEF DInv
  <2>3. QED BY <1>2, <2>1, <2>2
<1>4. PICK m \in Int, c \in Nat, d \in Nat, p \in Int, n \in Int :
        /\ m = MaxCount(k, a) /\ c = TokenCount(k, a) /\ d = tcs[k].durationInSec
        /\ p = Spent(k, a) /\ n = clock
  <2>1. /\ MaxCount(k, a) \in Int /\ TokenCount(k, a) \in Int
        /\ tcs[k].durationInSec \in Nat \ {0} /\ Spent(k, a) \in Nat
    BY RationNumbers
  <2>2. clock \in Int /\ TokenCount(k, a) \in Nat
    BY <2>1 DEF IInv, Ranges
  <2>3. QED BY <2>1, <2>2
<1>5. (p + more) * d <= m * d + c * (when - s) /\ when <= n
  BY <1>1, <1>3, <1>4
<1>6. p * d <= m * d + c * (n - f)
  BY <1>3, <1>5, LongerIsMore
<1>7. BatchSum(PassedBy(k, a)) = p
  BY <1>4 DEF Spent
<1>8. QED BY <1>3, <1>4, <1>6, <1>7

LEMMA RateFollows == IInv /\ CInv /\ DInv /\ RInv => RateKept
<1> SUFFICES ASSUME IInv, CInv, DInv, RInv, ~disturbed, NEW k \in Controllers, NEW a \in Args,
                    Rations(k), NEW first \in PassedBy(k, a),
                    \A r \in PassedBy(k, a) : passAt[k][first] <= passAt[k][r]
             PROVE  BatchSum(PassedBy(k, a)) * tcs[k].durationInSec
                      <= MaxCount(k, a) * tcs[k].durationInSec
                         + TokenCount(k, a) * (clock - passAt[k][first])
  BY DEF RateKept, Rations
<1>1. tcs[k].metric = "QPS" /\ PassedBy(k, a) # {}
  BY DEF Rations
<1>2. CASE ~Filling(k, a)
  <2>1. Balance(k, a)
    BY <1>2 DEF RInv, Balanced
  <2>2. /\ TokenCount(k, a) > 0 /\ TimeOf(k, a) <= clock
        /\ Enough(k, a, Spent(k, a) + TokensOf(k, a), TimeOf(k, a))
        /\ Holds(timeCounter[k], a) /\ Holds(tokenCounter[k], a)
    BY <1>1, <2>1 DEF Balance
  <2>3. PICK more \in Nat, when \in Int : more = TokensOf(k, a) /\ when = TimeOf(k, a)
    <3>1. TimeOf(k, a) \in Int /\ TokensOf(k, a) \in Int /\ TokensOf(k, a) >= 0
      BY <2>2, StoredNumbers
    <3>2. QED BY <3>1
  <2>4. QED BY <1>1, <2>2, <2>3, EnoughIsKept
<1>3. CASE Filling(k, a)
  <2>1. PICK r \in Requests : pc[r] \in {"firstTokens", "stamp"} /\ at[r] = k /\ Arg(r) = a
    BY <1>3 DEF Filling
  <2>2. pc[r] \in HalfWay \ {"stampExpected"} /\ pc[r] \in InQPS /\ pc[r] \in Loop \ {"readClock"}
    BY <2>1 DEF HalfWay, InQPS, Loop, BucketOnly
  <2>3. pc[r] = "stamp"
    BY <1>1, <2>1, <2>2 DEF RInv, WorkedOut
  <2>4. /\ Holds(tokenCounter[k], a)
        /\ Enough(k, a, Spent(k, a) + TokensOf(k, a) + batch[r], local[r].now)
    BY <2>1, <2>2, <2>3 DEF RInv, WorkedOut
  <2>5. TokenCount(k, a) > 0 /\ batch[r] \in Nat /\ local[r].now \in Int
    BY <2>1, <2>2, AtRation
  <2>6. local[r].now <= clock
    BY <2>2 DEF RInv, Timely
  <2>7. PICK more \in Nat, when \in Int : more = TokensOf(k, a) + batch[r] /\ when = local[r].now
    <3>1. TokensOf(k, a) \in Int /\ TokensOf(k, a) >= 0
      BY <2>4, StoredNumbers
    <3>2. QED BY <2>5, <3>1
  <2>8. Spent(k, a) + TokensOf(k, a) + batch[r] = Spent(k, a) + more
    <3>1. Spent(k, a) \in Int /\ TokensOf(k, a) \in Int
      BY <2>4, RationNumbers, StoredNumbers
    <3>2. QED BY <2>5, <2>7, <3>1
  <2>9. Enough(k, a, Spent(k, a) + more, when)
    BY <2>4, <2>7, <2>8
  <2>10. QED BY <1>1, <2>5, <2>6, <2>7, <2>9, EnoughIsKept
<1>4. QED BY <1>2, <1>3

\* The arithmetic of the bucket, for requests that do not meet: since its first
\* request an argument was granted no more than one full bucket and what time has
\* added to it, while the cache has room for the arguments met and nobody came
\* between the tokens and their time.  Two that refill at once may be granted more.
LEMMA RateKeptUndisturbed == Spec => []RateKept
<1>1. Init => IInv /\ CInv /\ DInv /\ TInv /\ RInv
  BY InitOrder, InitCounts, InitSpaces, InitTypes, InitRations
<1>2. (IInv /\ CInv /\ DInv /\ TInv /\ RInv) /\ [Next]_vars => (IInv /\ CInv /\ DInv /\ TInv /\ RInv)'
  BY NextOrder, NextCounts, NextSpaces, NextTypes, NextRations
<1>3. IInv /\ CInv /\ DInv /\ TInv /\ RInv => RateKept
  BY RateFollows
<1>4. QED
  BY <1>1, <1>2, <1>3, PTL DEF Spec

===============================================================================
