------------------------- MODULE MockResponsesProofs -------------------------
(* Theorems about MockResponses, for any number of goroutines and reporters,  *)
(* any rules and any requests.                                                *)
(*                                                                            *)
(* What a request is reported by is settled when it is handed over (Handed),  *)
(* the number of resources by those who have found room for one (Room), and   *)
(* the answer of a call by the rules that it has passed by (AllKnown).        *)
EXTENDS MockResponses, FiniteSetTheorems, TLAPS

Texts   == {q.text : q \in Requests}
Answers == {Nothing, "error", "mock", "request", "timeout", "recovered"}
Steps   == { "rest", "rule", "sleep", "mark", "store", "exit", "remove", "get", "create",
             "stamp", "done" }
Calls   == [pc : Steps, req : Requests \cup {Nothing}, tcs : RuleLists \cup {<<>>}, i : Nat,
            cached : BOOLEAN, list : Seq(Texts), answer : Answers]

\* The values of what the proofs are about.
TypeOK ==
    /\ rules \in RuleLists
    /\ call \in [Goroutines -> Calls]
    /\ cache \in [Resources -> Seq(Texts)]
    /\ carried \in [Texts -> Nat]
    /\ together \in BOOLEAN

\* Once a call has begun it has a request, and the rules that were in force.
Begun ==
    \A g \in Goroutines :
        call[g].pc # "rest" => call[g].req \in Requests /\ call[g].tcs \in RuleLists

-----------------------------------------------------------------------------
LEMMA PerformAnswers ==
    ASSUME NEW r, NEW q
    PROVE  Perform(r, q).answer \in Answers
BY DEF Perform, PerformCheckingFunc, DoInnerCheck, Behaviour, Answers

LEMMA TrimKeepsType ==
    ASSUME NEW S, NEW list \in Seq(S)
    PROVE  Trim(list) \in Seq(S)
BY MockAssumption DEF Trim

LEMMA InitType == Init => TypeOK /\ Begun
<1> SUFFICES ASSUME Init PROVE TypeOK /\ Begun
  OBVIOUS
<1>1. Resting \in Calls
  BY DEF Resting, Calls, Steps, Answers
<1>2. call \in [Goroutines -> Calls]
  BY <1>1 DEF Init
<1>3. QED
  <2>1. ASSUME NEW g \in Goroutines PROVE call[g].pc = "rest"
    BY DEF Init, Resting
  <2>2. TypeOK
    <3>1. rules \in RuleLists /\ together \in BOOLEAN
      BY DEF Init
    <3>2. cache \in [Resources -> Seq(Texts)]
      BY DEF Init
    <3>3. carried \in [Texts -> Nat]
      BY DEF Init, Texts
    <3>4. QED BY <1>2, <3>1, <3>2, <3>3 DEF TypeOK
  <2>3. QED BY <2>1, <2>2 DEF Begun

\* The calls for the same request under the same rules.
Same(c) == {d \in Calls : d.req = c.req /\ d.tcs = c.tcs}

\* A change of one other field, or of two, keeps a call among them.
LEMMA CallFields ==
    ASSUME NEW c \in Calls
    PROVE  /\ \A p \in Steps : [c EXCEPT !.pc = p] \in Same(c)
           /\ \A p \in Steps, n \in Nat : [c EXCEPT !.pc = p, !.i = n] \in Same(c)
           /\ \A p \in Steps : [c EXCEPT !.cached = TRUE, !.pc = p] \in Same(c)
           /\ \A p \in Steps, a \in Answers : [c EXCEPT !.answer = a, !.pc = p] \in Same(c)
           /\ \A p \in Steps, l \in Seq(Texts) : [c EXCEPT !.pc = p, !.list = l] \in Same(c)
           /\ \A p \in Steps, q \in Requests, l \in RuleLists :
                 [Resting EXCEPT !.pc = p, !.req = q, !.tcs = l, !.i = 1] \in Calls
<1>1. \A p \in Steps : [c EXCEPT !.pc = p] \in Same(c)
  BY DEF Calls, Same
<1>2. \A p \in Steps, n \in Nat : [c EXCEPT !.pc = p, !.i = n] \in Same(c)
  BY DEF Calls, Same
<1>3. \A p \in Steps : [c EXCEPT !.cached = TRUE, !.pc = p] \in Same(c)
  BY DEF Calls, Same
<1>4. \A p \in Steps, a \in Answers : [c EXCEPT !.answer = a, !.pc = p] \in Same(c)
  BY DEF Calls, Same
<1>5. \A p \in Steps, l \in Seq(Texts) : [c EXCEPT !.pc = p, !.list = l] \in Same(c)
  BY DEF Calls, Same
<1>6. \A p \in Steps, q \in Requests, l \in RuleLists :
         [Resting EXCEPT !.pc = p, !.req = q, !.tcs = l, !.i = 1] \in Calls
  <2>1. Resting \in Calls
    BY DEF Calls, Resting, Steps, Answers
  <2>2. ASSUME NEW p \in Steps, NEW q \in Requests, NEW l \in RuleLists
        PROVE  [Resting EXCEPT !.pc = p, !.req = q, !.tcs = l, !.i = 1] \in Calls
    BY <2>1, <2>2 DEF Calls
  <2>3. QED BY <2>2
<1>7. QED BY <1>1, <1>2, <1>3, <1>4, <1>5, <1>6

-----------------------------------------------------------------------------
\* A step of a call changes that call alone, which stays one that has begun.
LEMMA CallStep ==
    ASSUME TypeOK, Begun, NEW g \in Goroutines, Call(g)
    PROVE  \E d \in Calls : /\ call' = [call EXCEPT ![g] = d]
                            /\ d.req \in Requests /\ d.tcs \in RuleLists
<1> DEFINE c == call[g]
           Good(d) == d \in Calls /\ d.req \in Requests /\ d.tcs \in RuleLists
<1> SUFFICES \E d : Good(d) /\ call' = [call EXCEPT ![g] = d]
  OBVIOUS
<1>1. c \in Calls
  BY DEF TypeOK
<1>2. c.pc \in Steps /\ c.i \in Nat /\ c.answer \in Answers
  BY <1>1 DEF Calls
<1>3. c.pc # "rest" => c.req \in Requests /\ c.tcs \in RuleLists
  BY DEF Begun
<1>4. CASE getTrafficControllersFor(g)
  <2>1. PICK q \in Requests :
          call' = [call EXCEPT ![g] =
                     [Resting EXCEPT !.pc = "rule", !.req = q, !.tcs = rules, !.i = 1]]
    BY <1>4 DEF getTrafficControllersFor
  <2>2. rules \in RuleLists /\ "rule" \in Steps
    BY DEF TypeOK, Steps
  <2> DEFINE d == [Resting EXCEPT !.pc = "rule", !.req = q, !.tcs = rules, !.i = 1]
  <2>3. d \in Calls
    BY <1>1, <2>2, CallFields
  <2>4. d.req = q /\ d.tcs = rules
    BY DEF Resting
  <2>5. QED BY <2>1, <2>2, <2>3, <2>4
<1>5. ASSUME NEW p \in Steps, c.pc # "rest", call' = [call EXCEPT ![g].pc = p]
      PROVE  \E d : Good(d) /\ call' = [call EXCEPT ![g] = d]
  <2> DEFINE d == [c EXCEPT !.pc = p]
  <2>1. d \in Same(c)
    BY <1>1, CallFields
  <2>2. call' = [call EXCEPT ![g] = d]
    BY <1>5
  <2>3. QED BY <1>3, <1>5, <2>1, <2>2 DEF Same
<1>6. ASSUME c.pc # "rest", Skip(g)
      PROVE  \E d : Good(d) /\ call' = [call EXCEPT ![g] = d]
  <2> DEFINE n == c.i + 1
             d == [c EXCEPT !.pc = "rule", !.i = n]
  <2>1. d \in Same(c)
    <3>1. n \in Nat /\ "rule" \in Steps
      BY <1>2 DEF Steps
    <3>2. QED BY <1>1, <3>1, CallFields
  <2>2. call' = [call EXCEPT ![g] = d]
    BY <1>6 DEF Skip, TypeOK
  <2>3. QED BY <1>3, <1>6, <2>1, <2>2 DEF Same
<1>7. CASE Keep(g)
  <2>1. PICK p \in {"mark", "rule"} : call' = [call EXCEPT ![g].cached = TRUE, ![g].pc = p]
    BY <1>7 DEF Keep
  <2> DEFINE d == [c EXCEPT !.cached = TRUE, !.pc = p]
  <2>2. c.pc # "rest" /\ p \in Steps
    BY <1>7 DEF Keep, AtRule, Steps
  <2>3. d \in Same(c)
    BY <1>1, <2>2, CallFields
  <2>4. call' = [call EXCEPT ![g] = d]
    BY <2>1 DEF TypeOK
  <2>5. QED BY <1>3, <2>2, <2>3, <2>4 DEF Same
<1>8. CASE Check(g)
  <2>1. c.pc # "rest"
    BY <1>8 DEF Check, AtRule
  <2>2. CASE Skip(g)
    BY <1>6, <2>1, <2>2
  <2>3. CASE ~Skip(g)
    <3>1. PICK p \in {"sleep", "done"}, a \in Answers :
            call' = [call EXCEPT ![g].answer = a, ![g].pc = p]
      BY <1>8, <2>3, PerformAnswers DEF Check
    <3> DEFINE d == [c EXCEPT !.answer = a, !.pc = p]
    <3>2. d \in Same(c)
      BY <1>1, CallFields DEF Steps
    <3>3. call' = [call EXCEPT ![g] = d]
      BY <3>1 DEF TypeOK
    <3>4. QED BY <1>3, <2>1, <3>2, <3>3 DEF Same
  <2>4. QED BY <2>2, <2>3
<1>9. CASE Sleep(g)
  <2>1. c.pc # "rest" /\ (Skip(g) \/ Goes(g, "done"))
    BY <1>9 DEF Sleep
  <2>2. QED BY <1>5, <1>6, <2>1 DEF Goes, Steps
<1>10. CASE Mark(g)
  <2>1. c.pc # "rest" /\ c.req.res \in Resources
    BY <1>3, <1>10, MockAssumption DEF Mark
  <2>2. cache[c.req.res] \in Seq(Texts)
    BY <2>1 DEF TypeOK
  <2> DEFINE d == [c EXCEPT !.pc = "store", !.list = cache[c.req.res]]
  <2>3. d \in Same(c)
    BY <1>1, <2>2, CallFields DEF Steps
  <2>4. call' = [call EXCEPT ![g] = d]
    BY <1>10 DEF Mark, TypeOK
  <2>5. QED BY <1>3, <2>1, <2>3, <2>4 DEF Same
<1>11. CASE Store(g)
  <2>1. c.pc # "rest"
    BY <1>11 DEF Store
  <2> DEFINE d == [c EXCEPT !.pc = "rule", !.list = <<>>]
  <2>2. <<>> \in Seq(Texts)
    OBVIOUS
  <2>3. d \in Same(c)
    BY <1>1, <2>2, CallFields DEF Steps
  <2>4. call' = [call EXCEPT ![g] = d]
    BY <1>11 DEF Store, TypeOK
  <2>5. QED BY <1>3, <2>1, <2>3, <2>4 DEF Same
<1>12. CASE \/ Pass(g) \/ MockRspExitHandler(g) \/ RemoveResourceNode(g)
            \/ GetResourceNode(g) \/ NewResourceNode(g) \/ Stamp(g)
  <2>1. c.pc # "rest"
        /\ \E p \in {"exit", "remove", "get", "done", "create", "stamp"} : Goes(g, p)
    BY <1>12 DEF Pass, MockRspExitHandler, RemoveResourceNode, GetResourceNode,
                 NewResourceNode, Stamp
  <2>2. QED BY <1>5, <2>1 DEF Goes, Steps
<1>13. QED
  BY <1>4, <1>7, <1>8, <1>9, <1>10, <1>11, <1>12 DEF Call

(* Reports of requests: LoadOrStore gives a request to one reporter, and it   *)
(* is carried once, when that one sends.                                      *)
\* How often a list holds a text.
Times(t, list) == Cardinality({i \in DOMAIN list : list[i] = t})

Once(list) == \A i, j \in DOMAIN list : list[i] = list[j] => i = j

Apart(one, other) == \A i \in DOMAIN one, j \in DOMAIN other : one[i] # other[j]

Handed ==
    /\ report \in [Reporters -> [left : SUBSET Resources, todo : Seq(Texts), batch : Seq(Texts)]]
    /\ \A s \in Reporters : Once(report[s].batch)
    /\ \A s \in Reporters : \A i \in DOMAIN report[s].batch :
          report[s].batch[i] \in reported /\ carried[report[s].batch[i]] = 0
    /\ \A s, u \in Reporters : s # u => Apart(report[s].batch, report[u].batch)
    /\ \A t \in Texts : carried[t] <= 1 /\ (carried[t] = 1 => t \in reported)

LEMMA TimesIs ==
    ASSUME NEW list \in Seq(Texts), Once(list), NEW t
    PROVE  Times(t, list) = IF \E i \in DOMAIN list : list[i] = t THEN 1 ELSE 0
<1> DEFINE S == {i \in DOMAIN list : list[i] = t}
<1>1. ASSUME NEW i \in DOMAIN list, list[i] = t PROVE Cardinality(S) = 1
  <2>1. S = {i}
    BY <1>1 DEF Once
  <2>2. QED BY <2>1, FS_Singleton
<1>2. ASSUME ~ \E i \in DOMAIN list : list[i] = t PROVE Cardinality(S) = 0
  <2>1. S = {}
    BY <1>2
  <2>2. QED BY <2>1, FS_EmptySet
<1>3. QED BY <1>1, <1>2 DEF Times

LEMMA TypeStep == TypeOK /\ Begun /\ Handed /\ [Next]_vars => TypeOK' /\ Begun'
<1> SUFFICES ASSUME TypeOK, Begun, Handed, [Next]_vars PROVE TypeOK' /\ Begun'
  OBVIOUS
<1>1. CASE UNCHANGED <<rules, call, cache, carried, together>>
  BY <1>1 DEF TypeOK, Begun
<1>2. ASSUME NEW g \in Goroutines, Call(g)
      PROVE  TypeOK' /\ Begun'
  <2>1. PICK d \in Calls : /\ call' = [call EXCEPT ![g] = d]
                           /\ d.req \in Requests /\ d.tcs \in RuleLists
    BY <1>2, CallStep
  <2>2. (call \in [Goroutines -> Calls])' /\ Begun'
    BY <2>1 DEF TypeOK, Begun
  <2>3. (cache \in [Resources -> Seq(Texts)])'
    <3>1. CASE Store(g)
      <4> DEFINE list == Append(call[g].list, call[g].req.text)
      <4>1. call[g].list \in Seq(Texts) /\ call[g].req \in Requests
        BY <3>1 DEF Store, TypeOK, Calls, Begun
      <4>2. list \in Seq(Texts)
        BY <4>1 DEF Texts
      <4>3. Trim(list) \in Seq(Texts)
        BY <4>2, TrimKeepsType
      <4>4. QED BY <3>1, <4>3 DEF Store, TypeOK
    <3>2. CASE ~Store(g)
      BY <1>2, <3>2 DEF Call, getTrafficControllersFor, Keep, Check, Sleep, Pass, Mark,
         MockRspExitHandler, RemoveResourceNode, GetResourceNode, NewResourceNode, Stamp,
         held, TypeOK
    <3>3. QED BY <3>1, <3>2
  <2>4. rules' = rules /\ carried' = carried /\ together' \in BOOLEAN
    BY <1>2 DEF Call, getTrafficControllersFor, Keep, Check, Sleep, Pass, Mark, Store,
       MockRspExitHandler, RemoveResourceNode, GetResourceNode, NewResourceNode, Stamp,
       reports, kept, TypeOK
  <2>5. QED BY <2>2, <2>3, <2>4 DEF TypeOK
<1>3. CASE LoadRules
  BY <1>3 DEF LoadRules, held, reports, kept, TypeOK, Begun
<1>4. ASSUME NEW s \in Reporters, SendRequest(s)
      PROVE  TypeOK' /\ Begun'
  <2>1. /\ UNCHANGED <<rules, call, cache, together>>
        /\ carried' = [t \in DOMAIN carried |-> carried[t] + Times(t, report[s].batch)]
    BY <1>4 DEF SendRequest, held, kept, Times
  <2>2. \A t \in Texts : Times(t, report[s].batch) \in Nat
    BY TimesIs DEF Handed
  <2>3. QED BY <2>1, <2>2 DEF TypeOK, Begun
<1>5. QED
  <2>1. CASE \/ \E s \in Reporters : NeedReportRequest(s) \/ NextResource(s) \/ LoadOrStore(s)
             \/ \E r \in Resources : Age(r)
             \/ SendRsp \/ Posted \/ PostFails
             \/ UNCHANGED vars
    BY <1>1, <2>1 DEF NeedReportRequest, NextResource, Visit, LoadOrStore, Age, SendRsp, Posted, PostFails, held,
       reports, kept, vars
  <2>2. QED BY <1>2, <1>3, <1>4, <2>1 DEF Next

-----------------------------------------------------------------------------
\* What a walk over the resources does before it comes to a list.
LEMMA VisitHanded ==
    ASSUME TypeOK, Handed, NEW s \in Reporters, NEW left \in SUBSET Resources, Visit(s, left)
    PROVE  Handed'
<1>1. PICK r \in left : report' = [report EXCEPT ![s].left = left \ {r}, ![s].todo = cache[r]]
  BY DEF Visit
<1>2. cache[r] \in Seq(Texts) /\ reported' = reported /\ carried' = carried
  BY DEF Visit, TypeOK
<1>3. report' \in [Reporters -> [left : SUBSET Resources, todo : Seq(Texts), batch : Seq(Texts)]]
  <2> DEFINE n == [report[s] EXCEPT !.left = left \ {r}, !.todo = cache[r]]
  <2>1. n \in [left : SUBSET Resources, todo : Seq(Texts), batch : Seq(Texts)]
    BY <1>2 DEF Handed
  <2>2. report' = [report EXCEPT ![s] = n]
    BY <1>1 DEF Handed
  <2> HIDE DEF n
  <2>3. QED BY <2>1, <2>2 DEF Handed
<1>4. \A u \in Reporters : report'[u].batch = report[u].batch
  BY <1>1 DEF Handed
<1>5. QED BY <1>2, <1>3, <1>4 DEF Handed, Once, Apart

LEMMA HandedStep == TypeOK /\ Handed /\ [Next]_vars => Handed'
<1> SUFFICES ASSUME TypeOK, Handed, [Next]_vars PROVE Handed'
  OBVIOUS
<1> DEFINE Reports == [left : SUBSET Resources, todo : Seq(Texts), batch : Seq(Texts)]
<1>1. CASE UNCHANGED reports
  BY <1>1 DEF reports, Handed, Once, Apart
<1>2. ASSUME NEW s \in Reporters, NeedReportRequest(s) \/ NextResource(s)
      PROVE  Handed'
  <2>1. report[s].left \in SUBSET Resources /\ {r \in Resources : cache[r] # <<>>} \in SUBSET Resources
    BY DEF Handed
  <2>2. QED BY <1>2, <2>1, VisitHanded DEF NeedReportRequest, NextResource
<1>3. ASSUME NEW s \in Reporters, LoadOrStore(s)
      PROVE  Handed'
  <2> DEFINE t == Head(report[s].todo)
             b == IF t \in reported THEN report[s].batch ELSE Append(report[s].batch, t)
             n == [report[s] EXCEPT !.todo = Tail(@), !.batch = b]
  <2>0. report[s] \in Reports /\ report[s].todo # <<>>
    BY <1>3 DEF LoadOrStore, Handed
  <2>1. t \in Texts /\ Tail(report[s].todo) \in Seq(Texts) /\ b \in Seq(Texts)
    BY <2>0
  <2>2. /\ reported' = reported \cup {t} /\ carried' = carried
        /\ report' = [report EXCEPT ![s] = n]
    <3>1. report' = [report EXCEPT ![s].todo = Tail(@),
                                   ![s].batch = IF t \in reported THEN @ ELSE Append(@, t)]
      BY <1>3 DEF LoadOrStore
    <3>2. QED BY <1>3, <3>1 DEF LoadOrStore, Reported, Handed
  <2>3. n \in Reports /\ n.batch = b
    BY <2>0, <2>1
  <2>4. report' \in [Reporters -> Reports] /\ report'[s].batch = b
        /\ \A u \in Reporters : u # s => report'[u] = report[u]
    <3> HIDE DEF n
    <3>1. QED BY <2>2, <2>3 DEF Handed
  <2>5. CASE t \in reported
    BY <2>2, <2>4, <2>5 DEF Handed, Once, Apart
  <2>6. CASE t \notin reported
    <3>1. carried[t] = 0 /\ \A u \in Reporters : \A i \in DOMAIN report[u].batch : report[u].batch[i] # t
      BY <2>1, <2>6 DEF Handed, TypeOK
    <3>2. /\ DOMAIN b = DOMAIN report[s].batch \cup {Len(report[s].batch) + 1}
          /\ Len(report[s].batch) + 1 \notin DOMAIN report[s].batch
          /\ b[Len(report[s].batch) + 1] = t
          /\ \A i \in DOMAIN report[s].batch : b[i] = report[s].batch[i]
      BY <2>0, <2>1, <2>6
    <3>3. \A i \in DOMAIN b : (b[i] = t /\ i = Len(report[s].batch) + 1)
             \/ (i \in DOMAIN report[s].batch /\ b[i] = report[s].batch[i])
      BY <3>2
    <3> HIDE DEF b, t
    <3>4. \A u \in Reporters : Once(report'[u].batch)
      <4>1. Once(report[s].batch) /\ \A i \in DOMAIN report[s].batch : report[s].batch[i] # t
        BY <3>1 DEF Handed
      <4>2. Once(b)
        BY <3>2, <3>3, <4>1 DEF Once
      <4>3. QED BY <2>4, <4>2 DEF Handed
    <3>5. \A u \in Reporters : \A i \in DOMAIN report'[u].batch :
             report'[u].batch[i] \in reported' /\ carried'[report'[u].batch[i]] = 0
      BY <2>2, <2>4, <3>1, <3>3 DEF Handed
    <3>6. \A v, u \in Reporters : v # u => Apart(report'[v].batch, report'[u].batch)
      <4>1. ASSUME NEW u \in Reporters, u # s PROVE Apart(b, report[u].batch)
        <5>1. Apart(report[s].batch, report[u].batch)
          BY <4>1 DEF Handed
        <5>2. QED BY <3>1, <3>3, <5>1 DEF Apart
      <4>2. ASSUME NEW u \in Reporters, u # s PROVE Apart(report[u].batch, b)
        BY <4>1, <4>2 DEF Apart
      <4>3. QED BY <2>4, <4>1, <4>2 DEF Handed
    <3>7. \A x \in Texts : carried'[x] <= 1 /\ (carried'[x] = 1 => x \in reported')
      BY <2>2 DEF Handed
    <3>8. QED BY <2>4, <3>4, <3>5, <3>6, <3>7 DEF Handed
  <2>7. QED BY <2>5, <2>6
<1>4. ASSUME NEW s \in Reporters, SendRequest(s)
      PROVE  Handed'
  <2> DEFINE b == report[s].batch
  <2>1. /\ report' = [report EXCEPT ![s] = NoReport] /\ reported' = reported
        /\ carried' = [t \in DOMAIN carried |-> carried[t] + Times(t, b)]
    BY <1>4 DEF SendRequest, Times
  <2>2. report' \in [Reporters -> Reports]
    BY <2>1 DEF Handed, NoReport
  <2>3. report'[s].batch = <<>> /\ \A u \in Reporters : u # s => report'[u].batch = report[u].batch
    BY <2>1 DEF Handed, NoReport
  <2>4. b \in Seq(Texts) /\ Once(b)
    BY DEF Handed
  <2>5. \A t \in Texts : carried'[t] = carried[t] + IF \E i \in DOMAIN b : b[i] = t THEN 1 ELSE 0
    BY <2>1, <2>4, TimesIs DEF TypeOK
  <2>6. \A t \in Texts : carried'[t] = IF \E i \in DOMAIN b : b[i] = t THEN 1 ELSE carried[t]
    BY <2>5 DEF TypeOK, Handed
  <2>7. \A u \in Reporters : Once(report'[u].batch)
    <3>1. Once(<<>>)
      BY DEF Once
    <3>2. QED BY <2>3, <3>1 DEF Handed
  <2>8. ASSUME NEW u \in Reporters, NEW i \in DOMAIN report'[u].batch
        PROVE  report'[u].batch[i] \in reported' /\ carried'[report'[u].batch[i]] = 0
    <3>1. u # s /\ i \in DOMAIN report[u].batch /\ report'[u].batch[i] = report[u].batch[i]
      BY <2>3, <2>8
    <3>2. report[u].batch[i] \in Texts /\ \A j \in DOMAIN b : b[j] # report[u].batch[i]
      BY <3>1 DEF Handed, Apart
    <3>3. QED BY <2>1, <2>6, <3>1, <3>2 DEF Handed
  <2>9. \A v, u \in Reporters : v # u => Apart(report'[v].batch, report'[u].batch)
    <3>1. \A list : Apart(<<>>, list) /\ Apart(list, <<>>)
      BY DEF Apart
    <3>2. QED BY <2>3, <3>1 DEF Handed
  <2>10. \A t \in Texts : carried'[t] <= 1 /\ (carried'[t] = 1 => t \in reported')
    BY <2>1, <2>6 DEF Handed, TypeOK
  <2>11. QED BY <2>2, <2>7, <2>8, <2>9, <2>10 DEF Handed
<1>5. QED
  <2>1. CASE \/ LoadRules \/ \E g \in Goroutines : Call(g)
             \/ \E r \in Resources : Age(r)
             \/ SendRsp \/ Posted \/ PostFails
             \/ UNCHANGED vars
    <3>1. UNCHANGED reports
      BY <2>1 DEF LoadRules, Call, getTrafficControllersFor, Keep, Check, Sleep, Pass, Mark,
         Store, MockRspExitHandler, RemoveResourceNode, GetResourceNode, NewResourceNode,
         Stamp, Age, SendRsp, Posted, PostFails, vars, reports
    <3>2. QED BY <1>1, <3>1
  <2>2. QED BY <1>2, <1>3, <1>4, <2>1 DEF Next

LEMMA InitHanded == Init => Handed
BY DEF Init, Handed, Texts, NoReport, Once, Apart

-----------------------------------------------------------------------------
(* Responses kept: everyone about to create a node found room for one.        *)
Creators == {g \in Goroutines : call[g].pc = "create"}
Kept     == Cardinality(DOMAIN nodes)

Room ==
    /\ IsFiniteSet(DOMAIN nodes)
    /\ Kept + Cardinality(Creators) < DefaultMaxResourceAmount + Cardinality(Goroutines)
    /\ ~together => Kept + Cardinality(Creators) <= DefaultMaxResourceAmount

LEMMA CreatorsFinite ==
    /\ IsFiniteSet(Creators) /\ Cardinality(Creators) \in Nat
    /\ Cardinality(Creators) <= Cardinality(Goroutines)
    /\ Cardinality(Goroutines) \in Nat /\ Cardinality(Goroutines) # 0
BY MockAssumption, FS_Subset, FS_CardinalityType, FS_EmptySet DEF Creators

LEMMA InitRoom == Init => Room
<1> SUFFICES ASSUME Init PROVE Room
  OBVIOUS
<1>1. Creators = {}
  BY DEF Init, Creators, Resting
<1>2. DOMAIN nodes = {}
  BY DEF Init
<1>3. Kept = 0 /\ Cardinality(Creators) = 0 /\ IsFiniteSet(DOMAIN nodes)
  BY <1>1, <1>2, FS_EmptySet DEF Kept
<1>4. QED BY <1>3, CreatorsFinite, MockAssumption DEF Room

LEMMA RoomStep == TypeOK /\ Begun /\ Room /\ [Next]_vars => Room'
<1> SUFFICES ASSUME TypeOK, Begun, Room, [Next]_vars PROVE Room'
  OBVIOUS
<1>0. /\ IsFiniteSet(DOMAIN nodes) /\ Kept \in Nat
      /\ DefaultMaxResourceAmount \in Nat
  BY FS_CardinalityType, MockAssumption DEF Room, Kept
<1>1. CASE UNCHANGED <<call, nodes, together>>
  BY <1>1 DEF Room, Kept, Creators
<1>2. ASSUME NEW g \in Goroutines, RemoveResourceNode(g)
      PROVE  Room'
  <2>1. nodes' = Without(Res(g)) /\ together' = together
    BY <1>2 DEF RemoveResourceNode
  <2>2. Creators' = Creators
    <3>1. call' = [call EXCEPT ![g].pc = "get"] /\ call[g].pc = "remove"
      BY <1>2 DEF RemoveResourceNode, Goes
    <3>2. QED BY <3>1 DEF Creators, TypeOK, Calls
  <2>3. DOMAIN nodes' \subseteq DOMAIN nodes
    BY <2>1 DEF Without
  <2>4. IsFiniteSet(DOMAIN nodes') /\ Kept' <= Kept /\ Kept' \in Nat
    BY <1>0, <2>3, FS_Subset, FS_CardinalityType DEF Kept
  <2>5. QED BY <1>0, <2>1, <2>2, <2>4, CreatorsFinite DEF Room
<1>3. ASSUME NEW g \in Goroutines, GetResourceNode(g)
      PROVE  Room'
  <2>1. nodes' = nodes /\ Kept' = Kept
    BY <1>3 DEF GetResourceNode, Kept
  <2>2. together' = (together \/ \E h \in Goroutines \ {g} : call[h].pc = "create")
    BY <1>3 DEF GetResourceNode
  <2>3. call[g].pc = "get"
    BY <1>3 DEF GetResourceNode
  <2>4. CASE call' = [call EXCEPT ![g].pc = "done"]
    <3>1. Creators' = Creators
      BY <2>3, <2>4 DEF Creators, TypeOK, Calls
    <3>2. QED BY <2>1, <2>2, <3>1 DEF Room, TypeOK
  <2>5. CASE Kept < DefaultMaxResourceAmount /\ call' = [call EXCEPT ![g].pc = "create"]
    <3>1. Creators' = Creators \cup {g} /\ g \notin Creators
      BY <2>3, <2>5 DEF Creators, TypeOK, Calls
    <3>2. Cardinality(Creators') = Cardinality(Creators) + 1
      BY <3>1, CreatorsFinite, FS_AddElement
    <3>3. /\ Cardinality(Creators') <= Cardinality(Goroutines)
          /\ Cardinality(Creators') \in Nat /\ Cardinality(Goroutines) \in Nat
      BY MockAssumption, FS_Subset, FS_CardinalityType DEF Creators
    <3>4. ~together' => Cardinality(Creators') = 1
      <4>1. ASSUME ~together' PROVE Creators = {}
        BY <2>2, <2>3, <4>1 DEF Creators
      <4>2. QED BY <3>2, <4>1, FS_EmptySet
    <3>5. QED BY <1>0, <2>1, <2>5, <3>3, <3>4 DEF Room
  <2>6. QED
    BY <1>3, <2>4, <2>5 DEF GetResourceNode, Goes, MayAdd, Kept
<1>4. ASSUME NEW g \in Goroutines, NewResourceNode(g)
      PROVE  Room'
  <2>1. /\ DOMAIN nodes' = DOMAIN nodes \cup {Res(g)} /\ together' = together
        /\ call[g].pc = "create" /\ call' = [call EXCEPT ![g].pc = "stamp"]
    BY <1>4 DEF NewResourceNode, Goes
  <2>2. Creators' = Creators \ {g} /\ g \in Creators
    BY <2>1 DEF Creators, TypeOK, Calls
  <2>3. Cardinality(Creators') = Cardinality(Creators) - 1
    BY <2>2, CreatorsFinite, FS_RemoveElement
  <2>4. IsFiniteSet(DOMAIN nodes') /\ Kept' <= Kept + 1 /\ Kept' \in Nat
    <3>1. /\ IsFiniteSet(DOMAIN nodes \cup {Res(g)})
          /\ \/ Cardinality(DOMAIN nodes \cup {Res(g)}) = Cardinality(DOMAIN nodes)
             \/ Cardinality(DOMAIN nodes \cup {Res(g)}) = Cardinality(DOMAIN nodes) + 1
      BY <1>0, FS_AddElement
    <3>2. QED BY <1>0, <2>1, <3>1 DEF Kept
  <2>5. QED BY <1>0, <2>1, <2>3, <2>4, CreatorsFinite DEF Room
<1>5. ASSUME NEW g \in Goroutines, Call(g),
             ~RemoveResourceNode(g), ~GetResourceNode(g), ~NewResourceNode(g)
      PROVE  Room'
  <2>1. nodes' = nodes /\ together' = together
    BY <1>5 DEF Call, getTrafficControllersFor, Keep, Check, Sleep, Pass, Mark, Store,
       MockRspExitHandler, Stamp, kept
  <2>2. call[g].pc # "create" /\ call'[g].pc # "create"
    <3>1. call[g].pc # "create" /\ \E p \in Steps \ {"create"} : call'[g].pc = p
      <4>1. call[g] \in Calls
        BY DEF TypeOK
      <4>2. CASE getTrafficControllersFor(g)
        BY <4>1, <4>2 DEF getTrafficControllersFor, Resting, TypeOK, Steps
      <4>3. CASE Keep(g) \/ Check(g) \/ Sleep(g)
        BY <4>1, <4>3 DEF Keep, Check, Sleep, AtRule, Skip, Goes, TypeOK, Calls, Steps
      <4>4. CASE Mark(g) \/ Store(g)
        BY <4>1, <4>4 DEF Mark, Store, TypeOK, Calls, Steps
      <4>5. CASE Pass(g) \/ MockRspExitHandler(g) \/ Stamp(g)
        BY <4>1, <4>5 DEF Pass, MockRspExitHandler, Stamp, Goes, TypeOK, Calls, Steps
      <4>6. QED BY <1>5, <4>2, <4>3, <4>4, <4>5 DEF Call
    <3>2. QED BY <3>1
  <2>3. \A h \in Goroutines : h # g => call'[h] = call[h]
    BY <1>5, CallStep DEF TypeOK
  <2>4. Creators' = Creators
    BY <2>2, <2>3 DEF Creators
  <2>5. QED BY <2>1, <2>4 DEF Room, Kept
<1>6. QED
  <2>1. CASE \/ LoadRules
             \/ \E s \in Reporters : 
                  NeedReportRequest(s) \/ NextResource(s) \/ LoadOrStore(s) \/ SendRequest(s)
             \/ \E r \in Resources : Age(r)
             \/ SendRsp \/ Posted \/ PostFails
             \/ UNCHANGED vars
    BY <1>1, <2>1 DEF LoadRules, NeedReportRequest, NextResource, Visit, LoadOrStore, SendRequest, Age, SendRsp,
       Posted, PostFails, kept, vars
  <2>2. QED BY <1>2, <1>3, <1>4, <1>5, <2>1 DEF Next

-----------------------------------------------------------------------------
(* Answers: no rule before the one a call is at answers its request.          *)
Searching(c) == \A j \in Answering(c.tcs, c.req) : c.i <= j

\* What a call knows of its answer, step by step.
Known(c) ==
    /\ c.pc \in {"rule", "mark", "store"} => c.answer = Nothing /\ c.i >= 1 /\ Searching(c)
    /\ c.pc = "sleep" =>
         /\ c.i >= 1 /\ Searching(c)
         /\ IF c.answer = Nothing THEN c.i \notin Answering(c.tcs, c.req)
            ELSE /\ c.i \in Answering(c.tcs, c.req)
                 /\ c.answer = Says(c.tcs[c.i], c.req)
    /\ c.pc \notin {"rest", "rule", "sleep", "mark", "store"} =>
         LET S == Answering(c.tcs, c.req)
         IN c.answer = IF S = {} THEN Nothing ELSE Says(c.tcs[Least(S)], c.req)

AllKnown == \A g \in Goroutines : Known(call[g])

LEMMA LeastIs ==
    ASSUME NEW S \in SUBSET Nat, NEW i \in S, \A j \in S : i <= j
    PROVE  Least(S) = i
<1>1. S # {} /\ \A k \in S : (\A j \in S : k <= j) => k = i
  OBVIOUS
<1>2. QED BY <1>1 DEF Least

\* Rules are numbered, and one that answers is allowed, concerned and has an
\* answer.
LEMMA AnsweringIs ==
    ASSUME NEW l \in RuleLists, NEW q \in Requests
    PROVE  /\ Answering(l, q) \subseteq 1 .. Len(l) /\ Len(l) \in Nat
           /\ \A i \in 1 .. Len(l) :
                /\ Perform(l[i], q).answer = Says(l[i], q)
                /\ i \in Answering(l, q) <=> /\ FromAllowed(l[i], q) /\ MockCheck(l[i], q)
                                             /\ Perform(l[i], q).answer # Nothing
<1>1. l \in RuleLists /\ Len(l) \in Nat /\ DOMAIN l = 1 .. Len(l)
  BY MockAssumption
<1>2. ASSUME NEW r PROVE Perform(r, q).answer = Says(r, q)
  BY DEF Perform, PerformCheckingFunc, DoInnerCheck, Says
<1>3. ASSUME NEW r PROVE MockCheck(r, q) <=> IsFor(r, q)
  BY MockAssumption DEF MockCheck, HeadersCheck, mockReplaceCheck, Concerns, Named, IsFor
<1>4. QED BY <1>1, <1>2, <1>3 DEF Answering

\* A rule that does not answer is passed by, at once or after a sleep.
LEMMA SkipKnown ==
    ASSUME TypeOK, Begun, NEW g \in Goroutines, Skip(g), call[g].pc # "rest",
           call[g].answer = Nothing, call[g].i >= 1, Searching(call[g]),
           call[g].i \notin Answering(call[g].tcs, call[g].req)
    PROVE  Known(call'[g])
<1> DEFINE c == call[g]  d == call'[g]
<1>1. c \in Calls /\ c.tcs \in RuleLists /\ c.req \in Requests
  BY DEF TypeOK, Begun
<1>2. /\ d.pc = "rule" /\ d.i = c.i + 1 /\ d.answer = c.answer
      /\ d.tcs = c.tcs /\ d.req = c.req
  BY <1>1 DEF Skip, TypeOK, Calls
<1>3. c.i \in Nat
  BY <1>1 DEF Calls
<1>4. Answering(c.tcs, c.req) \subseteq Nat
  BY <1>1, AnsweringIs
<1>5. Searching(d)
  BY <1>2, <1>3, <1>4 DEF Searching
<1>6. QED BY <1>2, <1>3, <1>5 DEF Known

LEMMA KnownStep == TypeOK /\ Begun /\ AllKnown /\ [Next]_vars => AllKnown'
<1> SUFFICES ASSUME TypeOK, Begun, AllKnown, [Next]_vars PROVE AllKnown'
  OBVIOUS
<1>1. CASE UNCHANGED call
  BY <1>1 DEF AllKnown
<1>2. ASSUME NEW g \in Goroutines, Call(g)
      PROVE  AllKnown'
  <2> DEFINE c == call[g]  d == call'[g]
  <2>1. ASSUME NEW h \in Goroutines, h # g PROVE call'[h] = call[h]
    BY <1>2, <2>1, CallStep DEF TypeOK
  <2>2. c \in Calls /\ c.i \in Nat /\ Known(c)
    BY DEF TypeOK, AllKnown, Calls
  <2>3. c.pc # "rest" => c.tcs \in RuleLists /\ c.req \in Requests
    BY DEF Begun
  <2>4. Known(d)
    <3>1. CASE getTrafficControllersFor(g)
      <4>1. PICK q \in Requests :
              call' = [call EXCEPT ![g] =
                         [Resting EXCEPT !.pc = "rule", !.req = q, !.tcs = rules, !.i = 1]]
        BY <3>1 DEF getTrafficControllersFor
      <4>2. d.pc = "rule" /\ d.i = 1 /\ d.tcs \in RuleLists /\ d.answer = Nothing
            /\ d.req \in Requests
        BY <4>1 DEF TypeOK, Resting
      <4>3. Searching(d)
        BY <4>2, AnsweringIs DEF Searching
      <4>4. QED BY <4>2, <4>3 DEF Known
    <3>2. CASE Keep(g) \/ Mark(g) \/ Store(g)
      <4>1. /\ c.pc \in {"rule", "mark", "store"} /\ d.pc \in {"rule", "mark", "store"}
            /\ d.i = c.i /\ d.answer = c.answer /\ d.tcs = c.tcs /\ d.req = c.req
        BY <2>2, <3>2 DEF Keep, Mark, Store, AtRule, TypeOK, Calls
      <4>2. QED BY <2>2, <4>1 DEF Known, Searching
    <3>3. CASE Check(g)
      <4> DEFINE r == c.tcs[c.i]  q == c.req
      <4>1. c.pc = "rule" /\ c.i <= Len(c.tcs) /\ c.tcs \in RuleLists /\ q \in Requests
        BY <2>3, <3>3 DEF Check, AtRule, RulesSeen
      <4>2. c.answer = Nothing /\ c.i >= 1 /\ Searching(c)
        BY <2>2, <4>1 DEF Known
      <4>3. /\ c.i \in Answering(c.tcs, q) <=> /\ FromAllowed(r, q) /\ MockCheck(r, q)
                                               /\ Perform(r, q).answer # Nothing
            /\ Perform(r, q).answer = Says(r, q)
        BY <2>2, <4>1, <4>2, AnsweringIs
      <4>4. CASE c.i \notin Answering(c.tcs, q) /\ Skip(g)
        BY <4>1, <4>2, <4>4, SkipKnown
      <4>5. ASSUME FromAllowed(r, q), MockCheck(r, q),
                   call' = [call EXCEPT ![g].answer = Perform(r, q).answer,
                                        ![g].pc = IF Perform(r, q).sleeps THEN "sleep" ELSE "done"],
                   Perform(r, q).answer = Nothing => Perform(r, q).sleeps
            PROVE  Known(d)
        <5> DEFINE a == Perform(r, q).answer
        <5>1. /\ d.pc = (IF Perform(r, q).sleeps THEN "sleep" ELSE "done")
              /\ d.answer = a
              /\ d.tcs = c.tcs /\ d.req = c.req /\ d.i = c.i
          BY <2>2, <4>5 DEF TypeOK, Calls
        <5>2. Searching(d)
          BY <4>2, <5>1 DEF Searching
        <5>3. CASE d.pc = "sleep"
          BY <4>2, <4>3, <4>5, <5>1, <5>2, <5>3 DEF Known
        <5>4. CASE d.pc # "sleep"
          <6>1. d.pc = "done" /\ c.i \in Answering(c.tcs, q)
            BY <4>3, <4>5, <5>1, <5>4
          <6>2. Least(Answering(c.tcs, q)) = c.i
            BY <4>1, <4>2, <6>1, AnsweringIs, LeastIs DEF Searching
          <6>3. QED BY <4>3, <5>1, <6>1, <6>2 DEF Known
        <5>5. QED BY <5>3, <5>4
      <4>6. QED BY <3>3, <4>3, <4>4, <4>5 DEF Check, RulesSeen
    <3>4. CASE Sleep(g)
      <4>1. c.pc = "sleep" /\ c.tcs \in RuleLists /\ c.req \in Requests
        BY <2>3, <3>4 DEF Sleep
      <4>2. CASE c.answer = Nothing
        BY <2>2, <3>4, <4>1, <4>2, SkipKnown DEF Sleep, Known
      <4>3. CASE c.answer # Nothing
        <5>1. d.pc = "done" /\ d.tcs = c.tcs /\ d.req = c.req /\ d.answer = c.answer
          BY <2>2, <3>4, <4>3 DEF Sleep, Goes, TypeOK, Calls
        <5>2. /\ c.i \in Answering(c.tcs, c.req) /\ Searching(c)
              /\ c.answer = Says(c.tcs[c.i], c.req)
          BY <2>2, <4>1, <4>3 DEF Known
        <5>3. Least(Answering(c.tcs, c.req)) = c.i
          BY <4>1, <5>2, AnsweringIs, LeastIs DEF Searching
        <5>4. QED BY <5>1, <5>2, <5>3 DEF Known
      <4>4. QED BY <4>2, <4>3
    <3>5. CASE Pass(g)
      <4>1. c.pc = "rule" /\ c.i > Len(c.tcs) /\ c.tcs \in RuleLists /\ c.req \in Requests
        BY <2>3, <3>5 DEF Pass, RulesSeen
      <4>2. c.answer = Nothing /\ Searching(c)
        BY <2>2, <4>1 DEF Known
      <4>3. Answering(c.tcs, c.req) = {}
        BY <2>2, <4>1, <4>2, AnsweringIs DEF Searching
      <4>4. d.pc = "exit" /\ d.tcs = c.tcs /\ d.req = c.req /\ d.answer = c.answer
        BY <2>2, <3>5 DEF Pass, Goes, TypeOK, Calls
      <4>5. QED BY <4>2, <4>3, <4>4 DEF Known
    <3>6. CASE \/ MockRspExitHandler(g) \/ RemoveResourceNode(g) \/ GetResourceNode(g)
               \/ NewResourceNode(g) \/ Stamp(g)
      <4>1. /\ c.pc \in {"exit", "remove", "get", "create", "stamp"}
            /\ d.pc \in {"remove", "get", "create", "stamp", "done"}
            /\ d.answer = c.answer /\ d.tcs = c.tcs /\ d.req = c.req
        BY <2>2, <3>6 DEF MockRspExitHandler, RemoveResourceNode, GetResourceNode,
           NewResourceNode, Stamp, Goes, TypeOK, Calls
      <4>2. QED BY <2>2, <4>1 DEF Known
    <3>7. QED BY <1>2, <3>1, <3>2, <3>3, <3>4, <3>5, <3>6 DEF Call
  <2>5. QED BY <2>1, <2>4 DEF AllKnown
<1>3. QED
  <2>1. CASE \/ LoadRules
             \/ \E s \in Reporters : 
                  NeedReportRequest(s) \/ NextResource(s) \/ LoadOrStore(s) \/ SendRequest(s)
             \/ \E r \in Resources : Age(r)
             \/ SendRsp \/ Posted \/ PostFails
             \/ UNCHANGED vars
    BY <1>1, <2>1 DEF LoadRules, NeedReportRequest, NextResource, Visit, LoadOrStore, SendRequest, Age, SendRsp,
       Posted, PostFails, vars
  <2>2. QED BY <1>2, <2>1 DEF Next

-----------------------------------------------------------------------------
IInv == TypeOK /\ Begun /\ Handed /\ Room /\ AllKnown

\* The parts above hold together in every state.
LEMMA IInvAlways == Spec => []IInv
<1>1. Init => IInv
  <2>1. Init => AllKnown
    BY DEF Init, AllKnown, Known, Resting
  <2>2. QED BY <2>1, InitType, InitHanded, InitRoom DEF IInv
<1>2. IInv /\ [Next]_vars => IInv'
  BY TypeStep, HandedStep, RoomStep, KnownStep DEF IInv
<1>3. QED BY <1>1, <1>2, PTL DEF Spec

\* ReportedOnce: the sending timer and a fetchRequest command that walk over the
\* same lists never report a request twice.
THEOREM RequestsReportedOnce == Spec => []ReportedOnce
<1>1. IInv => ReportedOnce
  BY DEF IInv, TypeOK, Handed, ReportedOnce
<1>2. QED BY <1>1, IInvAlways, PTL

\* NodesBounded: the responses kept exceed the limit by fewer than there are
\* goroutines, and only when some of them found room at the same time.
THEOREM NodesStayBounded == Spec => []NodesBounded
<1>1. IInv => NodesBounded
  <2> SUFFICES ASSUME IInv PROVE NodesBounded
    OBVIOUS
  <2>1. Kept \in Nat
    BY FS_CardinalityType DEF IInv, Room, Kept
  <2>2. QED
    BY <2>1, CreatorsFinite, MockAssumption DEF IInv, Room, Kept, TypeOK, NodesBounded
<1>2. QED BY <1>1, IInvAlways, PTL

\* AnsweredByFirst: a request gets the answer of the first rule that has one,
\* among the rules in force when its check began.
THEOREM FirstRuleAnswers == Spec => []AnsweredByFirst
<1>1. IInv => AnsweredByFirst
  BY DEF IInv, AllKnown, Known, AnsweredByFirst
<1>2. QED BY <1>1, IInvAlways, PTL

=============================================================================
