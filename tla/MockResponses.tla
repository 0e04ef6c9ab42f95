---------------------------- MODULE MockResponses ----------------------------
(* The mock slot: which rule answers a request in place of the service, and  *)
(* what is kept of requests and of responses to show them on the dashboard.  *)
(* A rule list is the one in force when the check begins; RuleManager says    *)
(* how it got there.                                                         *)
EXTENDS Integers, FiniteSets, SequencesExt

CONSTANTS
    Goroutines,         \* requests that run at the same time
    Resources,
    Requests,           \* what a goroutine may ask for
    RuleLists,          \* the lists of mock rules that may be in force
    Pattern(_, _, _),   \* does a wanted string match a given one, by prefix, by
                        \* suffix, as a part, or as a regular expression (as a part,
                        \* when it does not compile)?
    OneResourceLimit,   \* requests kept for one resource
    DefaultMaxResourceAmount,   \* resources of which a response is kept
    MaxCalls, MaxUpdates, MaxAges, MaxFailures      \* bounds

\* What the fields of a rule may hold that decide when it answers.
IsRule(r) ==
    /\ r.hold \in BOOLEAN /\ r.op \in {"and", "or"} /\ r.strategy \in {"func", "args"}
    /\ r.behaviour \in { "nothing", "panic", "mock", "waiting", "waitingThenPanic",
                         "waitingThenMock" }

ASSUME MockAssumption ==
    /\ IsFiniteSet(Goroutines) /\ Goroutines # {}
    /\ OneResourceLimit \in Nat \ {0} /\ DefaultMaxResourceAmount \in Nat \ {0}
    /\ \A q \in Requests : q.res \in Resources /\ q.class \in {"micro", "web", "common"}
    /\ \A l \in RuleLists :
          /\ Len(l) \in Nat /\ DOMAIN l = 1 .. Len(l)
          /\ \A i \in DOMAIN l : IsRule(l[i])

VARIABLES
    rules,              \* the rules in force
    call,               \* what each goroutine is doing
    seen,               \* requestHashMap
    cache,              \* cacheRequestMap
    reported,           \* reportedRequestHashMap
    report,             \* what a report of requests has gathered
    carried,            \* history: how many reports carried a request
    nodes,              \* resNodeMap: the response kept of each resource
    updated,            \* resUpdateMap: "never", "fresh" or "old"
    posting,            \* the list of responses on its way, or NoList
    latestRspData,      \* the last list known to be accepted
    shown,              \* the list the dashboard has
    unanswered,         \* history: a list arrived and its answer did not, and no list
                        \* was accepted since
    calls, updates, ages, failures,
    together            \* history: two goroutines found room at the same time

vars == <<rules, call, seen, cache, reported, report, carried, nodes, updated, posting,
          latestRspData, shown, unanswered, calls, updates, ages, failures, together>>
held     == <<seen, cache>>
reports  == <<reported, report, carried>>
kept     == <<nodes, updated, together>>
sending  == <<posting, latestRspData, shown, unanswered>>
bounds   == <<calls, updates, ages, failures>>

Nothing == "nothing"
NoList  == [r \in {"none"} |-> 0]
NoPair  == <<>>

-----------------------------------------------------------------------------
(* Does a rule concern a request?  Headers and metadata are functions from   *)
(* keys to values.                                                          *)
Named(items, given) == {i \in DOMAIN items : items[i].key \in DOMAIN given}

\* With "or", a key that is present is enough, whatever its value.
Concerns(op, items, given) ==
    /\ op = "and" => Cardinality(DOMAIN given) >= Len(items)
    /\ Named(items, given) # {}
    /\ op = "and" => \A i \in Named(items, given) : given[items[i].key] = items[i].value

HeadersCheck(r, q) ==
    \/ DOMAIN q.headers = {}
    \/ q.class # "web"
    \/ r.items # <<>> /\ Concerns(r.op, r.items, q.headers)

mockReplaceCheck(r, q) ==
    /\ DOMAIN q.meta # {}
    /\ r.items # <<>>
    /\ Concerns(r.op, r.items, q.meta)

MockCheck(r, q) ==
    IF q.class = "micro" THEN mockReplaceCheck(r, q) ELSE HeadersCheck(r, q)

-----------------------------------------------------------------------------
(* Which item of a rule matches the arguments?                               *)
isMatch(want, got, pattern) ==
    IF pattern = "exact" THEN want = got ELSE Pattern(want, got, pattern)

Got(item, q, i) ==
    IF i = 1 /\ item.source = "meta"
    THEN IF item.conds[1].key \in DOMAIN q.meta THEN q.meta[item.conds[1].key] ELSE ""
    ELSE q.args[item.conds[i].key]

Found(item, q, i) ==
    \/ i = 1 /\ item.source = "meta"
    \/ item.conds[i].key \in DOMAIN q.args

\* A condition whose property is absent ends the search of its item.
Conditions(item, q, pattern) ==
    LET n == DOMAIN item.conds
        Holds(i) == Found(item, q, i) /\ isMatch(item.conds[i].want, Got(item, q, i), pattern)
    IN IF item.op = "and" THEN \A i \in n : Holds(i)
       ELSE \E i \in n : Holds(i) /\ \A j \in 1 .. i : Found(item, q, j)

kindStringHandle(item, q) ==
    IF item.replace \in {"resp", "req"} THEN Found(item, q, 1)
    ELSE Conditions(item, q, item.pattern)

generalHandle(item, q) ==
    IF item.replace \in {"resp", "req"} THEN Found(item, q, 1)
    ELSE Conditions(item, q, "exact")

ruleItemCheck(item, q) ==
    /\ DOMAIN q.meta # {}
    /\ \/ item.extra = NoPair
       \/ \E k \in DOMAIN q.meta : item.extra = <<k, q.meta[k]>>

MicroMatch(item, q) ==
    /\ ruleItemCheck(item, q)
    /\ IF item.kind = "string" THEN kindStringHandle(item, q) ELSE generalHandle(item, q)

WebMatch(item, q) ==
    LET key == item.conds[1].key  want == item.conds[1].want
    IN key \in DOMAIN q.args /\ q.args[key] = want

\* Arguments of other resources are found by position: a negative position
\* counts as the number of arguments, any other as the first one.
PositionOk(item, q) == item.idx >= 0 /\ q.list # <<>>

AttachmentMatch(item, q) ==
    /\ item.conds[1].key \in DOMAIN q.attachments
    /\ q.attachments[item.conds[1].key] = item.conds[1].want

Least(S) == IF S = {} THEN 0 ELSE CHOOSE i \in S : \A j \in S : i <= j

\* The number of the first item that matches, 0, or -1 for an index out of range.
ArgsCheck(r, q) ==
    LET n == DOMAIN r.specific
        attached == {i \in n : AttachmentMatch(r.specific[i], q)}
        matching ==
            CASE q.class = "micro" -> {i \in n : MicroMatch(r.specific[i], q)}
              [] q.class = "web"   -> {i \in n : WebMatch(r.specific[i], q)}
              [] OTHER -> {i \in n : /\ PositionOk(r.specific[i], q)
                                     /\ \/ r.specific[i].idx >= Len(q.list)
                                        \/ q.list[r.specific[i].idx + 1]
                                             = r.specific[i].conds[1].want}
        i == Least(matching)
    IN IF attached # {} THEN Least(attached)
       ELSE IF i # 0 /\ q.class = "common" /\ r.specific[i].idx >= Len(q.list) THEN -1
       ELSE i

-----------------------------------------------------------------------------
(* What a rule answers, and whether it sleeps before.                        *)
Behaviour(b) ==
    CASE b \in {"panic", "waitingThenPanic"} -> "error"
      [] b \in {"mock", "waitingThenMock"}   -> "mock"
      [] OTHER                               -> Nothing

Sleeps(b) == b \in {"waiting", "waitingThenPanic", "waitingThenMock"}

PerformCheckingFunc(r) == [answer |-> Behaviour(r.behaviour), sleeps |-> Sleeps(r.behaviour)]

DoInnerCheck(r, q) ==
    LET i == ArgsCheck(r, q)
        item == r.specific[i]
    IN CASE i = -1 -> [answer |-> "recovered", sleeps |-> FALSE]
         [] i = 0  -> [answer |-> Nothing, sleeps |-> FALSE]
         [] item.replace = "req"     -> [answer |-> "request", sleeps |-> FALSE]
         [] item.replace = "timeout" -> [answer |-> "timeout", sleeps |-> FALSE]
         [] OTHER -> [answer |-> Behaviour(item.behaviour), sleeps |-> Sleeps(item.behaviour)]

Perform(r, q) == IF r.strategy = "func" THEN PerformCheckingFunc(r) ELSE DoInnerCheck(r, q)

FromAllowed(r, q) == r.limitApp = {} \/ q.from \in r.limitApp

-----------------------------------------------------------------------------
\* Who reports the requests that were kept: the sending timer and a command.
Reporters == {"sender", "command"}

NoReport == [left |-> {}, todo |-> <<>>, batch |-> <<>>]

Resting == [pc |-> "rest", req |-> Nothing, tcs |-> <<>>, i |-> 0, cached |-> FALSE,
            list |-> <<>>, answer |-> Nothing]

Init ==
    /\ rules \in RuleLists
    /\ call = [g \in Goroutines |-> Resting]
    /\ seen = {}
    /\ cache = [r \in Resources |-> <<>>]
    /\ reported = {}
    /\ report = [s \in Reporters |-> NoReport]
    /\ carried = [t \in {q.text : q \in Requests} |-> 0]
    /\ nodes = [r \in {} |-> 0]
    /\ updated = [r \in Resources |-> "never"]
    /\ posting = NoList
    /\ latestRspData = [r \in {} |-> 0]
    /\ shown = [r \in {} |-> 0] /\ unanswered = FALSE
    /\ calls = 0 /\ updates = 0 /\ ages = 0 /\ failures = 0
    /\ together = FALSE

Goes(g, pc) == call' = [call EXCEPT ![g].pc = pc]

LoadRules ==
    /\ updates < MaxUpdates
    /\ \E l \in RuleLists \ {rules} : rules' = l
    /\ updates' = updates + 1
    /\ UNCHANGED <<call, held, reports, kept, sending, calls, ages, failures>>

-----------------------------------------------------------------------------
(* Slot.Check.                                                               *)
getTrafficControllersFor(g) ==
    /\ call[g].pc \in {"rest", "done"} /\ calls < MaxCalls
    /\ \E q \in Requests :
          call' = [call EXCEPT ![g] =
                     [Resting EXCEPT !.pc = "rule", !.req = q, !.tcs = rules, !.i = 1]]
    /\ calls' = calls + 1
    /\ UNCHANGED <<rules, held, reports, kept, sending, updates, ages, failures>>

RulesNow(g)  == rules                   \* mutant: the rules of the moment
RulesSeen(g) == call[g].tcs

AtRule(g) == call[g].pc = "rule" /\ call[g].i <= Len(RulesSeen(g))

Skip(g) == call' = [call EXCEPT ![g].pc = "rule", ![g].i = @ + 1]

\* The first rule for this caller decides whether the request is kept.
Keep(g) ==
    /\ AtRule(g)
    /\ LET r == RulesSeen(g)[call[g].i]  q == call[g].req
       IN /\ FromAllowed(r, q) /\ ~call[g].cached
          /\ call' = [call EXCEPT ![g].cached = TRUE,
                                  ![g].pc = IF r.hold /\ q.class # "common" /\ q.text \notin seen
                                            THEN "mark" ELSE "rule"]
    /\ UNCHANGED <<rules, held, reports, kept, sending, bounds>>

Check(g) ==
    /\ AtRule(g)
    /\ LET r == RulesSeen(g)[call[g].i]
           q == call[g].req
           result == Perform(r, q)
       IN \/ /\ ~FromAllowed(r, q) /\ Skip(g)
          \/ /\ FromAllowed(r, q) /\ call[g].cached
             /\ IF ~MockCheck(r, q) \/ (result.answer = Nothing /\ ~result.sleeps) THEN Skip(g)
                ELSE call' = [call EXCEPT ![g].answer = result.answer,
                                          ![g].pc = IF result.sleeps THEN "sleep" ELSE "done"]
    /\ UNCHANGED <<rules, held, reports, kept, sending, bounds>>

Sleep(g) ==
    /\ call[g].pc = "sleep"
    /\ IF call[g].answer = Nothing THEN Skip(g) ELSE Goes(g, "done")
    /\ UNCHANGED <<rules, held, reports, kept, sending, bounds>>

\* No rule answers: the service does, and its response may be kept.
Pass(g) ==
    /\ call[g].pc = "rule" /\ call[g].i > Len(RulesSeen(g))
    /\ Goes(g, "exit")
    /\ UNCHANGED <<rules, held, reports, kept, sending, bounds>>

-----------------------------------------------------------------------------
(* cacheRequest, one access to a map at a time.  A list that is too long      *)
(* loses its first request and its last, the one just added.                  *)
Trim(list) ==
    IF Len(list) > OneResourceLimit THEN SubSeq(list, 2, OneResourceLimit) ELSE list

Mark(g) ==
    /\ call[g].pc = "mark"
    /\ seen' = seen \cup {call[g].req.text}
    /\ call' = [call EXCEPT ![g].pc = "store", ![g].list = cache[call[g].req.res]]
    /\ UNCHANGED <<rules, cache, reports, kept, sending, bounds>>

Store(g) ==
    /\ call[g].pc = "store"
    /\ cache' = [cache EXCEPT ![call[g].req.res] = Trim(Append(call[g].list, call[g].req.text))]
    /\ call' = [call EXCEPT ![g].pc = "rule", ![g].list = <<>>]
    /\ UNCHANGED <<rules, seen, reports, kept, sending, bounds>>

(* NeedReportRequest, for the sending timer and for a command: it walks over   *)
(* the resources and over the list of each; a post that fails is not repeated. *)
Unmarked(t)  == reported                \* mutant: loads and does not store
Reported(t)  == reported \cup {t}

\* Walks on to the list of one of the resources left.
Visit(s, left) ==
    /\ \E r \in left : report' = [report EXCEPT ![s].left = left \ {r}, ![s].todo = cache[r]]
    /\ UNCHANGED <<rules, call, held, reported, carried, kept, sending, bounds>>

NeedReportRequest(s) ==
    report[s] = NoReport /\ Visit(s, {r \in Resources : cache[r] # <<>>})

NextResource(s) ==
    report[s].todo = <<>> /\ Visit(s, report[s].left)

LoadOrStore(s) ==
    /\ report[s].todo # <<>>
    /\ LET t == Head(report[s].todo)
       IN /\ reported' = Reported(t)
          /\ report' = [report EXCEPT ![s].todo = Tail(@),
                                      ![s].batch = IF t \in reported THEN @ ELSE Append(@, t)]
    /\ UNCHANGED <<rules, call, held, carried, kept, sending, bounds>>

SendRequest(s) ==
    /\ report[s].left = {} /\ report[s].todo = <<>> /\ report[s].batch # <<>>
    /\ carried' = [t \in DOMAIN carried |->
                     carried[t] + Cardinality({i \in DOMAIN report[s].batch : report[s].batch[i] = t})]
    /\ report' = [report EXCEPT ![s] = NoReport]
    /\ UNCHANGED <<rules, call, held, reported, kept, sending, bounds>>

-----------------------------------------------------------------------------
(* MockRspExitHandler: one response is kept of a resource, for 20 minutes.    *)
Res(g) == call[g].req.res

MockRspExitHandler(g) ==
    /\ call[g].pc = "exit"
    /\ Goes(g, IF updated[Res(g)] = "old" THEN "remove" ELSE "get")
    /\ UNCHANGED <<rules, held, reports, kept, sending, bounds>>

Without(r) == [u \in DOMAIN nodes \ {r} |-> nodes[u]]

RemoveResourceNode(g) ==
    /\ call[g].pc = "remove"
    /\ nodes' = Without(Res(g))
    /\ Goes(g, "get")
    /\ UNCHANGED <<rules, held, reports, updated, together, sending, bounds>>

MayAddLate(n) == n <= DefaultMaxResourceAmount      \* mutant: off by one
MayAdd(n)     == n < DefaultMaxResourceAmount

GetResourceNode(g) ==
    /\ call[g].pc = "get"
    /\ Goes(g, IF Res(g) \in DOMAIN nodes \/ ~MayAdd(Cardinality(DOMAIN nodes))
               THEN "done" ELSE "create")
    /\ together' = (together \/ \E h \in Goroutines \ {g} : call[h].pc = "create")
    /\ UNCHANGED <<rules, held, reports, nodes, updated, sending, bounds>>

NewResourceNode(g) ==
    /\ call[g].pc = "create"
    /\ nodes' = [u \in DOMAIN nodes \cup {Res(g)} |-> IF u = Res(g) THEN g ELSE nodes[u]]
    /\ Goes(g, "stamp")
    /\ UNCHANGED <<rules, held, reports, updated, together, sending, bounds>>

Stamp(g) ==
    /\ call[g].pc = "stamp"
    /\ updated' = [updated EXCEPT ![Res(g)] = "fresh"]
    /\ Goes(g, "done")
    /\ UNCHANGED <<rules, held, reports, nodes, together, sending, bounds>>

Age(r) ==
    /\ updated[r] = "fresh" /\ ages < MaxAges
    /\ updated' = [updated EXCEPT ![r] = "old"]
    /\ ages' = ages + 1
    /\ UNCHANGED <<rules, call, held, reports, nodes, together, sending, calls, updates,
                   failures>>

(* The sending timer posts the list of responses when it differs from the     *)
(* last one that was accepted.                                                *)
AcceptBefore(list) == list              \* mutant: remembered before it is posted
Accepted(list)     == latestRspData

SendRsp ==
    /\ posting = NoList /\ nodes # latestRspData
    /\ posting' = nodes
    /\ latestRspData' = Accepted(nodes)
    /\ UNCHANGED <<rules, call, held, reports, kept, shown, unanswered, bounds>>

Posted ==
    /\ posting # NoList
    /\ latestRspData' = posting
    /\ shown' = posting /\ unanswered' = FALSE
    /\ posting' = NoList
    /\ UNCHANGED <<rules, call, held, reports, kept, bounds>>

\* The list does not arrive, or the answer does not: the sender cannot tell.
PostFails ==
    /\ posting # NoList /\ failures < MaxFailures
    /\ \/ UNCHANGED <<shown, unanswered>>
       \/ shown' = posting /\ unanswered' = TRUE
    /\ posting' = NoList
    /\ failures' = failures + 1
    /\ UNCHANGED <<rules, call, held, reports, kept, latestRspData, calls, updates, ages>>

-----------------------------------------------------------------------------
Call(g) ==
    \/ getTrafficControllersFor(g) \/ Keep(g) \/ Check(g) \/ Sleep(g) \/ Pass(g)
    \/ Mark(g) \/ Store(g)
    \/ MockRspExitHandler(g) \/ RemoveResourceNode(g) \/ GetResourceNode(g)
    \/ NewResourceNode(g) \/ Stamp(g)

Next ==
    \/ LoadRules
    \/ \E g \in Goroutines : Call(g)
    \/ \E s \in Reporters : 
          NeedReportRequest(s) \/ NextResource(s) \/ LoadOrStore(s) \/ SendRequest(s)
    \/ \E r \in Resources : Age(r)
    \/ SendRsp \/ Posted \/ PostFails

\* The timer sends again and again.  That a post ends is not assumed: the
\* client's time-out is set on a copy of it and never in force.
Fairness == WF_vars(SendRsp)

Spec == Init /\ [][Next]_vars /\ Fairness

-----------------------------------------------------------------------------
(* A rule is for a request of a micro service by the request's metadata, for   *)
(* one of the web by its headers, if it has any, and for any other by nothing. *)
IsFor(r, q) ==
    \/ q.class = "common"
    \/ q.class = "web" /\ DOMAIN q.headers = {}
    \/ LET given == IF q.class = "micro" THEN q.meta ELSE q.headers
           named == {i \in DOMAIN r.items : r.items[i].key \in DOMAIN given}
       IN /\ named # {}
          /\ r.op = "and" => /\ Len(r.items) <= Cardinality(DOMAIN given)
                             /\ \A i \in named : given[r.items[i].key] = r.items[i].value

(* What a rule that is for a request says to it: for the whole method, what    *)
(* its behaviour is; for arguments, what the item says that they match first.  *)
Says(r, q) ==
    IF r.strategy = "func" THEN Behaviour(r.behaviour)
    ELSE LET i == ArgsCheck(r, q)
         IN CASE i = -1 -> "recovered"
              [] i = 0  -> Nothing
              [] r.specific[i].replace = "req"     -> "request"
              [] r.specific[i].replace = "timeout" -> "timeout"
              [] OTHER -> Behaviour(r.specific[i].behaviour)

(* The answer a request gets is that of the first rule, among those in force  *)
(* when its check began, that is for this request and its caller and has one; *)
(* rules that only wait or only keep requests, and rules loaded while it      *)
(* slept or while its request was kept, change nothing (Slot.Check).          *)
Answering(l, q) ==
    {i \in DOMAIN l : FromAllowed(l[i], q) /\ IsFor(l[i], q) /\ Says(l[i], q) # Nothing}

AnsweredByFirst ==
    \A g \in Goroutines :
        LET c == call[g]  S == Answering(c.tcs, c.req)
        IN c.pc \notin {"rest", "rule", "sleep", "mark", "store"} =>
             c.answer = IF S = {} THEN Nothing ELSE Says(c.tcs[Least(S)], c.req)

(* traffic_shaping.go says of MockCheck that the request must have headers,   *)
(* and a test that a request without any passes.  Refuted by TLC.             *)
HeadersRequired ==
    \A g \in Goroutines :
        call[g].answer # Nothing /\ call[g].req.class # "micro" => DOMAIN call[g].req.headers # {}

(* The timer and a fetchRequest command never report the same request twice,  *)
(* though both walk over the same lists and a list may hold it twice.         *)
ReportedOnce == \A t \in DOMAIN carried : carried[t] <= 1

(* Looking whether there is room and taking it are two steps: the responses   *)
(* kept exceed the limit only when goroutines looked together, and then by    *)
(* fewer than there are goroutines.                                           *)
NodesBounded ==
    LET n == Cardinality(DOMAIN nodes)
    IN /\ n < DefaultMaxResourceAmount + Cardinality(Goroutines)
       /\ n > DefaultMaxResourceAmount => together

(* The dashboard ends up with the responses that are kept, although posts     *)
(* fail: only a list that was accepted is not sent again.  Not so when a post *)
(* never ends, or when a list arrived and its answer did not.                 *)
ResponsesArrive == <>[](shown = nodes) \/ <>[](posting # NoList) \/ <>[]unanswered

(* Refuted by TLC: what is remembered as accepted need not be what was shown  *)
(* last, and responses that return to it are not sent.                        *)
ResponsesArriveAlways == <>[](shown = nodes) \/ <>[](posting # NoList)

=============================================================================
