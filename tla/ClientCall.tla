------------------------------ MODULE ClientCall ------------------------------
(***************************************************************************)
(* One outgoing call of the go-micro client wrapper: what its entry        *)
(* decides (core/gray), which node the weight strategy picks               *)
(* (core/weight_router) and how it is tried again (core/retry), while the  *)
(* weight rules and the retry rules are being replaced.                    *)
(*                                                                         *)
(* A resource is the sequence of the parts of its name, each of two        *)
(* letters or more; a target resource has its version appended.  An error  *)
(* is a kind of reply, and a pattern of a retry rule is the set of kinds   *)
(* it matches.  The client of go-micro is external: one Client.Call picks  *)
(* a node and brings a reply, and with addresses it takes the first, as    *)
(* the comment in client.go says.                                          *)
(***************************************************************************)
EXTENDS Integers, Sequences, FiniteSets, SequencesExt

CONSTANTS
    Callers,      \* goroutines, each of which makes one call
    Resource,     \* the resource they call
    Requests,     \* what they send: [from, md, args]
    Setups,       \* the rules at the start: [gray, weights, retry]; gray rules
                  \* are a function from names and patterns to sequences
    NodesOf,      \* the registry: service -> sequence of nodes
    WeightLists,  \* lists given to weight_router.LoadRules
    RetryLists,   \* lists given to the retry rule manager
    StringOrder,  \* the parameter values in string order
    NumberOf,     \* the number a value parses to; the others do not parse
    DefaultWeight, MaxInt64, DefaultTimeout,  \* 10000, 2^63 - 1 and 1000, scaled down
    MaxLoads,     \* bound: loads of rules
    MaxCalls      \* bound: Client.Calls of one caller, an endless policy has no other

VARIABLES
    gray,         \* the gray rules, chosen once
    weights,      \* weight_router.ruleList
    current,      \* retry: currentRules[Resource]
    retryRules,   \* retry: ruleMap[Resource]
    template,     \* retry: rtMap[Resource]
    locked,       \* retry: rwMux has been left locked by a panic
    call,         \* Callers -> where its call is and its local variables
    drained,      \* history: nodes without weight in every list since the call began
    blank,        \* history: a list since then left no weight, or too much to add up
    loads         \* loads left

retryVars == <<current, retryRules, template, locked>>
vars == <<gray, weights, retryVars, call, drained, blank, loads>>

DefaultRetryNum == 3
None == "none"
Nil == [resource |-> <<"nil pointer">>]
NoTemplate == [policy |-> "no template"]
NoGray == [resource |-> <<>>]
NoTarget == [resource |-> <<"no target">>]
Panics == [resource |-> <<"panics">>]

-------------------------------------------------------------------------------
(* core/gray: which resource and addresses a request is sent to.           *)

Position(v) == CHOOSE i \in DOMAIN StringOrder : StringOrder[i] = v

\* ConditionTrafficSelector.CheckLock: values are compared as strings.
CheckLock(v, p) ==
    CASE p.op = "=" -> v \in p.values
      [] p.op = "!=" -> v \notin p.values
      [] p.op = ">" -> \A w \in p.values : Position(v) > Position(w)
      [] p.op = ">=" -> \A w \in p.values : Position(v) >= Position(w)
      [] p.op = "<" -> \A w \in p.values : Position(v) < Position(w)
      [] p.op = "<=" -> \A w \in p.values : Position(v) <= Position(w)
      [] p.op = "in" -> v \in p.values
      [] p.op = "not in" -> v \notin p.values
      [] p.op = "mod 100" ->
            /\ v \in DOMAIN NumberOf
            /\ \A w \in p.values : w \in DOMAIN NumberOf /\ NumberOf[v] % 100 = NumberOf[w]
      [] OTHER -> FALSE

\* One parameter: a missing metadata key reads as "", any other as not met;
\* a go-micro request has neither cookies nor headers nor a body.
ParamMeets(req, p) ==
    \/ p.kind = "metadata" /\ CheckLock(IF p.key \in DOMAIN req.md THEN req.md[p.key] ELSE "", p)
    \/ p.kind = "parameter" /\ p.key \in DOMAIN req.args /\ CheckLock(req.args[p.key], p)

DoCheck(req, cond) ==
    /\ cond.params # {}
    /\ IF cond.all THEN \A p \in cond.params : ParamMeets(req, p)
                   ELSE \E p \in cond.params : ParamMeets(req, p)

FirstOf(rule, Meets(_)) ==
    LET i == SelectInSeq(rule.targets, Meets)
    IN IF i = 0 THEN NoTarget ELSE rule.targets[i]

ConditionSelects(req, rule) == FirstOf(rule, LAMBDA t : DoCheck(req, t))

TagSelects(req, rule) ==
    FirstOf(rule, LAMBDA t : t.value = (IF t.key \in DOMAIN req.md THEN req.md[t.key] ELSE ""))

\* Weights in hundredths.  Both the total and the upper ends are cut to whole
\* numbers: less than one in all divides by zero.
Upto(rule, i) == FoldLeft(LAMBDA sum, t : sum + t.weight, 0, SubSeq(rule.targets, 1, i))

WeightSelects(rule) ==
    LET total == Upto(rule, Len(rule.targets))
        buckets == IF total = 0 THEN {1} ELSE 1..(total \div 100)
        At(b) == SelectInSeq([i \in DOMAIN rule.targets |-> Upto(rule, i) \div 100],
                             LAMBDA end : b <= end)
    IN IF total > 0 /\ total < 100 THEN {Panics}
       ELSE {IF At(b) = 0 THEN NoTarget ELSE rule.targets[At(b)] : b \in buckets}

\* What a controller may select; Force with no target leaves it no selector.
Selects(req, rule) ==
    CASE rule.limitApp # {} /\ req.from \notin rule.limitApp -> {NoTarget}
      [] rule.targets = <<>> /\ rule.force -> {Panics}
      [] rule.strategy = "weight" -> WeightSelects(rule)
      [] rule.targets = <<>> -> {[resource |-> Resource, effective |-> <<>>]}
      [] rule.strategy = "condition" -> {ConditionSelects(req, rule)}
      [] rule.strategy = "tag" -> {TagSelects(req, rule)}

\* PerformSelecting: the target's resource, or the caller's own if it ends
\* with a star, and the addresses both lists name.
PerformSelecting(rule, target) ==
    IF target = Panics THEN NoGray
    ELSE [resource |-> IF Last(target.resource) = "*" THEN Resource ELSE target.resource,
          addresses |-> CASE target.effective = <<>> -> rule.white
                          [] rule.white = <<>> -> target.effective
                          [] OTHER -> SelectSeq(rule.white, LAMBDA a : Contains(target.effective, a)),
          linkPass |-> rule.linkPass]

\* The rules of the name itself, else those of the longest pattern: names are
\* tried in descending order, where a letter comes before the star.
getTrafficControllerListFor(name) ==
    LET patterns == {p \in DOMAIN gray : Last(p) = "*" /\ IsPrefix(Front(p), name)}
    IN IF name \in DOMAIN gray THEN gray[name]
       ELSE IF patterns = {} THEN <<>>
       ELSE gray[CHOOSE p \in patterns : \A q \in patterns : Len(q) <= Len(p)]

\* Slot.Router: the first rule that selects a target decides.
Router(req) ==
    LET rules == getTrafficControllerListFor(Resource)
        MayPass(i) == NoTarget \in Selects(req, rules[i])
        reached == {i \in DOMAIN rules : \A j \in 1..(i - 1) : MayPass(j)}
    IN UNION {{PerformSelecting(rules[i], t) : t \in Selects(req, rules[i]) \ {NoTarget}} : i \in reached}
       \cup (IF \A i \in DOMAIN rules : MayPass(i) THEN {NoGray} ELSE {})

-------------------------------------------------------------------------------
(* core/weight_router and the strategy built from its rules.               *)

IsValidWeight(r) == r # Nil /\ r.node # "" /\ r.weight >= 0 /\ r.type \in {"client", "server"}

\* GetActualRules: a node's rule is the first of the client's, else the last.
Sticky(rule, r) == IF rule.type = "client" THEN rule ELSE r
GetActualRule(list, service, node) ==
    FoldLeft(Sticky, [type |-> None, weight |-> DefaultWeight],
             SelectSeq(list, LAMBDA r : r.service = service /\ r.node = node))

WeightsOf(list, service) ==
    [i \in DOMAIN NodesOf[service] |-> GetActualRule(list, service, NodesOf[service][i]).weight]
Sum(w, n) == FoldLeft(LAMBDA sum, x : sum + x, 0, SubSeq(w, 1, n))
Overflows(w) == \E i \in DOMAIN w : w[i] > MaxInt64 - Sum(w, i - 1)

Buckets_FromZero(total) == 0..(total - 1)
Buckets(total) == 1..total

\* The node of the first bucket that reaches the drawn number; any node when
\* the weights cannot be added up or are all zero.
GetTargetIndexByWeightRule(service, list) ==
    LET w == WeightsOf(list, service)
        total == Sum(w, Len(w))
    IN IF Overflows(w) \/ total = 0 THEN DOMAIN w
       ELSE {SelectInSeq([i \in DOMAIN w |-> Sum(w, i)], LAMBDA end : b <= end) : b \in Buckets(total)}

\* weight_router.LoadRules: the list is compared with the valid rules in force.
LoadWeightRules(list) ==
    LET valid == SelectSeq(list, IsValidWeight)
        Without(service) == {n \in ToSet(NodesOf[service]) : GetActualRule(valid, service, n).weight = 0}
    IN /\ loads > 0 /\ list # weights
       /\ weights' = valid
       /\ drained' = [c \in Callers |-> drained[c] \cap Without(call[c].service)]
       /\ blank' = [c \in Callers |-> \/ blank[c]
                                      \/ Without(call[c].service) = ToSet(NodesOf[call[c].service])
                                      \/ Overflows(WeightsOf(valid, call[c].service))]
       /\ loads' = loads - 1
       /\ UNCHANGED <<gray, retryVars, call>>
-------------------------------------------------------------------------------
(* core/retry/rule: the template of the resource's first rule.             *)

\* The base policy the builder makes; the classifier, composite and custom
\* policies of a rule are unwritten and leave the default, three attempts.
BasePolicy(rule) ==
    LET limited == IF rule.max <= 0 THEN 3 ELSE rule.max
    IN CASE rule.policy = "simple" ->
              [kind |-> "simple", max |-> limited, not |-> IF rule.max <= 0 THEN {} ELSE rule.equal]
         [] rule.policy = "max" -> [kind |-> "max", max |-> limited]
         [] rule.policy = "timeout" -> [kind |-> "timeout", ms |-> IF rule.timeout <= 0 THEN DefaultTimeout ELSE rule.timeout]
         [] rule.policy \in {"never", "always"} -> [kind |-> rule.policy]
         [] OTHER -> [kind |-> "max", max |-> 3]

\* ErrorClassifierBuilder: a white list of errors, a black list, or neither.
Classifier(rule) ==
    [any |-> rule.matchAny \/ (rule.include = {} /\ rule.exclude = {}),
     default |-> rule.include # {},
     classified |-> rule.include \cup rule.exclude]

Classify(classifier, err) ==
    classifier.any \/ (IF err \in classifier.classified THEN classifier.default ELSE ~classifier.default)

\* The setters of ExponentialBackOffPolicy take nothing below one.
Exponential(b) == b.kind \in {"exponential", "exponential random"}
AtLeastOne(n) == IF n > 1 THEN n ELSE 1
Backoff(b) ==
    IF Exponential(b)
    THEN [b EXCEPT !.initial = AtLeastOne(@), !.multiplier = AtLeastOne(@), !.maxInterval = AtLeastOne(@)]
    ELSE b

Build(rule) == [policy |-> BasePolicy(rule), classifier |-> Classifier(rule), backoff |-> Backoff(rule.backoff)]

buildResourceRetryTemplate(list) ==
    LET rule == list[1]
    IN IF \/ rule.resource # Resource
          \/ rule.policy = "unknown" \/ rule.backoff.kind = "unknown"
          \/ rule.include # {} /\ rule.exclude # {}
       THEN NoTemplate
       ELSE Build(rule)

IsValidRule(rule) == rule # Nil /\ rule.resource # <<>>

\* LoadRules: a nil rule panics while the rules are grouped, before any change.
\* Rules of other resources are grouped elsewhere.
LoadRules(list) ==
    LET own == SelectSeq(list, LAMBDA r : r.resource = Resource)
    IN /\ ~locked /\ ~Contains(list, Nil) /\ own # current
       /\ current' = own
       /\ retryRules' = own
       /\ template' = IF own = <<>> THEN NoTemplate ELSE buildResourceRetryTemplate(own)
       /\ UNCHANGED locked

\* LoadRulesOfResource with no rules forgets the rules and keeps the template.
ClearRulesOfResource ==
    /\ ~locked
    /\ current' = <<>> /\ retryRules' = <<>>
    /\ UNCHANGED <<template, locked>>

\* onResourceUpdate builds the template from the list as it was given: a nil
\* rule at its head panics between Lock and Unlock.
onResourceUpdate(list) ==
    LET valid == SelectSeq(list, IsValidRule)
    IN /\ ~locked /\ list # <<>> /\ list # current
       /\ retryRules' = valid
       /\ locked' = (valid # <<>> /\ list[1] = Nil)
       /\ current' = IF locked' THEN current ELSE list
       /\ template' = CASE valid = <<>> -> NoTemplate
                         [] locked' -> template
                         [] OTHER -> buildResourceRetryTemplate(list)

LoadRetryRules(list) ==
    /\ loads > 0
    /\ LoadRules(list) \/ ClearRulesOfResource \/ onResourceUpdate(list)
    /\ loads' = loads - 1
    /\ UNCHANGED <<gray, weights, call, drained, blank>>

-------------------------------------------------------------------------------
(* core/retry/policy and backoff: x is the context of the calls so far.    *)

SimpleRetryPolicy(p, x) == x.lastError \notin p.not /\ x.count < p.max
MaxAttemptsRetryPolicy_OneMore(p, x) == x.count <= p.max
MaxAttemptsRetryPolicy(p, x) == x.count < p.max
TimeoutRetryPolicy(p, x) == x.elapsed <= p.ms
\* NeverRetryPolicy can retry once it is finished, that is after an error.
NeverRetryPolicy(x) == x.count > 0

\* CompositeRetryPolicy: the base policy and the classifier.
CanRetry(x) ==
    LET p == x.template.policy
    IN /\ CASE p.kind = "simple" -> SimpleRetryPolicy(p, x)
             [] p.kind = "max" -> MaxAttemptsRetryPolicy(p, x)
             [] p.kind = "timeout" -> TimeoutRetryPolicy(p, x)
             [] p.kind = "never" -> NeverRetryPolicy(x)
             [] p.kind = "always" -> TRUE
       /\ x.lastError = None \/ Classify(x.template.classifier, x.lastError)

RegisterError(x, err) == [x EXCEPT !.lastError = err, !.count = @ + 1]

\* GetSleepAndIncrement: the interval grows until it has passed its maximum.
Sleep(b, interval) == IF interval > b.maxInterval THEN b.maxInterval ELSE interval
GetNextInterval(b, interval) ==
    IF ~Exponential(b) \/ interval > b.maxInterval THEN interval ELSE interval * b.multiplier

\* How long BackOff may sleep; none when drawing from an empty range panics.
\* The random factor multiplies the capped interval and is not capped again.
RandomSleeps(b, interval) == {Sleep(b, interval) * k : k \in 1..b.multiplier}
UniformSleeps(b) == IF b.min = b.max THEN {b.min} ELSE b.min..(b.max - 1)
Sleeps(b, interval) ==
    CASE b.kind = "none" -> {0}
      [] b.kind = "fixed" -> {b.period}
      [] b.kind = "exponential" -> {Sleep(b, interval)}
      [] b.kind = "exponential random" -> RandomSleeps(b, interval)
      [] b.kind = "uniform" -> UniformSleeps(b)

\* Only the timeout policy reads the time that has passed: it is kept for it.
Timed(x) == x.template.policy.kind = "timeout"
Elapsed(x, ms) == IF ~Timed(x) THEN 0
                  ELSE IF x.elapsed + ms > x.template.policy.ms THEN x.template.policy.ms + 1
                  ELSE x.elapsed + ms
Interval(t) == IF t.policy.kind = "timeout" /\ Exponential(t.backoff) THEN t.backoff.initial ELSE 0
-------------------------------------------------------------------------------
(* pkg/adapters/microv4_opentrace: the call.                               *)

Service(name) == SubSeq(name, 1, Len(name) - 2)

\* Where a call is and what it holds.  pc: idle, weights, rules, template,
\* loop (head of the retry loop), invoke, reply, done.
Idle == [pc |-> "idle", service |-> Service(Resource), how |-> "any", first |-> None,
         list |-> <<>>, rules |-> <<>>, template |-> NoTemplate,
         metadata |-> FALSE, ctx |-> "live", fresh |-> FALSE, again |-> 0,
         count |-> 0, lastError |-> None, elapsed |-> 0, interval |-> 0,
         node |-> None, reply |-> None, calls |-> 0, answers |-> 0, result |-> None]

\* The rule managers' LoadRules have been called before.
Init ==
    /\ \E s \in Setups : gray = s.gray /\ weights = SelectSeq(s.weights, IsValidWeight) /\ current = s.retry
    /\ retryRules = current
    /\ template = IF current = <<>> THEN NoTemplate ELSE buildResourceRetryTemplate(current)
    /\ locked = FALSE
    /\ call = [c \in Callers |-> Idle]
    /\ drained = [c \in Callers |-> {}]
    /\ blank = [c \in Callers |-> FALSE]
    /\ loads = MaxLoads

ruleVars == <<gray, weights, retryVars, loads>>

Step(c, from, fields) ==
    /\ call[c].pc = from
    /\ call' = [call EXCEPT ![c] = fields @@ @]

Finished(result) == [pc |-> "done", result |-> result]

\* The ghosts of a call that begins with service.
Watch(c, service) ==
    LET nodes == ToSet(NodesOf[service])
        without == {n \in nodes : GetActualRule(weights, service, n).weight = 0}
    IN /\ drained' = [drained EXCEPT ![c] = without]
       /\ blank' = [blank EXCEPT ![c] = without = nodes \/ Overflows(WeightsOf(weights, service))]

\* Entry blocks the call or answers it (blockErr), or replaces its request
\* (MockRequest): one Client.Call with the caller's own options.
Block(c) ==
    /\ \/ Step(c, "idle", Finished("blocked"))
       \/ Step(c, "idle", [pc |-> "invoke", result |-> "mock request"])
    /\ UNCHANGED <<ruleVars, drained, blank>>

\* MockCtxTimeout: a request with metadata gets a context of its own; the
\* weight strategy is skipped.
MockTimeout(c) ==
    /\ \E req \in Requests : Step(c, "idle", [pc |-> "rules", metadata |-> DOMAIN req.md # {}])
    /\ UNCHANGED <<ruleVars, drained, blank>>

\* randomSort never leaves the first of two or more addresses in its place.
randomSort(addresses) ==
    IF Len(addresses) = 1 THEN {addresses[1]} ELSE {addresses[i] : i \in 2..Len(addresses)}

\* splitServiceAndEndpoint: a name of fewer than three parts leaves the request.
splitService(name) == IF Len(name) < 3 THEN Service(Resource) ELSE Service(name)

\* The entry passes, with a gray resource or without.  One that contains a
\* star skips the addresses, the tag and the weights.  A tag passed on gives
\* the context metadata.
Pass(c) ==
    /\ call[c].pc = "idle"
    /\ \E req \in Requests : \E g \in Router(req) :
          LET md == DOMAIN req.md # {}
              service == IF g = NoGray THEN Service(Resource) ELSE splitService(g.resource)
          IN IF Contains(g.resource, "*")
             THEN /\ Step(c, "idle", [pc |-> "rules", metadata |-> md])
                  /\ UNCHANGED <<drained, blank>>
             ELSE /\ Watch(c, service)
                  /\ IF g = NoGray \/ g.addresses = <<>>
                     THEN Step(c, "idle", [pc |-> "weights", how |-> "weights", service |-> service,
                                           metadata |-> md \/ (g # NoGray /\ g.linkPass)])
                     ELSE \E a \in randomSort(g.addresses) :
                            Step(c, "idle", [pc |-> "weights", how |-> "address", first |-> a,
                                             service |-> service, metadata |-> md \/ g.linkPass])
    /\ UNCHANGED ruleVars

\* GetActualRules: the strategy keeps the rules of this moment.
SnapshotWeights(c) ==
    /\ Step(c, "weights", [pc |-> "rules", list |-> weights])
    /\ UNCHANGED <<ruleVars, drained, blank>>

\* GetRulesOfResource and GetRetryTemplateOfResource lock one after the other;
\* the former never returns nil.
ReadRules(c) ==
    /\ ~locked
    /\ Step(c, "rules", [pc |-> "template", rules |-> retryRules])
    /\ UNCHANGED <<ruleVars, drained, blank>>

ReadTemplate(c) ==
    /\ ~locked
    /\ IF template = NoTemplate THEN Step(c, "template", [pc |-> "invoke"])
       ELSE Step(c, "template", [pc |-> "loop", template |-> template,
                                 interval |-> Interval(template)])
    /\ UNCHANGED <<ruleVars, drained, blank>>

Templated(c) == call[c].template # NoTemplate

\* The head of the loop in ExecuteWithRecoverAndState and of DoWithRetry: after
\* a 408 a request with metadata gets a context for this attempt only.
Attempt(c) ==
    LET x == call[c]
        fresh == x.lastError = "timeout" /\ x.metadata
    IN /\ x.pc = "loop" /\ CanRetry(x)
       /\ Step(c, "loop", [pc |-> "invoke", again |-> 0, fresh |-> fresh,
                            ctx |-> IF fresh THEN "live" ELSE x.ctx])
       /\ UNCHANGED <<ruleVars, drained, blank>>

\* handleRetryExhausted: the last error, or one of its own when nothing was
\* called.  Call takes the error of a matched item back.
Exhaust(c) ==
    /\ call[c].pc = "loop" /\ ~CanRetry(call[c])
    /\ Step(c, "loop", Finished(IF call[c].lastError = "item" THEN "ok" ELSE "error"))
    /\ UNCHANGED <<ruleVars, drained, blank>>

Picks(c) ==
    LET x == call[c]
        nodes == NodesOf[x.service]
    IN CASE x.how = "any" -> ToSet(nodes)
         [] x.how = "address" -> {x.first}
         [] x.how = "weights" -> {nodes[i] : i \in GetTargetIndexByWeightRule(x.service, x.list)}

Errors == {"blocked by gray", "not found", "micro", "timeout", "other"}

\* Client.Call with a context that is over reaches no node; a time-out may
\* leave the context over or not.
Invoke(c) ==
    LET x == call[c]
        called == [calls |-> x.calls + 1, pc |-> "reply"]
    IN /\ x.calls < MaxCalls
       /\ \/ /\ x.ctx = "over"
             /\ Step(c, "invoke", called @@ [node |-> None, reply |-> "timeout"])
          \/ /\ x.ctx = "live"
             /\ \E n \in Picks(c), reply \in Errors \cup {"ok", "item"} :
                  \E ctx \in (IF reply = "timeout" THEN {"live", "over"} ELSE {"live"}) :
                    Step(c, "invoke", called @@ [node |-> n, reply |-> reply, ctx |-> ctx,
                         answers |-> x.answers + IF reply = "ok" THEN 1 ELSE 0])
       /\ UNCHANGED <<ruleVars, drained, blank>>

\* The loop after a failed call: without a template it knows two errors, of
\* which "not found" drops the addresses, in DoWithRetry one.
CallsAgain(x) ==
    /\ x.result = None /\ x.again < DefaultRetryNum
    /\ \/ x.reply = "blocked by gray"
       \/ x.reply = "not found" /\ x.template = NoTemplate

CallAgain(c) ==
    LET x == call[c]
    IN /\ x.pc = "reply" /\ CallsAgain(x)
       /\ Step(c, "reply", [pc |-> "invoke", again |-> x.again + 1, node |-> None,
                            how |-> IF x.reply = "not found" /\ x.how = "address" THEN "weights" ELSE x.how])
       /\ UNCHANGED <<ruleVars, drained, blank>>

\* The reply is taken as the answer unless the first rule has items and the
\* response matches one.
Matches(x) == x.reply = "item" /\ x.template # NoTemplate /\ x.rules # <<>> /\ x.rules[1].items
Answers(x) == x.reply \in {"ok", "item"} /\ ~Matches(x)

Return(c) ==
    /\ call[c].pc = "reply"
    /\ \/ Answers(call[c]) /\ Step(c, "reply", Finished("ok"))
       \/ ~Answers(call[c]) /\ ~Templated(c) /\ ~CallsAgain(call[c]) /\ Step(c, "reply", Finished("error"))
    /\ UNCHANGED <<ruleVars, drained, blank>>

\* The catch handler: register the error, sleep if another attempt may follow.
\* A panic of BackOff ends the template at once.  The context made for the
\* attempt is cancelled with it.
Catch(c) ==
    /\ call[c].pc = "reply"
    /\ Templated(c) /\ ~Answers(call[c]) /\ ~CallsAgain(call[c])
    /\ \E took \in {0, 1} :
          LET x == [RegisterError(call[c], call[c].reply) EXCEPT !.elapsed = Elapsed(call[c], took)]
              b == x.template.backoff
              next == [x EXCEPT !.pc = "loop", !.fresh = FALSE, !.ctx = IF x.fresh THEN "over" ELSE @]
          IN IF ~CanRetry(x) THEN Step(c, "reply", next)
             ELSE IF Sleeps(b, x.interval) = {} THEN Step(c, "reply", Finished("error"))
             ELSE \E ms \in Sleeps(b, x.interval) :
                    Step(c, "reply", [next EXCEPT !.elapsed = Elapsed(x, ms),
                                                  !.interval = IF Timed(x) THEN GetNextInterval(b, @) ELSE @])
    /\ UNCHANGED <<ruleVars, drained, blank>>

Next ==
    \/ \E list \in WeightLists : LoadWeightRules(list)
    \/ \E list \in RetryLists : LoadRetryRules(list)
    \/ \E c \in Callers :
          \/ Block(c) \/ MockTimeout(c) \/ Pass(c)
          \/ SnapshotWeights(c) \/ ReadRules(c) \/ ReadTemplate(c)
          \/ Attempt(c) \/ Exhaust(c) \/ Invoke(c) \/ CallAgain(c) \/ Return(c) \/ Catch(c)

Spec == Init /\ [][Next]_vars

-------------------------------------------------------------------------------
(* A node is drained by giving it the weight zero.  Once every list of     *)
(* rules in force since a call began drains a node, none of that call's    *)
(* attempts reaches it, whatever rules are replaced between the snapshot   *)
(* and the attempt, unless one of those lists left no weight to share out. *)
DrainedNodeAvoided ==
    \A c \in Callers :
        call[c].how = "weights" /\ call[c].node # None => call[c].node \notin drained[c] \/ blank[c]

Counting(x) == x.template = NoTemplate \/ x.template.policy.kind \in {"simple", "max"}
Attempts(x) == IF x.template = NoTemplate THEN 1 ELSE x.template.policy.max

\* Retries stay within the number the call's policy was given at its start,
\* whatever is loaded meanwhile: each attempt of the template, or the only one
\* without a template, is the call and the three that the wrapper may add.  A
\* request that has been answered is not sent again, and its caller is told so.
AnsweredWithinPolicy ==
    \A c \in Callers :
        LET x == call[c]
        IN /\ Counting(x) => x.calls <= (1 + DefaultRetryNum) * Attempts(x)
           /\ x.answers <= 1 /\ (x.answers = 1 => x.reply = "ok")
           /\ x.result = "ok" => x.reply \in {"ok", "item"}
           /\ x.result = "error" => x.reply # "ok"

\* What nerver_retry_policy.go:8 says: the first attempt is allowed, none after
\* it.  Refuted: before an error was registered CanRetry is false.
NeverAllowsFirst ==
    \A c \in Callers :
        LET x == call[c]
        IN Templated(c) /\ x.template.policy.kind = "never" /\ x.pc = "done" => x.calls > 0
===============================================================================
