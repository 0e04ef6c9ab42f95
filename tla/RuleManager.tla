------------------------------ MODULE RuleManager ------------------------------
(***************************************************************************)
(* The rule managers: flow, circuitbreaker, hotspot, mock, gray, isolation *)
(* and system, each the rule_manager.go of its package under core.  They   *)
(* are seven copies of one design and share nothing, so a behaviour is     *)
(* about one of them, mgr.  Every update holds updateRuleMux to its end:   *)
(* it compares the rules with the ones loaded last, builds controllers     *)
(* that keep what they can of the old ones, puts them in force under a     *)
(* second lock, and only then records what was loaded.                     *)
(***************************************************************************)
EXTENDS Naturals, FiniteSets, SequencesExt

CONSTANTS
  Managers,      \* the managers to explore
  Updaters,      \* goroutines that load rules: fetcher, command centre, files
  Resources,     \* for system: the metric types
  Wholes,        \* arguments of LoadRules, grouped by resource
  Lists,         \* arguments of LoadRulesOfResource
  MaxLoads,      \* bound: calls of either kind
  Nobody

\* A rule is [key, group, id, shape, queue].  key is what the manager's
\* equality compares, group what its statistic depends on, id whatever the
\* equality overlooks (the identifier, ProbeNum of a breaker rule).  shape is
\* "plain"; "invalid", refused by IsValidRule alone; "custom", of a strategy
\* that needs a registered generator; "foreign", of another resource; "nil".
\* queue is the queueing time of a flow rule in cluster mode, 0 for the others.
ASSUME RuleManagerAssumption ==
  /\ Managers \subseteq
       {"flow", "breaker", "hotspot", "mock", "gray", "isolation", "system"}
  /\ \A w \in Wholes : DOMAIN w = Resources

VARIABLES
  mgr,           \* the manager this behaviour is about
  current,       \* currentRules, <<>> for a resource without an entry
  force,         \* tcMap, breakers, tcsMap or ruleMap: controllers in force
  shown,         \* breakerRules: what GetRules of circuitbreaker answers
  byId,          \* tcIdMap of flow: one map for all resources
  shared,        \* history: identifiers in force for two resources at once since
                 \* byId was made
  metric,        \* resClusterMap of flow: the queueing time of its metric, or 0
  generator,     \* a generator for custom strategies is registered
  owner,         \* who holds updateRuleMux
  job,           \* the load an updater is at
  loads

vars == <<mgr, current, force, shown, byId, shared, metric, generator, owner, job, loads>>

NoJob == [step |-> "none", whole |-> FALSE, lists |-> <<>>, built |-> <<>>]

\* No controller, and the statistic of a rule that needs none.
None == [rule |-> [id |-> 0], born |-> <<>>, stat |-> <<>>]

Ids == UNION {{l[i].id : i \in DOMAIN l} :
                l \in Lists \cup UNION {{w[r] : r \in Resources} : w \in Wholes}}

Init ==
  /\ mgr \in Managers
  /\ current = [r \in Resources |-> <<>>]
  /\ force = current /\ shown = current
  /\ byId = [i \in Ids |-> None] /\ shared = {}
  /\ metric = [r \in Resources |-> 0]
  /\ generator = FALSE
  /\ owner = Nobody /\ job = [p \in Updaters |-> NoJob] /\ loads = 0

-----------------------------------------------------------------------------
(* The rules of a list: which are kept, which get a controller, and from     *)
(* which old controller.                                                     *)

IsValidRule(rule) == rule.shape \notin {"invalid", "nil"}
Valid(list)       == SelectSeq(list, IsValidRule)

\* The default generators cannot be replaced or removed.
HasGenerator(rule) == rule.shape = "custom" => generator

FlowEquals(o, n)    == o.key = n.key
\* The equality of the two managers ends with the strategies they know.
BreakerEquals(o, n) == o.key = n.key /\ n.shape # "custom"
HotSpotEquals(o, n) == o.key = n.key /\ n.shape # "custom"
MockEquals(o, n)    == o.key = n.key
GrayEquals(o, n)    == o.key = n.key

\* A plausible slip: a changed rule is denied the statistic it had.
FlowReusableByKey(o, n) == o.group = n.group /\ o.key = n.key
FlowReusable(o, n)    == o.group = n.group /\ n.group # "none"
BreakerReusable(o, n) == o.group = n.group
HotSpotReusable(o, n) == o.group = n.group
MockReusable(o, n)    == o.group = n.group
GrayReusable(o, n)    == FALSE

\* What a new statistic of a flow rule is: none for throttling, the one of the
\* resource for the default interval, its own for the others.
FlowStatFor(rule, born) ==
  CASE rule.group = "none"     -> <<>>
    [] rule.group = "resource" -> <<"resource">>
    [] OTHER                   -> born

BreakerStatFor(rule, born) == born
HotSpotStatFor(rule, born) == born
NoStatFor(rule, born)      == <<>>

\* A plausible slip: the donor stays in the list and gives again.
LeaveIn(old, i) == old

\* The old controllers that are left when the one at i was used up: each gives
\* its place or its statistic to one new controller.
LeaveOut(old, i) == RemoveAt(old, i)

\* One rule of the list.  The first old controller with an equal rule is kept;
\* otherwise the new one takes the statistic of the first that is reusable.
Place(acc, rule, born, Equals(_, _), Reusable(_, _), StatFor(_, _)) ==
  LET same  == SelectInSeq(acc.old, LAMBDA o : Equals(o.rule, rule))
      donor == SelectInSeq(acc.old, LAMBDA o : Reusable(o.rule, rule))
      Made(stat) == Append(acc.new, [rule |-> rule, born |-> born, stat |-> stat])
  IN CASE same # 0 ->
            [old |-> LeaveOut(acc.old, same), new |-> Append(acc.new, acc.old[same])]
       [] same = 0 /\ ~HasGenerator(rule) -> acc
       [] same = 0 /\ HasGenerator(rule) /\ donor # 0 ->
            [old |-> LeaveOut(acc.old, donor), new |-> Made(acc.old[donor].stat)]
       [] OTHER -> [acc EXCEPT !.new = Made(StatFor(rule, born))]

\* The controllers of resource r for a list of rules; rules of another resource
\* are passed over.  born names a controller by the load, the resource and the
\* place it was made at.
Build(r, list, Equals(_, _), Reusable(_, _), StatFor(_, _)) ==
  LET ours == SelectSeq(list, LAMBDA rule : rule.shape # "foreign")
  IN FoldLeftDomain(LAMBDA acc, k :
         Place(acc, ours[k], <<loads, r, k>>, Equals, Reusable, StatFor),
       [old |-> force[r], new |-> <<>>], ours).new

FlowBuild(r, list) == Build(r, list, FlowEquals, FlowReusable, FlowStatFor)
BreakerBuild(r, list) ==
  Build(r, list, BreakerEquals, BreakerReusable, BreakerStatFor)
HotSpotBuild(r, list) ==
  Build(r, list, HotSpotEquals, HotSpotReusable, HotSpotStatFor)
MockBuild(r, list) == Build(r, list, MockEquals, MockReusable, NoStatFor)
GrayBuild(r, list) == Build(r, list, GrayEquals, GrayReusable, NoStatFor)

\* isolation and system keep the rules themselves, of whatever resource.
PlainBuild(r, list) ==
  [k \in DOMAIN list |->
     [rule |-> list[k], born |-> <<loads, r, k>>, stat |-> <<>>]]

-----------------------------------------------------------------------------
(* An update: under the lock until what was loaded is recorded.              *)

\* A plausible slip: updateRuleMux is not taken.
StartUnlocked(p, m) ==
  /\ mgr = m /\ job[p].step = "none" /\ loads < MaxLoads
  /\ loads' = loads + 1
  /\ UNCHANGED <<mgr, current, force, shown, byId, shared, metric, generator>>

\* The lock is free, and the caller's list is not the one loaded last.
Start(p, m) ==
  /\ mgr = m /\ owner = Nobody /\ job[p].step = "none" /\ loads < MaxLoads
  /\ loads' = loads + 1
  /\ UNCHANGED <<mgr, current, force, shown, byId, shared, metric, generator>>

Begin(p, whole, lists, built) ==
  /\ owner' = p
  /\ job' = [job EXCEPT ![p] = [step |-> "swap", whole |-> whole,
                                lists |-> lists, built |-> built]]

\* Called with what is in force already, or refused: nothing changes.
Return == UNCHANGED <<owner, job>>

\* LoadRules: DeepEqual on the map of all resources.
LoadWhole(p, m, BuildOf(_, _)) ==
  \E w \in Wholes :
    /\ Start(p, m)
    /\ IF w = current THEN Return
       ELSE Begin(p, TRUE, w, [r \in Resources |-> BuildOf(r, Valid(w[r]))])

\* LoadRulesOfResource: an empty list clears the resource without comparing.
LoadOne(p, m, BuildOf(_, _)) ==
  \E r \in Resources, l \in Lists :
    /\ Start(p, m)
    /\ IF l # <<>> /\ l = current[r] THEN Return
       ELSE Begin(p, FALSE, r :> l, r :> BuildOf(r, Valid(l)))

FlowLoadRules(p)                 == LoadWhole(p, "flow", FlowBuild)
FlowLoadRulesOfResource(p)       == LoadOne(p, "flow", FlowBuild)
BreakerLoadRules(p)              == LoadWhole(p, "breaker", BreakerBuild)
HotSpotLoadRules(p)              == LoadWhole(p, "hotspot", HotSpotBuild)
HotSpotLoadRulesOfResource(p)    == LoadOne(p, "hotspot", HotSpotBuild)
MockLoadRules(p)                 == LoadWhole(p, "mock", MockBuild)
MockLoadRulesOfResource(p)       == LoadOne(p, "mock", MockBuild)
GrayLoadRules(p)                 == LoadWhole(p, "gray", GrayBuild)
GrayLoadRulesOfResource(p)       == LoadOne(p, "gray", GrayBuild)
IsolationLoadRules(p)            == LoadWhole(p, "isolation", PlainBuild)
IsolationLoadRulesOfResource(p)  == LoadOne(p, "isolation", PlainBuild)
SystemLoadRules(p)               == LoadWhole(p, "system", PlainBuild)

\* The breakers of one resource are built from the list as it came: an invalid
\* rule gets its breaker, and a nil one panics, which the recover turns into an
\* error before anything was changed.
BreakerLoadRulesOfResource(p) ==
  \E r \in Resources, l \in Lists :
    /\ Start(p, "breaker")
    /\ IF (l # <<>> /\ l = current[r]) \/ \E i \in DOMAIN l : l[i].shape = "nil"
       THEN Return
       ELSE Begin(p, FALSE, r :> l, r :> BreakerBuild(r, l))

\* The new controllers, under the second lock: of all resources, or of one.
\* Resources without controllers have no entry.
Swap(p, m, whole) ==
  /\ mgr = m /\ job[p].step = "swap" /\ job[p].whole = whole
  /\ force' = IF whole THEN job[p].built ELSE job[p].built @@ force
  /\ job' = [job EXCEPT ![p].step = "record"]
  /\ UNCHANGED <<mgr, current, generator, owner, loads>>

NotFlow    == UNCHANGED <<byId, shared, metric>>
NotBreaker == UNCHANGED shown

\* ids once the controllers of a list were entered one after the other.
Enter(ids, tcs) ==
  FoldLeft(LAMBDA acc, tc : [acc EXCEPT ![tc.rule.id] = tc], ids, tcs)

\* The resource of a controller's rule.
Of(tc) == tc.born[2]

IdsOf(tcs) == {tcs[i].rule.id : i \in DOMAIN tcs}
SharedIn(tcMap) ==
  UNION {IdsOf(tcMap[r]) \cap IdsOf(tcMap[q]) : <<r, q>> \in {x \in Resources \X Resources : x[1] # x[2]}}

\* A whole load makes both maps anew: of an identifier of several resources the
\* one that the Go map yields last is left.  The metric of a resource has the
\* shortest queueing time of its rules in cluster mode.
FlowOnRuleUpdate(p) ==
  /\ Swap(p, "flow", TRUE) /\ NotBreaker
  /\ \E order \in SetToSeqs(Resources) :
       byId' = FoldLeft(LAMBDA acc, r : Enter(acc, force'[r]), [i \in Ids |-> None], order)
  /\ shared' = SharedIn(force')
  /\ metric' = [r \in Resources |->
       LET q == {force'[r][i].rule.queue : i \in DOMAIN force'[r]} \ {0}
       IN IF q = {} THEN 0 ELSE Min(q)]

\* A plausible slip: the second map is forgotten.
FlowOnResourceUpdateLeavingIds(p) ==
  Swap(p, "flow", FALSE) /\ NotBreaker /\ NotFlow

\* The load of one resource leaves the metrics.  It overwrites what other
\* resources have under its identifiers; one that leaves the resource without
\* controllers removes what leads to it, and nothing else does.
FlowOnResourceRuleUpdate(p) ==
  /\ Swap(p, "flow", FALSE) /\ NotBreaker
  /\ byId' = FoldLeft(LAMBDA acc, r :
       IF force'[r] # <<>> THEN Enter(acc, force'[r])
       ELSE [i \in Ids |-> IF acc[i] # None /\ Of(acc[i]) = r THEN None ELSE acc[i]],
       byId, SetToSeq(DOMAIN job[p].built))
  /\ shared' = shared \cup SharedIn(force')
  /\ UNCHANGED metric

BreakerOnRuleUpdate(p) ==
  /\ Swap(p, "breaker", TRUE) /\ NotFlow
  /\ shown' = [r \in Resources |-> Valid(job[p].lists[r])]

BreakerOnResourceRuleUpdate(p) ==
  /\ Swap(p, "breaker", FALSE) /\ NotFlow
  /\ shown' = [r \in DOMAIN job[p].built |->
       IF force'[r] = <<>> THEN <<>> ELSE Valid(job[p].lists[r])] @@ shown

HotSpotOnRuleUpdate(p)         == Swap(p, "hotspot", TRUE) /\ NotFlow /\ NotBreaker
HotSpotOnResourceRuleUpdate(p) == Swap(p, "hotspot", FALSE) /\ NotFlow /\ NotBreaker
MockOnRuleUpdate(p)            == Swap(p, "mock", TRUE) /\ NotFlow /\ NotBreaker
MockOnResourceRuleUpdate(p)    == Swap(p, "mock", FALSE) /\ NotFlow /\ NotBreaker
GrayOnRuleUpdate(p)            == Swap(p, "gray", TRUE) /\ NotFlow /\ NotBreaker
GrayOnResourceRuleUpdate(p)    == Swap(p, "gray", FALSE) /\ NotFlow /\ NotBreaker
IsolationOnRuleUpdate(p)       == Swap(p, "isolation", TRUE) /\ NotFlow /\ NotBreaker
IsolationOnResourceUpdate(p)   == Swap(p, "isolation", FALSE) /\ NotFlow /\ NotBreaker
SystemOnRuleUpdate(p)          == Swap(p, "system", TRUE) /\ NotFlow /\ NotBreaker

\* What was loaded is recorded last, and the lock given back.
Record(p) ==
  /\ job[p].step = "record"
  /\ current' = job[p].lists @@ current
  /\ owner' = Nobody /\ job' = [job EXCEPT ![p] = NoJob]
  /\ UNCHANGED <<mgr, force, shown, byId, shared, metric, generator, loads>>

\* Registering or removing a generator for strategies that are not built in.
\* The rules in force are not looked at again.
Register(m) ==
  /\ mgr = m /\ generator' = ~generator
  /\ UNCHANGED <<mgr, current, force, shown, byId, shared, metric, owner, job, loads>>

FlowGenerators    == Register("flow")
BreakerGenerators == Register("breaker")
HotSpotGenerators == Register("hotspot")
GrayGenerators    == Register("gray")

Load(p) ==
  \/ FlowLoadRules(p)      \/ FlowLoadRulesOfResource(p)
  \/ BreakerLoadRules(p)   \/ BreakerLoadRulesOfResource(p)
  \/ HotSpotLoadRules(p)   \/ HotSpotLoadRulesOfResource(p)
  \/ MockLoadRules(p)      \/ MockLoadRulesOfResource(p)
  \/ GrayLoadRules(p)      \/ GrayLoadRulesOfResource(p)
  \/ IsolationLoadRules(p) \/ IsolationLoadRulesOfResource(p)
  \/ SystemLoadRules(p)

Update(p) ==
  \/ FlowOnRuleUpdate(p)      \/ FlowOnResourceRuleUpdate(p)
  \/ BreakerOnRuleUpdate(p)   \/ BreakerOnResourceRuleUpdate(p)
  \/ HotSpotOnRuleUpdate(p)   \/ HotSpotOnResourceRuleUpdate(p)
  \/ MockOnRuleUpdate(p)      \/ MockOnResourceRuleUpdate(p)
  \/ GrayOnRuleUpdate(p)      \/ GrayOnResourceRuleUpdate(p)
  \/ IsolationOnRuleUpdate(p) \/ IsolationOnResourceUpdate(p)
  \/ SystemOnRuleUpdate(p)

Next ==
  \/ \E p \in Updaters : Load(p) \/ Update(p) \/ Record(p)
  \/ FlowGenerators \/ BreakerGenerators \/ HotSpotGenerators \/ GrayGenerators

Spec == Init /\ [][Next]_vars

-----------------------------------------------------------------------------

Bound(r)    == [i \in DOMAIN force[r] |-> force[r][i].rule]
Keys(list)  == [i \in DOMAIN list |-> list[i].key]
Plain(list) == SelectSeq(list, LAMBDA rule : rule.shape = "plain")

\* A load is ignored when it equals the one recorded last, which is right only
\* as long as the rules recorded are the rules in force: when no update is
\* under way the plain rules of currentRules are bound, in their order, and no
\* rule is bound that is not recorded, whoever updated what before whom.
RunsWhatWasLoaded ==
  owner = Nobody => \A r \in Resources :
    /\ Keys(Plain(Bound(r))) = Keys(Plain(current[r]))
    /\ ToSet(Keys(Bound(r))) \subseteq ToSet(Keys(current[r]))

\* A private statistic counts for one rule: no two controllers in force have
\* the same one, however often it was handed on.
StatisticOwnedOnce ==
  \A r, q \in Resources : \A i \in DOMAIN force[r], j \in DOMAIN force[q] :
    /\ force[r][i].stat = force[q][j].stat
    /\ force[r][i].stat \notin {<<>>, <<"resource">>}
    => r = q /\ i = j

\* The controllers of resource r whose statistic is of group g.
OfGroup(tcs, g) == {i \in DOMAIN tcs : tcs[i].rule.group = g}

\* What was counted is not forgotten: in an update of the managers that count,
\* a group gets as many new statistics as it has rules more than before, and
\* none when it has not, whatever became of the rules and their order.
StatisticsSurvive ==
  [][\A r \in Resources : force'[r] # force[r] /\ mgr \in {"flow", "breaker", "hotspot"} =>
       \A g \in {force'[r][i].rule.group : i \in DOMAIN force'[r]} \ {"none", "resource"} :
         Cardinality({i \in OfGroup(force'[r], g) :
                        \A j \in DOMAIN force[r] : force[r][j].stat # force'[r][i].stat})
           <= Max({0, Cardinality(OfGroup(force'[r], g))
                        - Cardinality(OfGroup(force[r], g))})]_vars

\* The token client finds a rule by its identifier (getTrafficControllerFor).
\* An identifier never leads to a resource without controllers; and as long as
\* it was not in force for two resources at once, it leads every rule that has
\* it to a controller of the rule's own resource in force.
FoundById ==
  /\ \A i \in Ids : byId[i] # None => force[Of(byId[i])] # <<>>
  /\ mgr = "flow" => \A r \in Resources : \A i \in DOMAIN force[r] :
       LET id == force[r][i].rule.id
       IN id \notin shared => byId[id] \in ToSet(force[r])

\* Refuted by TLC, like the next three: a rule with the identifier of a rule of
\* another resource is overwritten or removed with it.  The README describes
\* what the code does instead (section 3).
FoundWhenShared ==
  mgr = "flow" => \A r \in Resources : \A i \in DOMAIN force[r] :
    byId[force[r][i].rule.id] # None

\* A rule that was loaded is found under its identifier.
FoundByLoadedId ==
  owner = Nobody /\ mgr = "flow" => \A r \in Resources :
    \A i \in DOMAIN Plain(current[r]) : byId[Plain(current[r])[i].id] # None

\* An identifier leads to a controller that is in force.
FoundInForce ==
  \A i \in Ids : byId[i] # None => byId[i] \in ToSet(force[Of(byId[i])])

\* GetRules of circuitbreaker answers the rules that have a breaker.
ShownIsInForce ==
  owner = Nobody /\ mgr = "breaker" => \A r \in Resources :
    ToSet(Keys(Bound(r))) \subseteq ToSet(Keys(shown[r]))

=============================================================================
