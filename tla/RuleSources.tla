----------------------------- MODULE RuleSources -----------------------------
(* How rules reach the rule managers.  The dashboard publishes versions of  *)
(* each rule type.  Four parties put them in force: the fetching timer      *)
(* (fetchRuleInitFunc.Initial), the single load at start-up                 *)
(* (ImmediatelyLoadOnce), the command centre to which the dashboard pushes, *)
(* and the watcher of the file that the handlers write and that a process   *)
(* reads when it starts.  A rule list is known by its version; what the     *)
(* managers do with it is RuleManager.                                      *)
EXTENDS Integers, FiniteSets

CONSTANTS
    Types,          \* the rule types published
    MaxVersion,     \* bound: how many publications there are, of all types
    MaxPushes,      \* bound: how many of them the dashboard also pushes
    MaxFailures     \* bound: failed steps, disturbances of files and crashes

\* RuleTypes; a manager for the authority type does not exist.
RuleTypes == {"flow", "degrade", "hotParam", "mock", "system", "retry", "gray",
              "isolation", "weightRouter"}

ASSUME TypesAssumption == Types \subseteq RuleTypes

None    == 0                        \* no rules
Empty   == -1                       \* a file that has been truncated
Torn    == -2                       \* a file two writers wrote into
Missing == -3
Idle    == -4                       \* a watcher that holds no content

Loaders == {"timer", "once"}
Callers == Loaders \cup {"command"}
Free    == "free"

VARIABLES
    published,      \* the dashboard: newest version by type
    registered,     \* Initial of the fetching function came to BeforeStart, which
                    \* registers the rule handlers, and started the timer
    inForce,        \* the version whose rules the manager runs
    recorded,       \* <Type>RuleTypeCurrentVersion
    caller,         \* what each caller of a rule handler is doing
    mux,            \* handleRuleMux
    file,           \* content of the rule file
    watch,          \* "off" before the source is initialised, "on", "lost"
    events,         \* file events the watcher has not seen
    took,           \* what the watcher has read and not handled
    handled,        \* lastUpdateProperty
    pushes, failures,
    applied,        \* history: newest version put in force in this life
    spoiled         \* history: see the actions that set it

vars == <<published, registered, inForce, recorded, caller, mux, file, watch, events, took,
          handled, pushes, failures, applied, spoiled>>
rules  == <<inForce, applied>>
files  == <<file, events>>
source == <<watch, took, handled>>
bounds == <<pushes, failures>>

Resting == [pc |-> "rest", seen |-> [t \in {} |-> 0], type |-> "none", data |-> None]
Ended   == [Resting EXCEPT !.pc = "end"]

-----------------------------------------------------------------------------
(* The parsers accept neither an empty source nor a broken one; the file     *)
(* source of isolation rules was given the updater of gray rules, which      *)
(* rejects what the isolation parser returns.                                *)
ParsesEmpty(data) == data >= Empty      \* mutant: an empty source is an empty list

Parses(data) == data > 0

FileUpdates(t) == t # "isolation"

\* The command handlers, the rule types they know, when they apply the data.
SetRules(t, data) ==
    /\ t \in {"flow", "degrade", "system", "isolation", "weightRouter"}
    /\ Parses(data)
SetParamFlowRules(t, data) == t = "hotParam" /\ Parses(data)
SetMockRules(t, data)      == t = "mock" /\ Parses(data)
SetRetryRules(t, data)     == t = "retry" /\ Parses(data)
SetGrayRules(t, data)      == t = "gray" /\ Parses(data)

Handles(t, data) ==
    \/ SetRules(t, data)
    \/ SetParamFlowRules(t, data)
    \/ SetMockRules(t, data)
    \/ SetRetryRules(t, data)
    \/ SetGrayRules(t, data)

PutInForce(t, data) ==
    /\ inForce' = [inForce EXCEPT ![t] = data]
    /\ applied' = [applied EXCEPT ![t] = IF data > @ THEN data ELSE @]

-----------------------------------------------------------------------------
Init ==
    /\ published = [t \in Types |-> None]
    /\ registered \in BOOLEAN
    /\ inForce   = [t \in Types |-> None]
    /\ recorded  = [t \in Types |-> None]
    /\ caller    = [p \in Callers |-> Resting]
    /\ mux       = Free
    /\ file      = [t \in Types |-> Missing]
    /\ watch     = [t \in Types |-> "off"]
    /\ events    = [t \in Types |-> {}]
    /\ took      = [t \in Types |-> Idle]
    /\ handled   = [t \in Types |-> None]
    /\ pushes = 0 /\ failures = 0
    /\ applied   = [t \in Types |-> None]
    /\ spoiled   = FALSE

-----------------------------------------------------------------------------
(* The dashboard.                                                           *)
Publish(t) ==
    /\ Cardinality({x \in Types \X (1 .. MaxVersion) : x[2] <= published[x[1]]}) < MaxVersion
    /\ published' = [published EXCEPT ![t] = @ + 1]
    /\ UNCHANGED <<registered, recorded, caller, mux, rules, files, source, bounds, spoiled>>

Push(t) ==
    /\ caller["command"].pc = "rest" /\ pushes < MaxPushes /\ published[t] # None
    /\ caller' = [caller EXCEPT !["command"] =
                     [Resting EXCEPT !.pc = "handle", !.type = t, !.data = published[t]]]
    /\ pushes' = pushes + 1
    /\ UNCHANGED <<published, registered, recorded, mux, rules, files, source, failures, spoiled>>

-----------------------------------------------------------------------------
(* The two loaders.  The timer comes back to rest, the single load ends; a   *)
(* failure ends the single load and makes the timer go on with another type. *)
Rest(l) == IF l = "timer" THEN Resting ELSE Ended

Without(c, t) ==
    [c EXCEPT !.pc = "types", !.type = "none", !.data = None,
              !.seen = [u \in DOMAIN @ \ {t} |-> @[u]]]

FindMaxVersion(l) ==
    /\ caller[l].pc = "rest"
    /\ l = "timer" => registered
    /\ l = "once" => \A t \in Types : watch[t] # "off"
    /\ LET types == {t \in Types : published[t] # None}
       IN caller' = [caller EXCEPT ![l] =
                       [Resting EXCEPT !.pc = "types", !.seen = [t \in types |-> published[t]]]]
    /\ UNCHANGED <<published, registered, recorded, mux, rules, files, source, bounds, spoiled>>

NoMoreTypes(l) ==
    /\ caller[l].pc = "types" /\ DOMAIN caller[l].seen = {}
    /\ caller' = [caller EXCEPT ![l] = Rest(l)]
    /\ UNCHANGED <<published, registered, recorded, mux, rules, files, source, bounds, spoiled>>

Check(l, t) == recorded[t] = caller[l].seen[t]

FindRule(l) ==
    /\ caller[l].pc = "types"
    /\ \E t \in DOMAIN caller[l].seen :
          caller' = [caller EXCEPT ![l] =
              IF Check(l, t) THEN Without(@, t)
              ELSE [@ EXCEPT !.pc = "handle", !.type = t, !.data = published[t]]]
    /\ UNCHANGED <<published, registered, recorded, mux, rules, files, source, bounds, spoiled>>

Fail == failures < MaxFailures /\ failures' = failures + 1 /\ UNCHANGED pushes

\* The request fails, or, later, the handler does and applies nothing.
LoadFails(l) ==
    /\ Fail
    /\ \/ caller[l].pc = "rest" /\ l = "once" /\ caller' = [caller EXCEPT ![l] = Ended]
       \/ /\ caller[l].pc = "handle" /\ mux = Free
          /\ caller' = [caller EXCEPT ![l] =
                 IF l = "timer" THEN Without(@, @.type) ELSE Ended]
       \/ /\ caller[l].pc = "types"
          /\ \E t \in DOMAIN caller[l].seen :
                caller' = [caller EXCEPT ![l] =
                   IF l = "timer" THEN Without(@, t) ELSE Ended]
    /\ UNCHANGED <<published, registered, recorded, mux, rules, files, source, spoiled>>

\* Mutant: the newest version is recorded, not the one the rules were asked for.
SetNewestVersion(l) == recorded' = [recorded EXCEPT ![caller[l].type] = published[caller[l].type]]

SetVersion(l) == recorded' = [recorded EXCEPT ![caller[l].type] = caller[l].seen[caller[l].type]]

SetRuleTypeCurrentVersion(l) ==
    /\ caller[l].pc = "record"
    /\ SetVersion(l)
    /\ caller' = [caller EXCEPT ![l] = Without(@, @.type)]
    /\ UNCHANGED <<published, registered, mux, rules, files, source, bounds, spoiled>>

-----------------------------------------------------------------------------
(* The handler a caller runs: it puts the rules in force, opens the file,    *)
(* which truncates it, and writes it.  The loaders hold handleRuleMux for    *)
(* that long, the command centre does not.                                   *)
\* Older rules over newer ones.  The timer repairs that itself, unless the
\* newer ones are the other loader's and not recorded yet.
Older(p) ==
    /\ caller[p].data < applied[caller[p].type]
    /\ p = "timer" => caller["once"].pc = "record"

AfterWrite(p) ==
    /\ mux' = IF p = "command" THEN mux ELSE Free
    /\ caller' = [caller EXCEPT ![p] = IF p = "command" THEN Resting
                                       ELSE [@ EXCEPT !.pc = "record"]]

Handle(p) ==
    LET t == caller[p].type  data == caller[p].data  IN
    /\ caller[p].pc = "handle" /\ Handles(t, data)
    /\ p = "command" \/ registered
    /\ IF p = "command" THEN UNCHANGED mux ELSE mux = Free /\ mux' = p
    /\ PutInForce(t, data)
    /\ spoiled' = (spoiled \/ Older(p))
    /\ caller' = [caller EXCEPT ![p].pc = "open"]
    /\ UNCHANGED <<published, registered, recorded, files, source, bounds>>

\* HandleRule finds no handler and reports success: nothing is applied, and the
\* version is recorded all the same.  Only the single load gets here, when
\* Initial returned before BeforeStart (the SDK was closed) while the command
\* centre of an earlier initialisation still runs.
HandleNothing(l) ==
    /\ caller[l].pc = "handle" /\ ~registered /\ mux = Free
    /\ caller' = [caller EXCEPT ![l].pc = "record"]
    /\ UNCHANGED <<published, registered, recorded, mux, rules, files, source, bounds, spoiled>>

\* Mutant: a change is missed while the watcher handles an earlier one.
ChangedUnseen(t, content) ==
    /\ file' = [file EXCEPT ![t] = content]
    /\ events' = [events EXCEPT ![t] = IF watch[t] = "on" /\ "gone" \notin @ /\ took[t] = Idle
                                       THEN @ \cup {"write"} ELSE @]

Changed(t, content) ==
    /\ file' = [file EXCEPT ![t] = content]
    /\ events' = [events EXCEPT ![t] = IF watch[t] = "on" /\ "gone" \notin @
                                       THEN @ \cup {"write"} ELSE @]

\* A source that has not been registered yet counts as written.
Open(p) ==
    LET t == caller[p].type  IN
    /\ caller[p].pc = "open"
    /\ IF watch[t] = "off"
       THEN AfterWrite(p) /\ UNCHANGED files
       ELSE /\ Changed(t, Empty)
            /\ caller' = [caller EXCEPT ![p].pc = "write"]
            /\ UNCHANGED mux
    /\ UNCHANGED <<published, registered, recorded, rules, source, bounds, spoiled>>

Write(p) ==
    LET t == caller[p].type  data == caller[p].data  IN
    /\ caller[p].pc = "write"
    /\ \E content \in IF file[t] \in {Empty, data} THEN {data}
                      ELSE IF file[t] = Missing THEN {Missing} ELSE {data, Torn} :
          /\ Changed(t, content)
          /\ spoiled' = (spoiled \/ Older(p) \/ content = Torn)
    /\ AfterWrite(p)
    /\ UNCHANGED <<published, registered, recorded, rules, source, bounds>>

\* "partial success (write data source failed)"
WriteFails(p) ==
    /\ Fail
    /\ caller[p].pc \in {"open", "write"} /\ watch[caller[p].type] # "off"
    /\ AfterWrite(p)
    /\ spoiled' = TRUE
    /\ UNCHANGED <<published, registered, recorded, rules, files, source>>

-----------------------------------------------------------------------------
(* The file source of a type: it applies what it finds when it is            *)
(* initialised, then after every event.                                      *)
isPropertyConsistent(t, data) == data = handled[t]

\* DefaultPropertyHandler.Handle, with what it does to the rules in force.
HandleProperty(t, data) ==
    IF Parses(data) /\ ~isPropertyConsistent(t, data)
    THEN /\ handled' = [handled EXCEPT ![t] = data]
         /\ IF FileUpdates(t) THEN PutInForce(t, data) ELSE UNCHANGED rules
    ELSE UNCHANGED <<rules, handled>>

Initialize(t) ==
    /\ watch[t] = "off"
    /\ HandleProperty(t, file[t])
    /\ file' = [file EXCEPT ![t] = IF @ = Missing THEN Empty ELSE @]
    /\ watch' = [watch EXCEPT ![t] = "on"]
    /\ spoiled' = (spoiled \/ inForce'[t] < inForce[t])
    /\ UNCHANGED <<published, registered, recorded, caller, mux, events, took, bounds>>

Listening(t) == watch[t] = "on" /\ took[t] = Idle

ReadSource(t) ==
    /\ Listening(t) /\ "write" \in events[t]
    /\ events' = [events EXCEPT ![t] = @ \ {"write"}]
    /\ took' = [took EXCEPT ![t] = file[t]]
    /\ UNCHANGED <<published, registered, recorded, caller, mux, rules, file, watch, handled, bounds,
                   spoiled>>

Update(t) ==
    /\ took[t] # Idle
    /\ took' = [took EXCEPT ![t] = Idle]
    /\ HandleProperty(t, took[t])
    /\ UNCHANGED <<published, registered, recorded, caller, mux, files, watch, bounds, spoiled>>

\* The property is remembered, and the update that follows fails.
UpdateFails(t) ==
    /\ Fail
    /\ took[t] # Idle /\ Parses(took[t])
    /\ took' = [took EXCEPT ![t] = Idle]
    /\ handled' = [handled EXCEPT ![t] = took[t]]
    /\ spoiled' = TRUE
    /\ UNCHANGED <<published, registered, recorded, caller, mux, rules, files, watch>>

\* A file is removed or renamed: the watcher ends in its own Close, or looks
\* for a file of that name again and stops when none appears.
Disturb(t) ==
    /\ Fail
    /\ file[t] # Missing /\ watch[t] # "off"
    /\ file' = [file EXCEPT ![t] = Missing]
    /\ events' = [events EXCEPT ![t] = IF watch[t] = "on" THEN @ \cup {"gone"} ELSE @]
    /\ spoiled' = TRUE
    /\ UNCHANGED <<published, registered, recorded, caller, mux, rules, source>>

Gone(t) ==
    /\ Listening(t) /\ events[t] = {"gone"}
    /\ events' = [events EXCEPT ![t] = {}]
    /\ \/ watch' = [watch EXCEPT ![t] = "lost"] /\ UNCHANGED took
       \/ file[t] # Missing /\ took' = [took EXCEPT ![t] = file[t]] /\ UNCHANGED watch
    /\ UNCHANGED <<published, registered, recorded, caller, mux, rules, file, handled, bounds, spoiled>>

\* The process ends, and starts again with nothing but its files.
Crash ==
    /\ Fail
    /\ inForce'  = [t \in Types |-> None]
    /\ applied'  = [t \in Types |-> None]
    /\ recorded' = [t \in Types |-> None]
    /\ caller'   = [p \in Callers |-> Resting]
    /\ mux'      = Free
    /\ watch'    = [t \in Types |-> "off"]
    /\ events'   = [t \in Types |-> {}]
    /\ took'     = [t \in Types |-> Idle]
    /\ handled'  = [t \in Types |-> None]
    /\ registered' \in BOOLEAN
    /\ UNCHANGED <<published, file, spoiled>>

-----------------------------------------------------------------------------
Timer ==
    \/ FindMaxVersion("timer") \/ NoMoreTypes("timer") \/ FindRule("timer")
    \/ Handle("timer") \/ Open("timer") \/ Write("timer")
    \/ SetRuleTypeCurrentVersion("timer")

Once ==
    \/ FindMaxVersion("once") \/ NoMoreTypes("once") \/ FindRule("once")
    \/ Handle("once") \/ HandleNothing("once") \/ Open("once") \/ Write("once")
    \/ SetRuleTypeCurrentVersion("once")

Command == Handle("command") \/ Open("command") \/ Write("command")

Watcher(t) == Initialize(t) \/ ReadSource(t) \/ Update(t) \/ Gone(t)

Environment ==
    \/ \E t \in Types : Publish(t) \/ Push(t) \/ Disturb(t) \/ UpdateFails(t)
    \/ \E l \in Loaders : LoadFails(l)
    \/ \E p \in Callers : WriteFails(p)
    \/ Crash

Next == Timer \/ Once \/ Command \/ Environment \/ \E t \in Types : Watcher(t)

Fairness ==
    /\ WF_vars(Timer) /\ WF_vars(Once) /\ WF_vars(Command)
    /\ \A t \in Types : WF_vars(Watcher(t))

Spec == Init /\ [][Next]_vars /\ Fairness

-----------------------------------------------------------------------------
(* A version is recorded only after rules at least as new were put in force  *)
(* in this life of the process: the fetching timer skips a recorded version, *)
(* so a version recorded too early is never loaded.  Without handlers it is  *)
(* recorded for nothing, but then no timer runs either.                      *)
RecordedWasApplied ==
    registered => \A t \in Types : recorded[t] <= applied[t]

(* While the process lives, nothing takes the rules of a type away again: an *)
(* empty, torn or missing file, or a failed load, leaves those in force.     *)
RulesStay ==
    [][(\A t \in Types : inForce[t] > None => inForce'[t] > None)
       \/ \A t \in Types : watch'[t] = "off"]_vars

(* Once the dashboard stops publishing, its newest versions come into force  *)
(* and stay, whatever fetches and handlers failed, however late the watcher  *)
(* applied the file, and after a crash; unless a push, the single load or    *)
(* the initialisation of a source put older rules over newer ones, or the    *)
(* file itself could not be written, disappeared or was remembered without   *)
(* being applied; or unless no timer was started.                            *)
NewestInForce == <>[](inForce = published) \/ <>spoiled \/ <>[]~registered

(* Refuted by TLC (README, section 3): a version that is recorded has been    *)
(* applied, whatever Initial did.                                             *)
RecordedAlwaysApplied == \A t \in Types : recorded[t] <= applied[t]

=============================================================================
