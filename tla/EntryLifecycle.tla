--------------------------- MODULE EntryLifecycle ---------------------------
(***************************************************************************)
(* One resource, many concurrent entries: api.Entry, the slot chain and    *)
(* SeaEntry.Exit, with the two object pools behind them (EntryContext in   *)
(* core/base, EntryOptions in api) and the stat node of the resource.      *)
(*                                                                         *)
(* Every member of Entries is one SeaEntry, carried by a goroutine of its  *)
(* own.  A value that some request put somewhere (an error, a gray route,  *)
(* a source service) is represented by the entry of that request.          *)
(*                                                                         *)
(* Abstractions.                                                           *)
(*  - Of the rule check slots only isolation has state here; the others    *)
(*    may refuse any request.  The batch count is 1.                       *)
(*  - sync.Pool hands out any pooled object; the finite sets Contexts and  *)
(*    Options bound how many can be in use at once.  Objects that were     *)
(*    never used are in the pool from the start.                           *)
(*  - Internal panics strike the entries of Faulty, between the effects of *)
(*    two slots and never in the middle of one.                            *)
(*  - Callers may write errors to an entry they have got (TraceError,      *)
(*    SetError, Exit(WithError)) at any time, also while another goroutine *)
(*    exits it and by a further Exit after the first; "late" remembers     *)
(*    whose error came after the context was reset.                        *)
(***************************************************************************)
EXTENDS Integers, FiniteSets

CONSTANTS
  Entries,      \* SeaEntry objects
  Contexts,     \* EntryContext objects
  Options,      \* EntryOptions objects
  Nodes,        \* ResourceNode objects
  None,         \* nil
  StatSlots,    \* number of stat slots; the first one is stat.Slot
  Threshold,    \* threshold of the resource's isolation rule
  Named,        \* the entries whose caller passes WithFromService
  Grayed,       \* the entries to which a gray rule of the resource applies
  Faulty        \* the entries whose slots and exit handlers may panic

ASSUME EntriesAssumption == IsFiniteSet(Entries)
ASSUME NoneAssumption == None \notin Entries \cup Contexts \cup Options \cup Nodes
ASSUME SlotsAssumption == StatSlots \in Nat \ {0}
ASSUME KindsAssumption ==
  Named \subseteq Entries /\ Grayed \subseteq Entries /\ Faulty \subseteq Entries
ASSUME ThresholdAssumption == Threshold \in Nat

VARIABLES
  phase,        \* what each entry's goroutine does next
  outcome,      \* what api.Entry returned for it
  ctx,          \* SeaEntry.ctx, never cleared
  options,      \* the EntryOptions it uses
  statNode,     \* EntryContext.StatNode
  passed,       \* stat slots whose OnEntryPassed ran
  completed,    \* stat slots whose OnCompleted ran
  routed,       \* SeaEntry.grayRes: the request whose route it got
  counted,      \* the request whose error its completion was counted with
  late,         \* history: entries whose error was written after their context
                \* had been reset
  err,          \* EntryContext.err
  blocked,      \* EntryContext.RuleCheckResult is blocked
  grayRes,      \* EntryContext.RuleCheckResult.grayRes and its address list
  fromService,  \* EntryContext.FromService
  ctxPool,      \* pooled contexts
  optionsPool,  \* pooled options
  optionsFrom,  \* EntryOptions.fromService
  resNode,      \* the resource's entry in resNodeMap
  concurrency   \* concurrency counter of each node

progress == <<phase, outcome, ctx, options, statNode>>
slots    == <<passed, completed, counted, concurrency, late>>
context  == <<err, blocked, grayRes, fromService>>
pools    == <<ctxPool, optionsPool, optionsFrom>>
vars     == <<progress, slots, context, pools, routed, resNode>>

Phases == { "new", "prepare", "createNode", "check", "route", "stat",
            "running", "exitHandlers", "complete", "reset", "put", "done" }
Outcomes == { "pending", "pass", "blocked", "panic" }

GoTo(e, p) == phase' = [phase EXCEPT ![e] = p]

\* The deferred function of api.Entry.  Reset leaves fromService alone.
PutOptions(e) ==
  /\ optionsPool' = optionsPool \cup {options[e]}
  /\ options' = [options EXCEPT ![e] = None]

\* Entries whose pass stat.Slot has recorded on node n and not yet completed.
InFlight(n) ==
  { e \in Entries : statNode[e] = n /\ passed[e] >= 1 /\ completed[e] = 0 }

Init ==
  /\ phase = [e \in Entries |-> "new"]
  /\ outcome = [e \in Entries |-> "pending"]
  /\ ctx = [e \in Entries |-> None]
  /\ options = [e \in Entries |-> None]
  /\ statNode = [e \in Entries |-> None]
  /\ passed = [e \in Entries |-> 0]
  /\ completed = [e \in Entries |-> 0]
  /\ routed = [e \in Entries |-> None]
  /\ counted = [e \in Entries |-> None]
  /\ late = {}
  /\ err = [c \in Contexts |-> None]
  /\ blocked = [c \in Contexts |-> FALSE]
  /\ grayRes = [c \in Contexts |-> None]
  /\ fromService = [c \in Contexts |-> None]
  /\ ctxPool = Contexts
  /\ optionsPool = Options
  /\ optionsFrom = [o \in Options |-> None]
  /\ resNode = None
  /\ concurrency = [n \in Nodes |-> 0]

-----------------------------------------------------------------------------
(* api.Entry and SlotChain.Entry                                            *)

GetPooledContext(e, c) ==
  /\ c \in ctxPool
  /\ ctxPool' = ctxPool \ {c}
  /\ ctx' = [ctx EXCEPT ![e] = c]

\* Options come from their pool and the caller's option functions are applied
\* (WithFromService among them or not); a pooled context is filled from them.
Entry(e) ==
  /\ phase[e] = "new"
  /\ \E o \in optionsPool, c \in Contexts :
       LET from == IF e \in Named THEN e ELSE optionsFrom[o]
       IN /\ optionsPool' = optionsPool \ {o}
          /\ optionsFrom' = [optionsFrom EXCEPT ![o] = from]
          /\ options' = [options EXCEPT ![e] = o]
          /\ GetPooledContext(e, c)
          /\ fromService' = [fromService EXCEPT ![c] = from]
  /\ GoTo(e, "prepare")
  /\ UNCHANGED <<outcome, statNode, slots, err, blocked, grayRes, routed, resNode>>

\* ResourceNodePrepareSlot looks the resource up in resNodeMap ...
LookUpNode(e) ==
  /\ phase[e] = "prepare"
  /\ IF resNode = None
     THEN GoTo(e, "createNode") /\ UNCHANGED statNode
     ELSE GoTo(e, "check") /\ statNode' = [statNode EXCEPT ![e] = resNode]
  /\ UNCHANGED <<outcome, ctx, options, slots, context, pools, routed, resNode>>

\* ... and stores a new node, whatever the map holds by now.
CreateNode(e) ==
  /\ phase[e] = "createNode"
  /\ \E n \in Nodes \ {statNode[f] : f \in Entries} :
       /\ resNode' = n
       /\ statNode' = [statNode EXCEPT ![e] = n]
  /\ GoTo(e, "check")
  /\ UNCHANGED <<outcome, ctx, options, slots, context, pools, routed>>

\* The isolation rule compares the node's concurrency; a negative one counts
\* as 0.
IsolationPasses(e) ==
  LET cur == concurrency[statNode[e]]
  IN (IF cur >= 0 THEN cur ELSE 0) + 1 <= Threshold

\* What becomes of a context's result: it is reset, which leaves its gray route
\* alone, or another object replaces it, without a route.
ResetToPass(c) ==
  blocked' = [blocked EXCEPT ![c] = FALSE] /\ UNCHANGED grayRes

ResetToBlockedWith(c) ==
  blocked' = [blocked EXCEPT ![c] = TRUE] /\ UNCHANGED grayRes

NewTokenResultBlocked(c) ==
  blocked' = [blocked EXCEPT ![c] = TRUE] /\ grayRes' = [grayRes EXCEPT ![c] = None]

\* The rule check slots, in order until one refuses.  A slot may refuse with
\* the context's own result object or with a new one.
Check(e) ==
  /\ phase[e] = "check"
  /\ \/ IsolationPasses(e) /\ ResetToPass(ctx[e])
     \/ ResetToBlockedWith(ctx[e])
     \/ NewTokenResultBlocked(ctx[e])
  /\ GoTo(e, "route")
  /\ UNCHANGED <<outcome, ctx, options, statNode, slots, err, fromService,
                 pools, routed, resNode>>

\* The router slot runs for refused requests too.  Without a rule that applies
\* it returns the context's result, whose route is then copied onto itself.
Route(e) ==
  /\ phase[e] = "route"
  /\ \/ e \notin Grayed /\ UNCHANGED <<blocked, grayRes>>
     \/ /\ e \in Grayed
        /\ \/ grayRes' = [grayRes EXCEPT ![ctx[e]] = e] /\ UNCHANGED blocked
           \/ ResetToBlockedWith(ctx[e])
  /\ GoTo(e, "stat")
  /\ UNCHANGED <<outcome, ctx, options, statNode, slots, err, fromService,
                 pools, routed, resNode>>

\* The next stat slot records the pass.
OnEntryPassed(e) ==
  /\ phase[e] = "stat"
  /\ ~blocked[ctx[e]]
  /\ passed[e] < StatSlots
  /\ passed' = [passed EXCEPT ![e] = @ + 1]
  /\ concurrency' = IF passed[e] = 0
                    THEN [concurrency EXCEPT ![statNode[e]] = @ + 1]
                    ELSE concurrency
  /\ UNCHANGED <<progress, completed, counted, late, context, pools, routed,
                 resNode>>

\* SlotChain.Entry returns: a passed request gets its entry, with the gray
\* route of the result; a refused one is exited on the spot.
Return(e) ==
  /\ phase[e] = "stat"
  /\ \/ /\ blocked[ctx[e]]
        /\ outcome' = [outcome EXCEPT ![e] = "blocked"]
        /\ GoTo(e, "exitHandlers")
        /\ UNCHANGED <<routed, options, optionsPool>>
     \/ /\ ~blocked[ctx[e]]
        /\ passed[e] = StatSlots
        /\ outcome' = [outcome EXCEPT ![e] = "pass"]
        /\ routed' = [routed EXCEPT ![e] = grayRes[ctx[e]]]
        /\ PutOptions(e)
        /\ GoTo(e, "running")
  /\ UNCHANGED <<ctx, statNode, slots, context, ctxPool, optionsFrom, resNode>>

\* A slot panics: SlotChain.Entry recovers, records the panic as the error of
\* the request and returns nil, which api.Entry takes for a pass.
Recover(e) ==
  /\ e \in Faulty
  /\ phase[e] \in {"check", "route", "stat"}
  /\ outcome' = [outcome EXCEPT ![e] = "panic"]
  /\ err' = [err EXCEPT ![ctx[e]] = e]
  /\ PutOptions(e)
  /\ GoTo(e, "running")
  /\ UNCHANGED <<ctx, statNode, slots, blocked, grayRes, fromService, ctxPool,
                 optionsFrom, routed, resNode>>

-----------------------------------------------------------------------------
(* The caller, and SeaEntry.Exit                                            *)

\* TraceError, SetError or a further Exit(WithError(..)) writes to the context
\* of the entry, outside exitCtl: also while another goroutine exits it, and
\* when the context has been reset, pooled or given to another request.
SetError(e) ==
  /\ outcome[e] \in {"pass", "panic"}
  /\ err' = [err EXCEPT ![ctx[e]] = e]
  /\ late' = IF phase[e] \in {"put", "done"} THEN late \cup {e} ELSE late
  /\ UNCHANGED <<progress, passed, completed, counted, concurrency, blocked,
                 grayRes, fromService, pools, routed, resNode>>

\* A plausible slip: every call of Exit goes through the whole exit.
ExitEachTime(e) ==
  /\ phase[e] \in {"running", "done"}
  /\ outcome[e] # "blocked"
  /\ GoTo(e, "exitHandlers")
  /\ UNCHANGED <<outcome, ctx, options, statNode, slots, context, pools, routed, resNode>>

\* The first Exit of an entry; exitCtl turns every other one into nothing.
Exit(e) ==
  /\ phase[e] = "running"
  /\ GoTo(e, "exitHandlers")
  /\ UNCHANGED <<outcome, ctx, options, statNode, slots, context, pools, routed, resNode>>

\* Plausible slips: refused requests are completed like the others ...
CompleteAll(e) ==
  /\ phase[e] = "exitHandlers"
  /\ GoTo(e, "complete")
  /\ UNCHANGED <<outcome, ctx, options, statNode, slots, context, pools, routed, resNode>>

\* ... or leave the exit before the context is given back.
CompletePassed(e) ==
  /\ phase[e] = "exitHandlers"
  /\ ~blocked[ctx[e]]
  /\ GoTo(e, "complete")
  /\ UNCHANGED <<outcome, ctx, options, statNode, slots, context, pools, routed, resNode>>

\* The exit handlers run; then SlotChain.exit skips the stat slots of a
\* refused request.
RunExitHandlers(e) ==
  /\ phase[e] = "exitHandlers"
  /\ GoTo(e, IF blocked[ctx[e]] THEN "reset" ELSE "complete")
  /\ UNCHANGED <<outcome, ctx, options, statNode, slots, context, pools, routed, resNode>>

\* A plausible slip: the last round of the loop runs past the stat slots.
CompleteOneMore(e) ==
  /\ phase[e] = "complete"
  /\ completed' = [completed EXCEPT ![e] = @ + 1]
  /\ GoTo(e, IF completed[e] = StatSlots THEN "reset" ELSE "complete")
  /\ UNCHANGED <<outcome, ctx, options, statNode, passed, counted, concurrency,
                 late, context, pools, routed, resNode>>

\* The next stat slot completes the entry; stat.Slot counts its error.
OnCompleted(e) ==
  /\ phase[e] = "complete"
  /\ completed' = [completed EXCEPT ![e] = @ + 1]
  /\ IF completed[e] = 0
     THEN /\ concurrency' = [concurrency EXCEPT ![statNode[e]] = @ - 1]
          /\ counted' = [counted EXCEPT ![e] = err[ctx[e]]]
     ELSE UNCHANGED <<concurrency, counted>>
  /\ GoTo(e, IF completed[e] + 1 = StatSlots THEN "reset" ELSE "complete")
  /\ UNCHANGED <<outcome, ctx, options, statNode, passed, late, context, pools,
                 routed, resNode>>

\* An exit handler or a stat slot panics: what is left of the exit is skipped,
\* except for the deferred RefurbishContext.
ExitPanics(e) ==
  /\ e \in Faulty
  /\ phase[e] \in {"exitHandlers", "complete"}
  /\ GoTo(e, "reset")
  /\ UNCHANGED <<outcome, ctx, options, statNode, slots, context, pools, routed, resNode>>

\* A plausible slip: the error stays in the context.
ResetButError(e) ==
  /\ phase[e] = "reset"
  /\ ResetToPass(ctx[e])
  /\ fromService' = [fromService EXCEPT ![ctx[e]] = None]
  /\ GoTo(e, "put")
  /\ UNCHANGED <<outcome, ctx, options, statNode, slots, err, pools, routed, resNode>>

\* RefurbishContext resets the context, all but the gray fields of its result ...
Reset(e) ==
  /\ phase[e] = "reset"
  /\ err' = [err EXCEPT ![ctx[e]] = None]
  /\ ResetToPass(ctx[e])
  /\ fromService' = [fromService EXCEPT ![ctx[e]] = None]
  /\ GoTo(e, "put")
  /\ UNCHANGED <<outcome, ctx, options, statNode, slots, pools, routed, resNode>>

\* ... and pools it.  For a refused request this is still inside api.Entry.
RefurbishContext(e) ==
  /\ phase[e] = "put"
  /\ ctxPool' = ctxPool \cup {ctx[e]}
  /\ IF outcome[e] = "blocked"
     THEN PutOptions(e)
     ELSE UNCHANGED <<options, optionsPool>>
  /\ GoTo(e, "done")
  /\ UNCHANGED <<outcome, ctx, statNode, slots, context, optionsFrom, routed, resNode>>

-----------------------------------------------------------------------------

\* The steps an entry takes once it has begun.
Proceed(e) ==
  \/ LookUpNode(e)
  \/ CreateNode(e)
  \/ Check(e)
  \/ Route(e)
  \/ OnEntryPassed(e)
  \/ Return(e)
  \/ Recover(e)
  \/ Exit(e)
  \/ RunExitHandlers(e)
  \/ OnCompleted(e)
  \/ ExitPanics(e)
  \/ Reset(e)
  \/ RefurbishContext(e)

\* Every entry has been used.
Finished == (\A e \in Entries : phase[e] = "done") /\ UNCHANGED vars

Next == Finished \/ \E e \in Entries : Entry(e) \/ SetError(e) \/ Proceed(e)

Spec == Init /\ [][Next]_vars

\* Goroutines are scheduled, and whoever got an entry exits it.
Fairness == \A e \in Entries : WF_vars(Proceed(e))

FairSpec == Spec /\ Fairness

-----------------------------------------------------------------------------
(* Properties                                                               *)

\* The values each variable ranges over.
TypeOK ==
  /\ phase \in [Entries -> Phases]
  /\ outcome \in [Entries -> Outcomes]
  /\ ctx \in [Entries -> Contexts \cup {None}]
  /\ options \in [Entries -> Options \cup {None}]
  /\ statNode \in [Entries -> Nodes \cup {None}]
  /\ passed \in [Entries -> 0..StatSlots]
  /\ completed \in [Entries -> 0..StatSlots]
  /\ routed \in [Entries -> Entries \cup {None}]
  /\ counted \in [Entries -> Entries \cup {None}]
  /\ late \in SUBSET Entries
  /\ err \in [Contexts -> Entries \cup {None}]
  /\ blocked \in [Contexts -> BOOLEAN]
  /\ grayRes \in [Contexts -> Entries \cup {None}]
  /\ fromService \in [Contexts -> Entries \cup {None}]
  /\ ctxPool \in SUBSET Contexts
  /\ optionsPool \in SUBSET Options
  /\ optionsFrom \in [Options -> Entries \cup {None}]
  /\ resNode \in Nodes \cup {None}
  /\ concurrency \in [Nodes -> Int]

\* Entries between GetPooledContext and RefurbishContext.
Live == { e \in Entries : phase[e] \notin {"new", "done"} }

\* Every context is in the pool or in the hands of exactly one live entry,
\* however often entries are exited and whatever panics: none is lost, and no
\* two requests ever share one.
ContextPartition ==
  /\ \A c \in Contexts : c \in ctxPool <=> \A e \in Live : ctx[e] # c
  /\ \A e, f \in Live : ctx[e] = ctx[f] => e = f

\* The error a completion is counted with was reported on that entry, is the
\* panic of its own slots, or comes from a caller that wrote it after its own
\* entry's context had been reset: nothing else is ever carried from one user of
\* a pooled context to the next.
ErrorsOwned == \A e \in Entries : counted[e] \in {None, e} \cup late

\* Entries that an internal panic took out of the regular course.
Panicked ==
  { e \in Entries :
      \/ outcome[e] = "panic"
      \/ outcome[e] = "pass" /\ phase[e] \in {"reset", "put", "done"}
           /\ completed[e] < StatSlots }

\* slot_chain.go, OnCompleted: "The semantics of OnCompleted is the entry
\* passed and completed".  The concurrency of a node that no panic hit is the
\* number of entries in flight on it: every pass is matched by one completion
\* and a refused request by none, on the node that recorded the pass, also when
\* the resource has come to another node meanwhile.
ConcurrencyExact ==
  \A n \in Nodes :
    (\A e \in Panicked : statNode[e] # n) => concurrency[n] = Cardinality(InFlight(n))

\* Every entry that begins is finished, its context reset and pooled.
EveryEntryFinishes == \A e \in Entries : phase[e] = "prepare" ~> phase[e] = "done"

\* Refuted by TLC, like the next two (README, section 3).
\* entry.go: "one entry bounds with one context".  A completion is counted with
\* an error of its own entry or with none.
ErrorsNeverStray == \A e \in Entries : counted[e] \in {None, e}

\* context.go, Reset: "reset all fields of ctx".  An entry is routed by its
\* own gray decision or not at all.
RoutedByOwnDecision == \A e \in Entries : routed[e] \in {None, e}

\* api.go, fromService: empty or "default" means that none was set.  A request
\* runs with the source service its own caller set, or with none.
FromServiceOwned == \A e \in Live : fromService[ctx[e]] \in {None, e}

=============================================================================
