------------------------ MODULE EntryLifecycleProofs ------------------------
(***************************************************************************)
(* Theorems about EntryLifecycle, for every number of entries, contexts,   *)
(* options, nodes and stat slots, whichever entries panic.                 *)
(*                                                                         *)
(* The inductive invariant says, phase by phase, what an entry holds: a    *)
(* live entry has a context of its own, it has its options until api.Entry *)
(* returns, and the only error in its context is its own; the contexts of  *)
(* the pool are clean, but for what callers wrote to them after the reset.  *)
(* For the concurrency of a node it also says which                         *)
(* stat slots an entry can have passed or completed by the outcome it got. *)
(***************************************************************************)
EXTENDS EntryLifecycle, FiniteSetTheorems, TLAPS

\* Inside SlotChain.Entry, or before it.
Undecided == {"new", "prepare", "createNode", "check", "route", "stat"}

\* What the phase of an entry says about the rest of its progress.
Progress ==
  \A e \in Entries :
    /\ phase[e] \in Undecided => outcome[e] = "pending"
    /\ phase[e] \in Undecided \cup {"running", "exitHandlers"} => completed[e] = 0
    /\ phase[e] = "complete" => completed[e] < StatSlots

\* What a live entry has in its hands.
Holdings ==
  \A e \in Live :
    /\ ctx[e] \in Contexts
    /\ outcome[e] \in {"pending", "blocked"} => options[e] \in Options

\* Where errors are.
CleanPool ==
  /\ \A c \in ctxPool : err[c] \in {None} \cup late
  /\ \A e \in Live : err[ctx[e]] \in {None, e} \cup late
  /\ \A e \in Live : phase[e] = "put" => err[ctx[e]] \in {None} \cup late

\* Whatever is only a short form of what happens to a context.
USE DEF GetPooledContext, ResetToPass, ResetToBlockedWith, NewTokenResultBlocked

IInv == TypeOK /\ Progress /\ Holdings /\ ContextPartition /\ CleanPool /\ ErrorsOwned

-----------------------------------------------------------------------------

\* No entry lives yet, and all contexts are clean and pooled.
LEMMA InitIInv == Init => IInv
<1> SUFFICES ASSUME Init PROVE IInv
  OBVIOUS
<1> USE SlotsAssumption DEF Init
<1>1. TypeOK
  BY DEF TypeOK, Phases, Outcomes
<1>2. Live = {}
  BY DEF Live
<1>3. QED
  BY <1>1, <1>2 DEF IInv, Progress, Holdings, ContextPartition, CleanPool,
                    ErrorsOwned, Undecided

\* The step of one entry leaves the phases of the others alone.
LEMMA OthersStay ==
  ASSUME TypeOK, NEW e \in Entries, Entry(e) \/ SetError(e) \/ Proceed(e),
         NEW f \in Entries, f # e
  PROVE  /\ phase'[f] = phase[f] /\ outcome'[f] = outcome[f]
         /\ completed'[f] = completed[f] /\ ctx'[f] = ctx[f]
         /\ options'[f] = options[f] /\ counted'[f] = counted[f]
  BY DEF TypeOK, Entry, SetError, Proceed, LookUpNode, CreateNode, Check, Route,
         OnEntryPassed, Return, Recover, Exit, RunExitHandlers, OnCompleted,
         ExitPanics, Reset, RefurbishContext, PutOptions, GoTo, progress, slots

-----------------------------------------------------------------------------

\* Type correctness, one action of api.Entry, SlotChain and Exit after another:
\* an entry has a context to index by whenever an action does so.
LEMMA TypeStep == IInv /\ [Next]_vars => TypeOK'
<1> SUFFICES ASSUME IInv, [Next]_vars PROVE TypeOK'
  OBVIOUS
<1> USE SlotsAssumption DEF IInv
<1>0. ASSUME NEW e \in Entries, NEW p \in Phases, GoTo(e, p)
      PROVE  (phase \in [Entries -> Phases])'
  BY <1>0 DEF GoTo, TypeOK
<1>1. ASSUME NEW e \in Entries, Entry(e)
      PROVE  TypeOK'
  <2>1. PICK o \in optionsPool, c \in Contexts :
          LET from == IF e \in Named THEN e ELSE optionsFrom[o]
          IN /\ optionsPool' = optionsPool \ {o}
             /\ optionsFrom' = [optionsFrom EXCEPT ![o] = from]
             /\ options' = [options EXCEPT ![e] = o]
             /\ ctxPool' = ctxPool \ {c}
             /\ ctx' = [ctx EXCEPT ![e] = c]
             /\ fromService' = [fromService EXCEPT ![c] = from]
    BY <1>1 DEF Entry
  <2>2. o \in Options /\ c \in Contexts /\ optionsFrom[o] \in Entries \cup {None}
    BY DEF TypeOK
  <2>3. (phase \in [Entries -> Phases])'
    BY <1>0, <1>1 DEF Entry, Phases
  <2>4. QED
    BY <1>1, <2>1, <2>2, <2>3 DEF Entry, TypeOK, slots
<1>2. ASSUME NEW e \in Entries, LookUpNode(e) \/ CreateNode(e)
      PROVE  TypeOK'
  <2>1. (phase \in [Entries -> Phases])'
    BY <1>0, <1>2 DEF LookUpNode, CreateNode, Phases
  <2>2. QED
    BY <1>2, <2>1 DEF LookUpNode, CreateNode, TypeOK, slots, context, pools
<1>3. ASSUME NEW e \in Entries, Check(e) \/ Route(e)
      PROVE  TypeOK'
  <2>1. (phase \in [Entries -> Phases])'
    BY <1>0, <1>3 DEF Check, Route, Phases
  <2>2. QED
    BY <1>3, <2>1 DEF Check, Route, TypeOK, slots, pools
<1>4. ASSUME NEW e \in Entries, OnEntryPassed(e)
      PROVE  TypeOK'
  <2>1. passed[e] \in 0..StatSlots /\ passed[e] < StatSlots
    BY <1>4 DEF OnEntryPassed, TypeOK
  <2>2. (passed \in [Entries -> 0..StatSlots])'
    BY <1>4, <2>1 DEF OnEntryPassed, TypeOK
  <2>3. (concurrency \in [Nodes -> Int])'
    <3>1. CASE statNode[e] \in Nodes
      BY <1>4, <3>1 DEF OnEntryPassed, TypeOK
    <3>2. CASE statNode[e] \notin Nodes
      <4>1. concurrency' = concurrency
        BY <1>4, <3>2 DEF OnEntryPassed, TypeOK
      <4>2. QED BY <4>1 DEF TypeOK
    <3>3. QED BY <3>1, <3>2
  <2>4. QED
    BY <1>4, <2>2, <2>3 DEF OnEntryPassed, TypeOK, progress, context, pools
<1>5. ASSUME NEW e \in Entries, Return(e) \/ Recover(e)
      PROVE  TypeOK'
  <2>1. (phase \in [Entries -> Phases])'
    BY <1>0, <1>5 DEF Return, Recover, Phases
  <2>2. e \in Live /\ outcome[e] = "pending"
    BY <1>5 DEF Return, Recover, Live, Progress, Undecided
  <2>3. ctx[e] \in Contexts /\ options[e] \in Options
    BY <2>2 DEF Holdings
  <2>4. grayRes[ctx[e]] \in Entries \cup {None}
    BY <2>3 DEF TypeOK
  <2>5. (outcome \in [Entries -> Outcomes])'
    BY <1>5 DEF Return, Recover, TypeOK, Outcomes
  <2>6. (optionsPool \in SUBSET Options /\ options \in [Entries -> Options \cup {None}])'
    BY <1>5, <2>3 DEF Return, Recover, PutOptions, TypeOK
  <2>7. (routed \in [Entries -> Entries \cup {None}])'
    BY <1>5, <2>4 DEF Return, Recover, TypeOK
  <2>8. (err \in [Contexts -> Entries \cup {None}])'
    BY <1>5 DEF Return, Recover, TypeOK, context
  <2>9. QED
    BY <1>5, <2>1, <2>5, <2>6, <2>7, <2>8 DEF Return, Recover, TypeOK, slots, context
<1>6. ASSUME NEW e \in Entries, SetError(e)
      PROVE  TypeOK'
  <2>1. (late \in SUBSET Entries)'
    BY <1>6 DEF SetError, TypeOK
  <2>2. QED
    BY <1>6, <2>1 DEF SetError, TypeOK, progress, pools
<1>7. ASSUME NEW e \in Entries, Exit(e) \/ RunExitHandlers(e) \/ ExitPanics(e)
      PROVE  TypeOK'
  <2>1. (phase \in [Entries -> Phases])'
    BY <1>0, <1>7 DEF Exit, RunExitHandlers, ExitPanics, Phases
  <2>2. QED
    BY <1>7, <2>1 DEF Exit, RunExitHandlers, ExitPanics, TypeOK, slots, context, pools
<1>8. ASSUME NEW e \in Entries, OnCompleted(e)
      PROVE  TypeOK'
  <2>1. (phase \in [Entries -> Phases])'
    BY <1>0, <1>8 DEF OnCompleted, Phases
  <2>2. completed[e] < StatSlots /\ completed[e] \in 0..StatSlots
    BY <1>8 DEF OnCompleted, Progress, TypeOK
  <2>3. (completed \in [Entries -> 0..StatSlots])'
    BY <1>8, <2>2 DEF OnCompleted, TypeOK
  <2>4. err[ctx[e]] \in Entries \cup {None}
    BY <1>8 DEF OnCompleted, Live, Holdings, TypeOK
  <2>5. (counted \in [Entries -> Entries \cup {None}] /\ concurrency \in [Nodes -> Int])'
    BY <1>8, <2>4 DEF OnCompleted, TypeOK
  <2>6. QED
    BY <1>8, <2>1, <2>3, <2>5 DEF OnCompleted, TypeOK, context, pools
<1>9. ASSUME NEW e \in Entries, RefurbishContext(e)
      PROVE  TypeOK'
  <2>1. (phase \in [Entries -> Phases])'
    BY <1>0, <1>9 DEF RefurbishContext, Phases
  <2>2. ctx[e] \in Contexts /\ (outcome[e] = "blocked" => options[e] \in Options)
    BY <1>9 DEF RefurbishContext, Live, Holdings
  <2>3. (optionsPool \in SUBSET Options /\ options \in [Entries -> Options \cup {None}])'
    BY <1>9, <2>2 DEF RefurbishContext, PutOptions, TypeOK
  <2>4. QED
    BY <1>9, <2>1, <2>2, <2>3 DEF RefurbishContext, TypeOK, slots, context
<1>10. ASSUME NEW e \in Entries, Reset(e)
       PROVE  TypeOK'
  <2>1. (phase \in [Entries -> Phases])'
    BY <1>0, <1>10 DEF Reset, Phases
  <2>2. QED
    BY <1>10, <2>1 DEF Reset, TypeOK, slots, pools
<1>11. CASE UNCHANGED vars
  BY <1>11 DEF vars, progress, slots, context, pools, TypeOK
<1>12. QED
  BY <1>1, <1>2, <1>3, <1>4, <1>5, <1>6, <1>7, <1>8, <1>9, <1>10, <1>11
     DEF Next, Proceed, Finished

-----------------------------------------------------------------------------

\* An entry has no outcome before SlotChain.Entry has one, and SlotChain.exit
\* completes it slot by slot.
LEMMA ProgressStep == IInv /\ [Next]_vars => Progress'
<1> SUFFICES ASSUME IInv, [Next]_vars PROVE Progress'
  OBVIOUS
<1> USE SlotsAssumption DEF IInv
<1>1. CASE UNCHANGED vars
  BY <1>1 DEF vars, progress, slots, Progress
<1>2. ASSUME NEW e \in Entries, Entry(e) \/ SetError(e) \/ Proceed(e)
      PROVE  Progress'
  <2>1. ASSUME NEW f \in Entries, f # e
        PROVE  /\ phase'[f] \in Undecided => outcome'[f] = "pending"
               /\ phase'[f] \in Undecided \cup {"running", "exitHandlers"}
                    => completed'[f] = 0
               /\ phase'[f] = "complete" => completed'[f] < StatSlots
    BY <1>2, <2>1, OthersStay DEF Progress
  <2>2. /\ phase'[e] \in Undecided => outcome'[e] = "pending"
        /\ phase'[e] \in Undecided \cup {"running", "exitHandlers"}
             => completed'[e] = 0
        /\ phase'[e] = "complete" => completed'[e] < StatSlots
    <3>1. CASE Entry(e) \/ LookUpNode(e) \/ CreateNode(e) \/ Check(e) \/ Route(e)
      BY <3>1 DEF Entry, LookUpNode, CreateNode, Check, Route, GoTo, slots,
                  Progress, Undecided, TypeOK
    <3>2. CASE Return(e) \/ Recover(e)
      BY <3>2 DEF Return, Recover, GoTo, slots, Progress, Undecided, TypeOK
    <3>3. CASE OnEntryPassed(e) \/ SetError(e)
      BY <3>3 DEF OnEntryPassed, SetError, progress, slots, Progress
    <3>4. CASE Exit(e) \/ RunExitHandlers(e) \/ ExitPanics(e) \/ Reset(e)
                 \/ RefurbishContext(e)
      BY <3>4 DEF Exit, RunExitHandlers, ExitPanics, Reset, RefurbishContext,
                  GoTo, slots, Progress, Undecided, TypeOK
    <3>5. CASE OnCompleted(e)
      <4>1. completed'[e] = completed[e] + 1 /\ completed[e] < StatSlots
            /\ completed[e] \in 0..StatSlots
        BY <3>5 DEF OnCompleted, Progress, TypeOK
      <4>2. phase'[e] = IF completed[e] + 1 = StatSlots THEN "reset" ELSE "complete"
        BY <3>5 DEF OnCompleted, GoTo, TypeOK
      <4>3. QED BY <4>1, <4>2 DEF Undecided
    <3>6. QED BY <1>2, <3>1, <3>2, <3>3, <3>4, <3>5 DEF Proceed
  <2>3. QED BY <2>1, <2>2 DEF Progress
<1>3. QED BY <1>1, <1>2 DEF Next, Finished

-----------------------------------------------------------------------------

\* Contexts change hands in two places only.
LEMMA HoldersStay ==
  ASSUME TypeOK, Progress, NEW e \in Entries, SetError(e) \/ Proceed(e),
         ~RefurbishContext(e)
  PROVE  Live' = Live /\ ctx' = ctx /\ ctxPool' = ctxPool
<1>1. ctx' = ctx /\ ctxPool' = ctxPool
  BY DEF SetError, Proceed, LookUpNode, CreateNode, Check, Route, OnEntryPassed,
         Return, Recover, Exit, RunExitHandlers, OnCompleted, ExitPanics, Reset,
         PutOptions, progress, pools
<1>2. CASE SetError(e) \/ OnEntryPassed(e)
  BY <1>1, <1>2 DEF SetError, OnEntryPassed, progress, Live
<1>3. CASE ~(SetError(e) \/ OnEntryPassed(e))
  <2>1. e \in Live /\ e \in Live'
    BY <1>3 DEF Proceed, LookUpNode, CreateNode, Check, Route, Return, Recover,
                Exit, RunExitHandlers, OnCompleted, ExitPanics, Reset, GoTo, Live,
                TypeOK
  <2>2. QED BY <1>1, <2>1, OthersStay DEF Live
<1>4. QED BY <1>2, <1>3

\* A live entry has the context that api.Entry took for it, and the options
\* until api.Entry returns.
LEMMA HoldingsStep == IInv /\ [Next]_vars => Holdings'
<1> SUFFICES ASSUME IInv, [Next]_vars PROVE Holdings'
  OBVIOUS
<1> USE DEF IInv
<1>1. CASE UNCHANGED vars
  BY <1>1 DEF vars, progress, Holdings, Live
<1>2. ASSUME NEW e \in Entries, Entry(e) \/ SetError(e) \/ Proceed(e)
      PROVE  Holdings'
  <2>1. ASSUME NEW f \in Live', f # e
        PROVE  /\ ctx'[f] \in Contexts
               /\ outcome'[f] \in {"pending", "blocked"} => options'[f] \in Options
    <3>1. f \in Entries /\ f \in Live
      BY <1>2, <2>1, OthersStay DEF Live
    <3>2. QED BY <1>2, <2>1, <3>1, OthersStay DEF Holdings
  <2>2. ASSUME e \in Live'
        PROVE  /\ ctx'[e] \in Contexts
               /\ outcome'[e] \in {"pending", "blocked"} => options'[e] \in Options
    <3>1. CASE Entry(e)
      BY <3>1 DEF Entry, TypeOK
    <3>2. CASE RefurbishContext(e)
      BY <2>2, <3>2 DEF RefurbishContext, GoTo, Live, TypeOK
    <3>3. CASE Return(e) \/ Recover(e)
      <4>1. e \in Live /\ outcome[e] = "pending"
        BY <3>3 DEF Return, Recover, Live, Progress, Undecided
      <4>2. ctx'[e] \in Contexts
        BY <3>3, <4>1 DEF Return, Recover, Holdings
      <4>3. \/ outcome'[e] \in {"pass", "panic"}
            \/ options' = options
        BY <3>3 DEF Return, Recover, TypeOK
      <4>4. QED BY <4>1, <4>2, <4>3 DEF Holdings
    <3>4. CASE ~(Entry(e) \/ RefurbishContext(e) \/ Return(e) \/ Recover(e))
      <4>1. e \in Live /\ ctx' = ctx
        BY <1>2, <2>2, <3>4, HoldersStay
      <4>2. outcome' = outcome /\ options' = options
        BY <1>2, <3>4 DEF SetError, Proceed, LookUpNode, CreateNode, Check, Route,
                          OnEntryPassed, Exit, RunExitHandlers, OnCompleted,
                          ExitPanics, Reset, progress
      <4>3. QED BY <4>1, <4>2 DEF Holdings
    <3>5. QED BY <3>1, <3>2, <3>3, <3>4
  <2>3. QED BY <2>1, <2>2 DEF Holdings
<1>3. QED BY <1>1, <1>2 DEF Next, Finished

-----------------------------------------------------------------------------

\* A context is taken from the pool, where no live entry holds it, and goes
\* back when the one entry that holds it ceases to live.
LEMMA PartitionStep == IInv /\ [Next]_vars => ContextPartition'
<1> SUFFICES ASSUME IInv, [Next]_vars PROVE ContextPartition'
  OBVIOUS
<1> USE DEF IInv
<1>1. CASE UNCHANGED vars
  BY <1>1 DEF vars, progress, pools, ContextPartition, Live
<1>2. ASSUME NEW e \in Entries, Entry(e)
      PROVE  ContextPartition'
  <2>1. PICK c \in ctxPool : ctxPool' = ctxPool \ {c} /\ ctx' = [ctx EXCEPT ![e] = c]
    BY <1>2 DEF Entry
  <2>2. e \notin Live /\ Live' = Live \cup {e}
    <3>1. phase' = [phase EXCEPT ![e] = "prepare"] /\ phase[e] = "new"
      BY <1>2 DEF Entry, GoTo
    <3>2. QED BY <3>1 DEF Live, TypeOK
  <2>3. c \in Contexts /\ \A f \in Live : ctx[f] # c /\ ctx'[f] = ctx[f]
    BY <2>1, <2>2 DEF ContextPartition, TypeOK, Live
  <2>4. ctx'[e] = c
    BY <2>1 DEF TypeOK
  <2>5. QED BY <2>1, <2>2, <2>3, <2>4 DEF ContextPartition
<1>3. ASSUME NEW e \in Entries, RefurbishContext(e)
      PROVE  ContextPartition'
  <2>1. ctxPool' = ctxPool \cup {ctx[e]} /\ ctx' = ctx
    BY <1>3 DEF RefurbishContext
  <2>2. e \in Live /\ Live' = Live \ {e}
    BY <1>3 DEF RefurbishContext, GoTo, Live, TypeOK
  <2>3. QED BY <2>1, <2>2 DEF ContextPartition, Holdings
<1>4. ASSUME NEW e \in Entries, SetError(e) \/ Proceed(e), ~RefurbishContext(e)
      PROVE  ContextPartition'
  BY <1>4, HoldersStay DEF ContextPartition
<1>5. QED BY <1>1, <1>2, <1>3, <1>4 DEF Next, Finished

-----------------------------------------------------------------------------

\* An error is written by the entry that holds the context, by one that has been
\* reset and counts as late, or cleared.
LEMMA CleanStep == IInv /\ [Next]_vars => CleanPool'
<1> SUFFICES ASSUME IInv, [Next]_vars PROVE CleanPool'
  OBVIOUS
<1> USE DEF IInv
<1>1. CASE UNCHANGED vars
  BY <1>1 DEF vars, progress, slots, context, pools, CleanPool, Live
<1>2. ASSUME NEW e \in Entries, Entry(e)
      PROVE  CleanPool'
  <2>1. PICK c \in ctxPool : ctxPool' = ctxPool \ {c} /\ ctx' = [ctx EXCEPT ![e] = c]
    BY <1>2 DEF Entry
  <2>2. err' = err /\ late' = late
    BY <1>2 DEF Entry, slots
  <2>3. phase'[e] = "prepare" /\ Live' = Live \cup {e}
    <3>1. phase' = [phase EXCEPT ![e] = "prepare"]
      BY <1>2 DEF Entry, GoTo
    <3>2. QED BY <3>1 DEF Live, TypeOK
  <2>4. ctx'[e] = c /\ \A f \in Live \ {e} : ctx'[f] = ctx[f] /\ phase'[f] = phase[f]
    BY <1>2, <2>1, OthersStay DEF TypeOK, Live
  <2>5. QED BY <2>1, <2>2, <2>3, <2>4 DEF CleanPool
<1>3. ASSUME NEW e \in Entries, RefurbishContext(e)
      PROVE  CleanPool'
  <2>1. /\ ctxPool' = ctxPool \cup {ctx[e]} /\ ctx' = ctx
        /\ err' = err /\ late' = late /\ phase[e] = "put"
    BY <1>3 DEF RefurbishContext, slots, context
  <2>2. e \in Live /\ Live' = Live \ {e}
    BY <1>3 DEF RefurbishContext, GoTo, Live, TypeOK
  <2>3. \A f \in Live' : phase'[f] = phase[f]
    BY <1>3, <2>2, OthersStay DEF Proceed, Live
  <2>4. QED BY <2>1, <2>2, <2>3 DEF CleanPool
<1>4. ASSUME NEW e \in Entries, Reset(e)
      PROVE  CleanPool'
  <2>1. Live' = Live /\ ctx' = ctx /\ ctxPool' = ctxPool
    BY <1>4, HoldersStay DEF Proceed, Reset, RefurbishContext
  <2>2. e \in Live /\ err' = [err EXCEPT ![ctx[e]] = None] /\ late' = late
    BY <1>4 DEF Reset, Live, slots
  <2>3. ctx[e] \in Contexts
    BY <2>2 DEF Holdings
  <2>4. \A c \in Contexts : err'[c] = IF c = ctx[e] THEN None ELSE err[c]
    BY <2>2, <2>3 DEF TypeOK
  <2>5. \A f \in Live : f # e => phase'[f] = phase[f] /\ ctx[f] # ctx[e]
    BY <1>4, <2>2, OthersStay DEF Proceed, Live, ContextPartition
  <2>6. QED BY <2>1, <2>2, <2>3, <2>4, <2>5 DEF CleanPool, Holdings, TypeOK
<1>5. ASSUME NEW e \in Entries, SetError(e) \/ Recover(e)
      PROVE  CleanPool'
  <2>1. Live' = Live /\ ctx' = ctx /\ ctxPool' = ctxPool
    <3>1. ~RefurbishContext(e)
      BY <1>5 DEF SetError, Recover, RefurbishContext, GoTo, progress, TypeOK
    <3>2. QED BY <1>5, <3>1, HoldersStay DEF Proceed
  <2>2. /\ err' = [err EXCEPT ![ctx[e]] = e]
        /\ late \subseteq late' /\ (e \notin Live \/ phase[e] = "put" => e \in late')
        /\ phase'[e] = "put" => phase[e] = "put"
    <3>1. CASE SetError(e)
      <4>1. phase[e] # "new"
        BY <3>1 DEF SetError, Progress, Undecided
      <4>2. QED BY <3>1, <4>1 DEF SetError, progress, Live
    <3>2. CASE Recover(e)
      BY <3>2 DEF Recover, GoTo, slots, Live, TypeOK
    <3>3. QED BY <1>5, <3>1, <3>2
  <2>3. \A c \in Contexts : err'[c] = IF c = ctx[e] THEN e ELSE err[c]
    BY <2>2 DEF TypeOK
  <2>4. \A f \in Live : f # e => phase'[f] = phase[f]
    BY <1>5, OthersStay DEF Proceed, Live
  <2>5. e \in Live => \A c \in ctxPool : c # ctx[e]
    BY DEF ContextPartition, TypeOK
  <2>6. \A c \in ctxPool : err'[c] \in {None} \cup late'
    BY <2>2, <2>3, <2>5 DEF CleanPool, TypeOK
  <2>7. ASSUME NEW f \in Live
        PROVE  /\ err'[ctx[f]] \in {None, f} \cup late'
               /\ phase'[f] = "put" => err'[ctx[f]] \in {None} \cup late'
    <3>1. ctx[f] \in Contexts
      BY DEF Holdings
    <3>2. CASE ctx[f] # ctx[e]
      BY <2>2, <2>3, <2>4, <3>1, <3>2 DEF CleanPool
    <3>3. CASE ctx[f] = ctx[e]
      <4>1. e \notin Live \/ e = f
        BY <3>3 DEF ContextPartition
      <4>2. QED BY <2>2, <2>3, <3>1, <3>3, <4>1
    <3>4. QED BY <3>2, <3>3
  <2>8. QED BY <2>1, <2>6, <2>7 DEF CleanPool
<1>6. ASSUME NEW e \in Entries, Proceed(e), ~RefurbishContext(e), ~Reset(e),
             ~Recover(e)
      PROVE  CleanPool'
  <2>1. Live' = Live /\ ctx' = ctx /\ ctxPool' = ctxPool
    BY <1>6, HoldersStay
  <2>2. err' = err /\ late' = late /\ phase'[e] # "put"
    BY <1>6 DEF Proceed, LookUpNode, CreateNode, Check, Route, OnEntryPassed,
      Return, Exit, RunExitHandlers, OnCompleted, ExitPanics, GoTo, context,
      slots, progress, TypeOK
  <2>3. \A f \in Live : f # e => phase'[f] = phase[f]
    BY <1>6, OthersStay DEF Live
  <2>4. QED BY <2>1, <2>2, <2>3 DEF CleanPool
<1>7. QED BY <1>1, <1>2, <1>3, <1>4, <1>5, <1>6 DEF Next, Finished

\* stat.Slot counts the error in the entry's own context, which CleanPool says
\* is the entry's own, or late.
LEMMA ErrorsStep == IInv /\ [Next]_vars => ErrorsOwned'
<1> SUFFICES ASSUME IInv, [Next]_vars PROVE ErrorsOwned'
  OBVIOUS
<1> USE DEF IInv
<1>1. late \subseteq late'
  BY DEF Next, Finished, Entry, SetError, Proceed, LookUpNode, CreateNode,
    Check, Route, OnEntryPassed, Return, Recover, Exit, RunExitHandlers,
    OnCompleted, ExitPanics, Reset, RefurbishContext, vars, slots
<1>2. CASE UNCHANGED counted
  BY <1>1, <1>2 DEF ErrorsOwned
<1>3. CASE ~UNCHANGED counted
  <2>1. PICK e \in Entries : OnCompleted(e)
    BY <1>3 DEF Next, Finished, Entry, SetError, Proceed, LookUpNode, CreateNode,
      Check, Route, OnEntryPassed, Return, Recover, Exit, RunExitHandlers,
      ExitPanics, Reset, RefurbishContext, vars, slots
  <2>2. counted' = [counted EXCEPT ![e] = err[ctx[e]]]
    BY <1>3, <2>1 DEF OnCompleted
  <2>3. err[ctx[e]] \in {None, e} \cup late
    BY <2>1 DEF OnCompleted, Live, CleanPool
  <2>4. QED BY <1>1, <2>2, <2>3 DEF ErrorsOwned, TypeOK
<1>4. QED BY <1>2, <1>3

-----------------------------------------------------------------------------
(* The concurrency of a node                                                *)

\* Entries that completed without ever having been recorded as passed: an
\* internal panic came before stat.Slot.
Unpassed(n) ==
  { e \in Entries : statNode[e] = n /\ passed[e] = 0 /\ completed[e] >= 1 }

\* What the outcome of an entry says about its stat slots.
Decided ==
  \A e \in Entries :
    /\ phase[e] \in Undecided \ {"stat"} => passed[e] = 0
    /\ outcome[e] = "pass" => passed[e] = StatSlots
    /\ outcome[e] = "pending" => phase[e] \in Undecided
    /\ outcome[e] = "blocked" =>
         /\ completed[e] = 0 /\ phase[e] \in {"exitHandlers", "reset", "put", "done"}
         /\ phase[e] = "exitHandlers" => blocked[ctx[e]]

\* A node has counted every entry in flight, less those it only saw complete.
Counts ==
  \A n \in Nodes : concurrency[n] = Cardinality(InFlight(n)) - Cardinality(Unpassed(n))

CInv == IInv /\ Decided /\ Counts

\* Nor does it touch their record, or the result in the context of one that
\* lives.
LEMMA OthersRecordStays ==
  ASSUME IInv, NEW e \in Entries, Entry(e) \/ SetError(e) \/ Proceed(e),
         NEW f \in Entries, f # e
  PROVE  /\ passed'[f] = passed[f] /\ statNode'[f] = statNode[f]
         /\ f \in Live => blocked'[ctx[f]] = blocked[ctx[f]]
<1> USE DEF IInv
<1>1. passed'[f] = passed[f] /\ statNode'[f] = statNode[f]
  BY DEF TypeOK, Entry, SetError, Proceed, LookUpNode, CreateNode, Check, Route,
         OnEntryPassed, Return, Recover, Exit, RunExitHandlers, OnCompleted,
         ExitPanics, Reset, RefurbishContext, progress, slots
<1>2. ASSUME f \in Live
      PROVE  blocked'[ctx[f]] = blocked[ctx[f]]
  <2>1. CASE blocked' = blocked
    BY <2>1
  <2>2. CASE blocked' # blocked
    <3>1. /\ phase[e] \in {"check", "route", "reset"}
          /\ \E b \in BOOLEAN : blocked' = [blocked EXCEPT ![ctx[e]] = b]
      BY <2>2 DEF Entry, SetError, Proceed, LookUpNode, CreateNode, Check, Route,
         OnEntryPassed, Return, Recover, Exit, RunExitHandlers, OnCompleted,
         ExitPanics, Reset, RefurbishContext, context
    <3>2. e \in Live /\ ctx[e] # ctx[f]
      BY <1>2, <3>1 DEF Live, ContextPartition
    <3>3. ctx[f] \in Contexts
      BY <1>2 DEF Holdings
    <3>4. QED BY <3>1, <3>2, <3>3 DEF TypeOK
  <2>3. QED BY <2>1, <2>2
<1>3. QED BY <1>1, <1>2

\* An entry has passed no slot before it gets to them, all of them when it is
\* admitted; a refused one goes straight through its exit.
LEMMA DecidedStep == IInv /\ Decided /\ [Next]_vars => Decided'
<1> SUFFICES ASSUME IInv, Decided, [Next]_vars PROVE Decided'
  OBVIOUS
<1> USE SlotsAssumption DEF IInv
<1> DEFINE Dec(e) ==
      /\ phase[e] \in Undecided \ {"stat"} => passed[e] = 0
      /\ outcome[e] = "pass" => passed[e] = StatSlots
      /\ outcome[e] = "pending" => phase[e] \in Undecided
      /\ outcome[e] = "blocked" =>
           /\ completed[e] = 0 /\ phase[e] \in {"exitHandlers", "reset", "put", "done"}
           /\ phase[e] = "exitHandlers" => blocked[ctx[e]]
<1>1. CASE UNCHANGED vars
  BY <1>1 DEF vars, progress, slots, context, Decided
<1>2. ASSUME NEW e \in Entries, Entry(e) \/ SetError(e) \/ Proceed(e)
      PROVE  Decided'
  <2>1. ASSUME NEW f \in Entries, f # e
        PROVE  Dec(f)'
    <3>1. Dec(f)
      BY DEF Decided
    <3>2. phase[f] = "exitHandlers" => f \in Live
      BY DEF Live
    <3>3. QED BY <1>2, <2>1, <3>1, <3>2, OthersStay, OthersRecordStays
  <2>2. Dec(e)'
    <3>0. Dec(e)
      BY DEF Decided
    <3>1. CASE Entry(e) \/ LookUpNode(e) \/ CreateNode(e) \/ Check(e) \/ Route(e)
      <4>1. /\ phase[e] \in Undecided \ {"stat"} /\ phase'[e] \in Undecided
            /\ outcome' = outcome /\ passed' = passed
        BY <3>1 DEF Entry, LookUpNode, CreateNode, Check, Route, GoTo, slots,
                    Undecided, TypeOK
      <4>2. outcome[e] = "pending"
        BY <4>1 DEF Progress
      <4>3. QED BY <3>0, <4>1, <4>2
    <3>2. CASE OnEntryPassed(e)
      <4>1. phase' = phase /\ outcome' = outcome /\ phase[e] = "stat"
        BY <3>2 DEF OnEntryPassed, progress
      <4>2. outcome[e] = "pending"
        BY <4>1 DEF Progress, Undecided
      <4>3. QED BY <4>1, <4>2 DEF Undecided
    <3>3. CASE Return(e)
      <4>1. passed' = passed /\ completed' = completed /\ ctx' = ctx /\ blocked' = blocked
        BY <3>3 DEF Return, slots, context
      <4>2. completed[e] = 0
        BY <3>3 DEF Return, Progress, Undecided
      <4>3. \/ /\ blocked[ctx[e]] /\ outcome'[e] = "blocked"
               /\ phase'[e] = "exitHandlers"
            \/ passed[e] = StatSlots /\ outcome'[e] = "pass" /\ phase'[e] = "running"
        BY <3>3 DEF Return, GoTo, TypeOK
      <4>4. QED BY <4>1, <4>2, <4>3 DEF Undecided
    <3>4. CASE Recover(e)
      <4>1. outcome'[e] = "panic" /\ phase'[e] = "running"
        BY <3>4 DEF Recover, GoTo, TypeOK
      <4>2. QED BY <4>1 DEF Undecided
    <3>5. CASE SetError(e)
      BY <3>0, <3>5 DEF SetError, progress
    <3>6. CASE Exit(e) \/ RunExitHandlers(e) \/ ExitPanics(e) \/ Reset(e)
                 \/ RefurbishContext(e)
      <4>1. /\ passed' = passed /\ completed' = completed /\ outcome' = outcome
            /\ phase[e] \in {"running", "exitHandlers", "complete", "reset", "put"}
            /\ phase'[e] \in {"exitHandlers", "complete", "reset", "put", "done"}
        BY <3>6 DEF Exit, RunExitHandlers, ExitPanics, Reset, RefurbishContext,
                    GoTo, slots, TypeOK
      <4>2. CASE outcome[e] = "blocked"
        <5>1. phase[e] # "running" /\ (phase[e] = "exitHandlers" => blocked[ctx[e]])
          BY <3>0, <4>2
        <5>2. phase'[e] \in {"reset", "put", "done"}
          BY <3>0, <3>6, <4>2, <5>1
             DEF Exit, RunExitHandlers, ExitPanics, Reset, RefurbishContext, GoTo,
                 TypeOK
        <5>3. QED BY <3>0, <4>1, <4>2, <5>2 DEF Undecided
      <4>3. CASE outcome[e] # "blocked"
        BY <3>0, <4>1, <4>3 DEF Undecided
      <4>4. QED BY <4>2, <4>3
    <3>7. CASE OnCompleted(e)
      <4>1. /\ passed' = passed /\ outcome' = outcome
            /\ phase[e] = "complete" /\ phase'[e] \in {"complete", "reset"}
        BY <3>7 DEF OnCompleted, GoTo, TypeOK
      <4>2. outcome[e] \notin {"pending", "blocked"}
        BY <3>0, <4>1 DEF Undecided
      <4>3. QED BY <3>0, <4>1, <4>2 DEF Undecided
    <3>8. QED BY <1>2, <3>1, <3>2, <3>3, <3>4, <3>5, <3>6, <3>7 DEF Proceed
  <2>3. QED BY <2>1, <2>2 DEF Decided
<1>3. QED BY <1>1, <1>2 DEF Next, Finished

\* The sets that a node's concurrency is counted by are finite.
LEMMA CountedFinite ==
  ASSUME NEW n
  PROVE  IsFiniteSet(InFlight(n)) /\ IsFiniteSet(Unpassed(n))
  BY EntriesAssumption, FS_Subset DEF InFlight, Unpassed

\* Concurrency moves with them: stat.Slot's OnEntryPassed puts the entry in
\* flight, its OnCompleted takes it out, or counts it as one never recorded.
LEMMA CountsStep == IInv /\ Decided /\ Counts /\ [Next]_vars => Counts'
<1> SUFFICES ASSUME IInv, Decided, Counts, [Next]_vars,
                    NEW n \in Nodes
             PROVE  concurrency'[n] = Cardinality(InFlight(n)') - Cardinality(Unpassed(n)')
  BY DEF Counts
<1> USE SlotsAssumption DEF IInv
<1>0. /\ concurrency[n] = Cardinality(InFlight(n)) - Cardinality(Unpassed(n))
      /\ IsFiniteSet(InFlight(n)) /\ IsFiniteSet(Unpassed(n))
      /\ Cardinality(InFlight(n)) \in Nat /\ Cardinality(Unpassed(n)) \in Nat
  BY CountedFinite, FS_CardinalityType DEF Counts
<1>1. CASE UNCHANGED <<statNode, passed, completed, concurrency>>
  BY <1>0, <1>1 DEF InFlight, Unpassed
<1>2. ASSUME NEW e \in Entries, LookUpNode(e) \/ CreateNode(e)
      PROVE  concurrency'[n] = Cardinality(InFlight(n)') - Cardinality(Unpassed(n)')
  <2>1. passed[e] = 0 /\ completed[e] = 0
    BY <1>2 DEF LookUpNode, CreateNode, Decided, Progress, Undecided
  <2>2. passed' = passed /\ completed' = completed /\ concurrency' = concurrency
    BY <1>2 DEF LookUpNode, CreateNode, slots
  <2>3. \A f \in Entries : f # e => statNode'[f] = statNode[f]
    BY <1>2, OthersRecordStays DEF Proceed
  <2>4. InFlight(n)' = InFlight(n) /\ Unpassed(n)' = Unpassed(n)
    BY <2>1, <2>2, <2>3 DEF InFlight, Unpassed
  <2>5. QED BY <1>0, <2>2, <2>4
<1>3. ASSUME NEW e \in Entries, OnEntryPassed(e)
      PROVE  concurrency'[n] = Cardinality(InFlight(n)') - Cardinality(Unpassed(n)')
  <2>1. completed[e] = 0 /\ passed[e] \in Nat /\ passed'[e] = passed[e] + 1
    BY <1>3 DEF OnEntryPassed, Progress, Undecided, TypeOK
  <2>2. statNode' = statNode /\ completed' = completed
    BY <1>3 DEF OnEntryPassed, progress
  <2>3. \A f \in Entries : f # e => passed'[f] = passed[f]
    BY <1>3, OthersRecordStays DEF Proceed
  <2>4. Unpassed(n)' = Unpassed(n)
    BY <2>1, <2>2, <2>3 DEF Unpassed
  <2>5. CASE passed[e] = 0 /\ statNode[e] = n
    <3>1. concurrency'[n] = concurrency[n] + 1
      BY <1>3, <2>5 DEF OnEntryPassed, TypeOK
    <3>2. InFlight(n)' = InFlight(n) \cup {e} /\ e \notin InFlight(n)
      BY <2>1, <2>2, <2>3, <2>5 DEF InFlight
    <3>3. Cardinality(InFlight(n)') = Cardinality(InFlight(n)) + 1
      BY <1>0, <3>2, FS_AddElement
    <3>4. QED BY <1>0, <2>4, <3>1, <3>3
  <2>6. CASE passed[e] # 0 \/ statNode[e] # n
    <3>1. concurrency'[n] = concurrency[n]
      BY <1>3, <2>6 DEF OnEntryPassed, TypeOK
    <3>2. InFlight(n)' = InFlight(n)
      BY <2>1, <2>2, <2>3, <2>6 DEF InFlight
    <3>3. QED BY <1>0, <2>4, <3>1, <3>2
  <2>7. QED BY <2>5, <2>6
<1>4. ASSUME NEW e \in Entries, OnCompleted(e)
      PROVE  concurrency'[n] = Cardinality(InFlight(n)') - Cardinality(Unpassed(n)')
  <2>1. /\ completed[e] \in Nat /\ completed'[e] = completed[e] + 1
        /\ passed[e] \in Nat
    BY <1>4 DEF OnCompleted, TypeOK
  <2>2. statNode' = statNode /\ passed' = passed
    BY <1>4 DEF OnCompleted
  <2>3. \A f \in Entries : f # e => completed'[f] = completed[f]
    BY <1>4, OthersStay DEF Proceed
  <2>4. CASE completed[e] = 0 /\ statNode[e] = n
    <3>1. concurrency'[n] = concurrency[n] - 1
      BY <1>4, <2>4 DEF OnCompleted, TypeOK
    <3>2. CASE passed[e] = 0
      <4>1. InFlight(n)' = InFlight(n)
        BY <2>1, <2>2, <2>3, <3>2 DEF InFlight
      <4>2. Unpassed(n)' = Unpassed(n) \cup {e} /\ e \notin Unpassed(n)
        BY <2>1, <2>2, <2>3, <2>4, <3>2 DEF Unpassed
      <4>3. Cardinality(Unpassed(n)') = Cardinality(Unpassed(n)) + 1
        BY <1>0, <4>2, FS_AddElement
      <4>4. QED BY <1>0, <3>1, <4>1, <4>3
    <3>3. CASE passed[e] # 0
      <4>1. InFlight(n)' = InFlight(n) \ {e} /\ e \in InFlight(n)
        BY <2>1, <2>2, <2>3, <2>4, <3>3 DEF InFlight
      <4>2. Unpassed(n)' = Unpassed(n)
        BY <2>1, <2>2, <2>3, <3>3 DEF Unpassed
      <4>3. Cardinality(InFlight(n)') = Cardinality(InFlight(n)) - 1
        BY <1>0, <4>1, FS_RemoveElement
      <4>4. QED BY <1>0, <3>1, <4>2, <4>3
    <3>4. QED BY <3>2, <3>3
  <2>5. CASE completed[e] # 0 \/ statNode[e] # n
    <3>1. concurrency'[n] = concurrency[n]
      BY <1>4, <2>5 DEF OnCompleted, TypeOK
    <3>2. InFlight(n)' = InFlight(n) /\ Unpassed(n)' = Unpassed(n)
      BY <2>1, <2>2, <2>3, <2>5 DEF InFlight, Unpassed
    <3>3. QED BY <1>0, <3>1, <3>2
  <2>6. QED BY <2>4, <2>5
<1>5. CASE ~ \E e \in Entries :
              LookUpNode(e) \/ CreateNode(e) \/ OnEntryPassed(e) \/ OnCompleted(e)
  <2>1. UNCHANGED <<statNode, passed, completed, concurrency>>
    BY <1>5 DEF Next, Finished, Entry, SetError, Proceed, Check, Route, Return,
      Recover, Exit, RunExitHandlers, ExitPanics, Reset, RefurbishContext, vars,
      progress, slots
  <2>2. QED BY <1>1, <2>1
<1>6. QED BY <1>2, <1>3, <1>4, <1>5

\* Only an entry of Panicked completes what was never recorded.
LEMMA UnpassedPanicked ==
  ASSUME IInv, Decided, NEW n, NEW e \in Unpassed(n)
  PROVE  e \in Panicked
<1>1. e \in Entries /\ passed[e] = 0 /\ completed[e] \in Nat /\ completed[e] >= 1
  BY DEF Unpassed, IInv, TypeOK
<1>2. outcome[e] # "blocked"
  BY <1>1 DEF Decided
<1>3. outcome[e] # "pass"
  BY <1>1, SlotsAssumption DEF Decided
<1>4. outcome[e] # "pending"
  BY <1>1 DEF Decided, IInv, Progress
<1>5. outcome[e] \in Outcomes
  BY <1>1 DEF IInv, TypeOK
<1>6. QED BY <1>1, <1>2, <1>3, <1>4, <1>5 DEF Panicked, Outcomes

\* On a node that no panic hit, Counts leaves the entries in flight.
LEMMA CountsExact == CInv => ConcurrencyExact
<1> SUFFICES ASSUME CInv, NEW n \in Nodes, \A e \in Panicked : statNode[e] # n
             PROVE  concurrency[n] = Cardinality(InFlight(n))
  BY DEF ConcurrencyExact
<1>1. Unpassed(n) = {}
  <2>1. ASSUME NEW e \in Unpassed(n) PROVE FALSE
    <3>1. e \in Panicked
      BY UnpassedPanicked DEF CInv
    <3>2. QED BY <3>1 DEF Unpassed
  <2>2. QED BY <2>1
<1>2. Cardinality(InFlight(n)) \in Nat /\ Cardinality(Unpassed(n)) = 0
  BY <1>1, CountedFinite, FS_CardinalityType, FS_EmptySet
<1>3. QED BY <1>2 DEF CInv, Counts

\* Nothing is recorded, and nothing counted, at the start.
LEMMA InitCInv == Init => CInv
<1> SUFFICES ASSUME Init PROVE CInv
  OBVIOUS
<1>1. Decided
  BY DEF Init, Decided, Undecided
<1>2. ASSUME NEW n \in Nodes PROVE InFlight(n) = {} /\ Unpassed(n) = {}
  BY DEF Init, InFlight, Unpassed
<1>3. Counts
  BY <1>2, FS_EmptySet DEF Counts, Init
<1>4. QED BY <1>1, <1>3, InitIInv DEF CInv

-----------------------------------------------------------------------------

\* The inductive invariant holds throughout: the steps above, put together.
LEMMA IInvAlways == Spec => []IInv
<1>1. IInv /\ [Next]_vars => IInv'
  BY TypeStep, ProgressStep, HoldingsStep, PartitionStep, CleanStep, ErrorsStep
     DEF IInv
<1>2. QED
  BY InitIInv, <1>1, PTL DEF Spec

\* TypeOK: every variable keeps its range; in particular no stat slot completes
\* an entry twice, whatever panics.
THEOREM TypeCorrect == Spec => []TypeOK
  BY IInvAlways, PTL DEF IInv

\* ContextPartition: the pool and the live entries share the contexts out among
\* them, so that no two requests ever work on the same one and none gets lost.
THEOREM ContextsPartitioned == Spec => []ContextPartition
  BY IInvAlways, PTL DEF IInv

\* ErrorsOwned: of what an earlier user of a pooled context left in it, a
\* completion can be counted only with an error that user's caller wrote after
\* its context had been reset.
THEOREM ErrorsStayOwned == Spec => []ErrorsOwned
  BY IInvAlways, PTL DEF IInv

\* ConcurrencyExact: whatever the interleaving, the counter that isolation
\* compares is the number of entries in flight, on every node no panic hit.
THEOREM ConcurrencyStaysExact == Spec => []ConcurrencyExact
<1>1. CInv /\ [Next]_vars => CInv'
  BY TypeStep, ProgressStep, HoldingsStep, PartitionStep, CleanStep, ErrorsStep,
     DecidedStep, CountsStep DEF CInv, IInv
<1>2. QED
  BY InitCInv, <1>1, CountsExact, PTL DEF Spec

=============================================================================
