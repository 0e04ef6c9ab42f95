-------------------------- MODULE RuleSourcesProofs --------------------------
(* Proofs about RuleSources, for every set of rule types and every bound:   *)
(* what the loaders record has been applied, and what is in force stays.    *)
(* The argument for the first follows one version through a loader: it is   *)
(* seen, then rules at least as new are fetched, then these are put in      *)
(* force, and only then the version is recorded.                            *)
EXTENDS RuleSources, TLAPS

\* Where a caller stands with a type, and where it has put it in force.
Busy    == {"handle", "open", "write", "record"}
PutIn   == {"open", "write", "record"}
PCs     == Busy \cup {"rest", "end", "types"}
Callings ==
  [pc : PCs, seen : UNION {[S -> Nat] : S \in SUBSET Types}, type : Types \cup {"none"}, data : Int]

Ranges ==
  /\ published \in [Types -> Nat]
  /\ inForce \in [Types -> Int] /\ recorded \in [Types -> Nat] /\ applied \in [Types -> Nat]
  /\ caller \in [Callers -> Callings]
  /\ file \in [Types -> Int] /\ took \in [Types -> Int] /\ handled \in [Types -> Int]
  /\ watch \in [Types -> {"off", "on", "lost"}]

\* The rules a caller holds are of some type.  A loader has seen a version of
\* that type, fetched rules no older, and put them in force before it writes,
\* if there is a handler to do so.
InOrder(p) ==
  /\ caller[p].pc \in Busy => caller[p].type \in Types
  /\ \A t \in DOMAIN caller[p].seen : caller[p].seen[t] <= published[t]
  /\ caller[p].pc \in Busy /\ p \in Loaders
       => /\ caller[p].type \in DOMAIN caller[p].seen
          /\ caller[p].seen[caller[p].type] <= caller[p].data
  /\ caller[p].pc \in PutIn /\ (registered \/ p = "command")
       => caller[p].data <= applied[caller[p].type]

IInv == Ranges /\ registered \in BOOLEAN /\ (\A p \in Callers : InOrder(p)) /\ RecordedWasApplied

-----------------------------------------------------------------------------
(* Facts about the operators                                                *)

\* What a caller has seen is a function on some of the types.
LEMMA SeenFunction ==
  ASSUME NEW c \in Callings
  PROVE  /\ DOMAIN c.seen \subseteq Types
         /\ c.seen \in [DOMAIN c.seen -> Nat]
BY DEF Callings

LEMMA RestingCalling == Resting \in Callings /\ Ended \in Callings
<1> DEFINE e == [t \in {} |-> 0]
<1>1. e \in UNION {[S -> Nat] : S \in SUBSET Types}
  <2>1. e \in [{} -> Nat]
    OBVIOUS
  <2>2. QED
    BY <2>1
<1>2. /\ Resting = [pc |-> "rest", seen |-> e, type |-> "none", data |-> None]
      /\ Ended = [pc |-> "end", seen |-> e, type |-> "none", data |-> None]
  BY DEF Resting, Ended
<1> HIDE DEF e
<1>3. QED
  BY <1>1, <1>2 DEF Callings, PCs, None

\* A caller that is done with a type has that one less.
LEMMA WithoutCalling ==
  ASSUME NEW c \in Callings, NEW t
  PROVE  /\ Without(c, t) \in Callings
         /\ Without(c, t).pc = "types"
         /\ DOMAIN Without(c, t).seen = DOMAIN c.seen \ {t}
         /\ \A u \in DOMAIN c.seen \ {t} : Without(c, t).seen[u] = c.seen[u]
<1> DEFINE s == [u \in DOMAIN c.seen \ {t} |-> c.seen[u]]
<1>1. Without(c, t) = [pc |-> "types", seen |-> s, type |-> "none", data |-> None]
  <2>1. Without(c, t) = [c EXCEPT !.pc = "types", !.type = "none", !.data = None, !.seen = s]
    BY DEF Without
  <2> HIDE DEF s
  <2>2. QED
    BY <2>1 DEF Callings
<1>2. s \in UNION {[S -> Nat] : S \in SUBSET Types}
  <2>1. s \in [DOMAIN c.seen \ {t} -> Nat] /\ DOMAIN c.seen \ {t} \in SUBSET Types
    BY SeenFunction
  <2>2. QED
    BY <2>1
<1>3. DOMAIN s = DOMAIN c.seen \ {t} /\ \A u \in DOMAIN c.seen \ {t} : s[u] = c.seen[u]
  OBVIOUS
<1> HIDE DEF s
<1>4. QED
  BY <1>1, <1>2, <1>3 DEF Callings, PCs, None

\* What is put in force is applied, and what was applied is not less.
LEMMA PutInForceApplies ==
  ASSUME Ranges, NEW t \in Types, NEW data \in Int, data > 0, PutInForce(t, data)
  PROVE  /\ inForce' \in [Types -> Int] /\ applied' \in [Types -> Nat]
         /\ data <= applied'[t]
         /\ \A u \in Types : applied[u] <= applied'[u]
         /\ \A u \in Types : inForce[u] > None => inForce'[u] > None
BY DEF Ranges, PutInForce, None

LEMMA HandlesParses ==
  ASSUME NEW t, NEW data, Handles(t, data)
  PROVE  Parses(data)
BY DEF Handles, SetRules, SetParamFlowRules, SetMockRules, SetRetryRules, SetGrayRules

-----------------------------------------------------------------------------
(* Steps.  Nothing is published less, nothing applied less: callers that do *)
(* nothing stay in order.                                                   *)

Grows ==
  /\ published' \in [Types -> Nat] /\ applied' \in [Types -> Nat]
  /\ \A t \in Types : published[t] <= published'[t] /\ applied[t] <= applied'[t]

LEMMA GrowsKeeps ==
  ASSUME IInv, Grows, registered' = registered, NEW p \in Callers, caller'[p] = caller[p]
  PROVE  InOrder(p)'
<1>1. caller[p] \in Callings /\ InOrder(p)
  BY DEF IInv, Ranges
<1>2. DOMAIN caller[p].seen \subseteq Types
      /\ \A t \in DOMAIN caller[p].seen : caller[p].seen[t] \in Nat
  BY <1>1, SeenFunction
<1>3. \A t \in DOMAIN caller[p].seen : caller[p].seen[t] <= published'[t]
  BY <1>1, <1>2 DEF InOrder, Grows, IInv, Ranges
<1>4. caller[p].pc \in PutIn /\ (registered \/ p = "command")
        => caller[p].data <= applied'[caller[p].type]
  BY <1>1 DEF InOrder, Grows, IInv, Ranges, Callings, Busy, PutIn
<1>5. QED
  BY <1>1, <1>3, <1>4 DEF InOrder

\* A step of one caller, or of none, keeps the invariant if that caller is in
\* order after it and what it records was applied.
LEMMA CallerKeeps ==
  ASSUME IInv, Grows, registered' = registered, NEW p \in Callers, NEW c \in Callings, caller' = [caller EXCEPT ![p] = c],
         InOrder(p)', inForce' \in [Types -> Int], recorded' \in [Types -> Nat],
         file' \in [Types -> Int], took' \in [Types -> Int], handled' \in [Types -> Int],
         watch' \in [Types -> {"off", "on", "lost"}],
         RecordedWasApplied'
  PROVE  IInv'
<1>1. caller' \in [Callers -> Callings] /\ \A q \in Callers \ {p} : caller'[q] = caller[q]
  BY DEF IInv, Ranges
<1>2. \A q \in Callers : InOrder(q)'
  BY <1>1, GrowsKeeps
<1>3. QED
  BY <1>1, <1>2 DEF IInv, Ranges, Grows, RecordedWasApplied

LEMMA OthersKeep ==
  ASSUME IInv, Grows, registered' = registered, caller' = caller, recorded' = recorded,
         inForce' \in [Types -> Int], file' \in [Types -> Int], took' \in [Types -> Int],
         handled' \in [Types -> Int], watch' \in [Types -> {"off", "on", "lost"}]
  PROVE  IInv'
<1>1. \A q \in Callers : InOrder(q)'
  BY GrowsKeeps
<1>2. RecordedWasApplied'
  BY DEF IInv, Ranges, Grows, RecordedWasApplied
<1>3. QED
  BY <1>1, <1>2 DEF IInv, Ranges, Grows, RecordedWasApplied

LEMMA StillGrows ==
  ASSUME IInv, UNCHANGED <<published, registered, applied>>
  PROVE  Grows
BY DEF IInv, Ranges, Grows

\* A step of one caller that changes neither what is recorded nor what is
\* applied, and no file source.
LEMMA PlainCallerKeeps ==
  ASSUME IInv, NEW p \in Callers, NEW c \in Callings, caller' = [caller EXCEPT ![p] = c],
         InOrder(p)', UNCHANGED <<published, registered, recorded, rules, source>>,
         file' \in [Types -> Int]
  PROVE  IInv'
<1>1. Grows
  BY StillGrows DEF rules
<1>2. /\ inForce' \in [Types -> Int] /\ recorded' \in [Types -> Nat] /\ took' \in [Types -> Int]
      /\ handled' \in [Types -> Int] /\ watch' \in [Types -> {"off", "on", "lost"}]
      /\ RecordedWasApplied'
  BY DEF IInv, Ranges, RecordedWasApplied, rules, source
<1>3. QED
  BY <1>1, <1>2, CallerKeeps

\* A caller at rest, or at its end, is in order.
LEMMA RestsKeeps ==
  ASSUME IInv, NEW p \in Callers, NEW c \in {Resting, Ended},
         caller' = [caller EXCEPT ![p] = c],
         UNCHANGED <<published, registered, recorded, rules, source>>, file' \in [Types -> Int]
  PROVE  IInv'
<1>1. c \in Callings
  BY RestingCalling
<1>2. c.pc \in {"rest", "end"} /\ DOMAIN c.seen = {}
  BY DEF Resting, Ended
<1>3. caller'[p] = c
  BY DEF IInv, Ranges
<1>4. InOrder(p)'
  BY <1>2, <1>3 DEF InOrder, Busy, PutIn
<1>5. QED
  BY <1>1, <1>4, PlainCallerKeeps

\* A loader that is done with a type is in order with the others.
LEMMA WithoutKeeps ==
  ASSUME IInv, NEW l \in Callers, NEW t, caller' = [caller EXCEPT ![l] = Without(caller[l], t)],
         UNCHANGED <<published, registered, recorded, rules, source>>, file' \in [Types -> Int]
  PROVE  IInv'
<1> DEFINE c == Without(caller[l], t)
<1>1. caller[l] \in Callings /\ InOrder(l)
  BY DEF IInv, Ranges
<1>2. /\ c \in Callings /\ c.pc = "types" /\ DOMAIN c.seen = DOMAIN caller[l].seen \ {t}
      /\ \A u \in DOMAIN c.seen : c.seen[u] = caller[l].seen[u]
  BY <1>1, WithoutCalling
<1> HIDE DEF c
<1>3. caller' = [caller EXCEPT ![l] = c] /\ caller'[l] = c
  BY DEF c, IInv, Ranges
<1>4. InOrder(l)'
  BY <1>1, <1>2, <1>3 DEF InOrder, Busy, PutIn
<1>5. QED
  BY <1>2, <1>3, <1>4, PlainCallerKeeps

\* A caller that goes on with the same rules, which it has put in force.
LEMMA GoesOnKeeps ==
  ASSUME IInv, NEW p \in Callers, NEW x \in PutIn, caller' = [caller EXCEPT ![p].pc = x],
         caller[p].pc \in PutIn, UNCHANGED <<published, registered, recorded, rules, source>>,
         file' \in [Types -> Int]
  PROVE  IInv'
<1> DEFINE c == [caller[p] EXCEPT !.pc = x]
<1>1. caller[p] \in Callings /\ InOrder(p)
  BY DEF IInv, Ranges
<1>2. /\ c \in Callings /\ c.pc = x /\ c.seen = caller[p].seen /\ c.type = caller[p].type
      /\ c.data = caller[p].data
  BY <1>1 DEF Callings, PCs, Busy, PutIn
<1>3. caller' = [caller EXCEPT ![p] = c]
  OBVIOUS
<1> HIDE DEF c
<1>4. caller'[p] = c
  BY <1>3 DEF IInv, Ranges
<1>5. InOrder(p)'
  BY <1>1, <1>2, <1>4 DEF InOrder, Busy, PutIn, rules
<1>6. QED
  BY <1>2, <1>3, <1>5, PlainCallerKeeps

\* A file is written, whatever into it: integers stand for contents.
LEMMA ChangedFile ==
  ASSUME Ranges, NEW t, NEW content \in Int, Changed(t, content)
  PROVE  file' \in [Types -> Int]
BY DEF Ranges, Changed

\* After its write a loader goes on to record, and the command centre rests.
LEMMA AfterWriteKeeps ==
  ASSUME IInv, NEW p \in Callers, AfterWrite(p), caller[p].pc \in PutIn,
         UNCHANGED <<published, registered, recorded, rules, source>>, file' \in [Types -> Int]
  PROVE  IInv'
<1>1. CASE p = "command"
  BY <1>1, RestsKeeps DEF AfterWrite
<1>2. CASE p # "command"
  <2>1. caller' = [caller EXCEPT ![p].pc = "record"] /\ "record" \in PutIn
    BY <1>2 DEF AfterWrite, PutIn
  <2>2. QED
    BY <2>1, GoesOnKeeps
<1>3. QED
  BY <1>1, <1>2

-----------------------------------------------------------------------------
(* The actions                                                              *)

LEMMA PublishKeeps ==
  ASSUME IInv, NEW t \in Types, Publish(t)
  PROVE  IInv'
<1>1. Grows /\ UNCHANGED <<registered, recorded, caller, rules, files, source>>
  BY DEF IInv, Ranges, Grows, Publish, rules
<1>2. QED
  BY <1>1, OthersKeep DEF IInv, Ranges, rules, files, source

LEMMA PushKeeps ==
  ASSUME IInv, NEW t \in Types, Push(t)
  PROVE  IInv'
<1> DEFINE c == [Resting EXCEPT !.pc = "handle", !.type = t, !.data = published[t]]
<1>1. c \in Callings /\ c.pc = "handle" /\ c.type = t /\ DOMAIN c.seen = {}
  <2>1. published[t] \in Int
    BY DEF IInv, Ranges
  <2> DEFINE n == published[t]
  <2>2. n \in Int /\ c = [Resting EXCEPT !.pc = "handle", !.type = t, !.data = n]
    BY <2>1
  <2> HIDE DEF n, c
  <2>3. DOMAIN Resting.seen = {}
    BY DEF Resting
  <2>4. QED
    BY <2>2, <2>3, RestingCalling DEF Callings, PCs, Busy
<1>2. caller' = [caller EXCEPT !["command"] = c] /\ "command" \in Callers
  BY DEF Push, Callers
<1> HIDE DEF c
<1>3. caller'["command"] = c
  BY <1>2 DEF IInv, Ranges
<1>4. InOrder("command")'
  BY <1>1, <1>3 DEF InOrder, Busy, PutIn, Loaders
<1>5. UNCHANGED <<published, registered, recorded, rules, source>> /\ file' \in [Types -> Int]
  BY DEF Push, IInv, Ranges, files
<1>6. QED
  BY <1>1, <1>2, <1>4, <1>5, PlainCallerKeeps

LEMMA FindMaxVersionKeeps ==
  ASSUME IInv, NEW l \in Loaders, FindMaxVersion(l)
  PROVE  IInv'
<1> DEFINE types == {t \in Types : published[t] # None}
           s == [t \in types |-> published[t]]
           c == [Resting EXCEPT !.pc = "types", !.seen = s]
<1>1. s \in [types -> Nat] /\ types \subseteq Types
  BY DEF IInv, Ranges
<1>2. DOMAIN s \subseteq Types /\ \A t \in DOMAIN s : s[t] = published[t]
  OBVIOUS
<1>3. s \in UNION {[S -> Nat] : S \in SUBSET Types}
  BY <1>1
<1>4. caller' = [caller EXCEPT ![l] = c] /\ l \in Callers
  BY DEF FindMaxVersion, Callers
<1> HIDE DEF types, s
<1>5. c \in Callings /\ c.pc = "types" /\ c.seen = s
  BY <1>3, RestingCalling DEF Callings, PCs
<1> HIDE DEF c
<1>6. caller'[l] = c
  BY <1>4 DEF IInv, Ranges
<1>7. UNCHANGED <<published, registered, recorded, rules, source>> /\ file' \in [Types -> Int]
  BY DEF FindMaxVersion, IInv, Ranges, files
<1>8. InOrder(l)'
  BY <1>2, <1>5, <1>6, <1>7 DEF InOrder, Busy, PutIn, IInv, Ranges
<1>9. QED
  BY <1>4, <1>5, <1>7, <1>8, PlainCallerKeeps

LEMMA NoMoreTypesKeeps ==
  ASSUME IInv, NEW l \in Loaders, NoMoreTypes(l)
  PROVE  IInv'
<1>1. /\ l \in Callers /\ Rest(l) \in {Resting, Ended} /\ caller' = [caller EXCEPT ![l] = Rest(l)]
      /\ UNCHANGED <<published, registered, recorded, rules, source>> /\ file' \in [Types -> Int]
  BY DEF NoMoreTypes, Rest, Callers, IInv, Ranges, files
<1>2. QED
  BY <1>1, RestsKeeps

\* The rules fetched are the newest published, and what was seen is not newer.
LEMMA FindRuleKeeps ==
  ASSUME IInv, NEW l \in Loaders, FindRule(l)
  PROVE  IInv'
<1>1. PICK t \in DOMAIN caller[l].seen :
        caller' = [caller EXCEPT ![l] =
              IF Check(l, t) THEN Without(@, t)
              ELSE [@ EXCEPT !.pc = "handle", !.type = t, !.data = published[t]]]
  BY DEF FindRule
<1>2. l \in Callers /\ caller[l] \in Callings /\ InOrder(l)
  BY DEF Callers, IInv, Ranges
<1>3. t \in Types /\ published[t] \in Int /\ caller[l].seen[t] <= published[t]
  BY <1>1, <1>2, SeenFunction DEF IInv, Ranges, InOrder
<1>4. UNCHANGED <<published, registered, recorded, rules, source>> /\ file' \in [Types -> Int]
  BY DEF FindRule, IInv, Ranges, files
<1>5. CASE Check(l, t)
  <2>1. caller' = [caller EXCEPT ![l] = Without(caller[l], t)]
    BY <1>1, <1>5
  <2>2. QED
    BY <1>2, <1>4, <2>1, WithoutKeeps
<1>6. CASE ~Check(l, t)
  <2> DEFINE n == published[t]
             c == [caller[l] EXCEPT !.pc = "handle", !.type = t, !.data = n]
  <2>1. caller' = [caller EXCEPT ![l] = c]
    BY <1>1, <1>6
  <2>2. n \in Int /\ n = published[t]
    BY <1>3
  <2> HIDE DEF n
  <2>3. c \in Callings /\ c.pc = "handle" /\ c.type = t /\ c.data = n /\ c.seen = caller[l].seen
    BY <1>2, <1>3, <2>2 DEF Callings, PCs, Busy
  <2> HIDE DEF c
  <2>4. caller'[l] = c
    BY <1>2, <2>1 DEF IInv, Ranges
  <2>5. InOrder(l)'
    BY <1>1, <1>2, <1>3, <1>4, <2>2, <2>3, <2>4 DEF InOrder, PutIn
  <2>6. QED
    BY <1>2, <1>4, <2>1, <2>3, <2>5, PlainCallerKeeps
<1>7. QED
  BY <1>5, <1>6

LEMMA LoadFailsKeeps ==
  ASSUME IInv, NEW l \in Loaders, LoadFails(l)
  PROVE  IInv'
<1>1. /\ l \in Callers
      /\ UNCHANGED <<published, registered, recorded, rules, source>> /\ file' \in [Types -> Int]
  BY DEF LoadFails, Callers, IInv, Ranges, files
<1>2. \/ caller' = [caller EXCEPT ![l] = Ended]
      \/ \E t : caller' = [caller EXCEPT ![l] = Without(caller[l], t)]
  BY DEF LoadFails
<1>3. QED
  BY <1>1, <1>2, RestsKeeps, WithoutKeeps

\* The version recorded is one the loader has seen and put in force.
LEMMA SetVersionKeeps ==
  ASSUME IInv, NEW l \in Loaders, SetRuleTypeCurrentVersion(l)
  PROVE  IInv'
<1> DEFINE t == caller[l].type
           n == caller[l].seen[t]
           c == Without(caller[l], t)
<1>1. l \in Callers /\ caller[l] \in Callings /\ InOrder(l) /\ caller[l].pc = "record"
  BY DEF SetRuleTypeCurrentVersion, Callers, IInv, Ranges
<1>2. t \in Types /\ n \in Nat /\ (registered => n <= applied[t])
  <2>1. t \in Types /\ t \in DOMAIN caller[l].seen /\ n <= caller[l].data
        /\ (registered => caller[l].data <= applied[t])
    BY <1>1 DEF InOrder, Busy, PutIn
  <2>2. n \in Nat
    BY <1>1, <2>1, SeenFunction
  <2>3. caller[l].data \in Int /\ applied[t] \in Nat
    BY <1>1, <2>1 DEF Callings, IInv, Ranges
  <2>4. QED
    BY <2>1, <2>2, <2>3
<1>3. recorded' = [recorded EXCEPT ![t] = n]
  BY DEF SetRuleTypeCurrentVersion, SetVersion
<1>4. /\ c \in Callings /\ c.pc = "types" /\ DOMAIN c.seen = DOMAIN caller[l].seen \ {t}
      /\ \A u \in DOMAIN c.seen : c.seen[u] = caller[l].seen[u]
  BY <1>1, WithoutCalling
<1>5. caller' = [caller EXCEPT ![l] = c]
  BY DEF SetRuleTypeCurrentVersion
<1>6. UNCHANGED <<published, registered, rules, files, source>> /\ Grows
  BY StillGrows DEF SetRuleTypeCurrentVersion, rules
<1> HIDE DEF t, n, c
<1>7. caller'[l] = c
  BY <1>1, <1>5 DEF IInv, Ranges
<1>8. InOrder(l)'
  BY <1>1, <1>4, <1>6, <1>7 DEF InOrder, Busy, PutIn
<1>9. recorded' \in [Types -> Nat] /\ RecordedWasApplied'
  BY <1>2, <1>3, <1>6 DEF IInv, Ranges, RecordedWasApplied, rules
<1>10. /\ inForce' \in [Types -> Int] /\ file' \in [Types -> Int] /\ took' \in [Types -> Int]
       /\ handled' \in [Types -> Int] /\ watch' \in [Types -> {"off", "on", "lost"}]
  BY <1>6 DEF IInv, Ranges, rules, files, source
<1>11. QED
  BY <1>1, <1>4, <1>5, <1>6, <1>8, <1>9, <1>10, CallerKeeps

LEMMA HandleKeeps ==
  ASSUME IInv, NEW p \in Callers, Handle(p)
  PROVE  IInv'
<1> DEFINE t == caller[p].type
           data == caller[p].data
           c == [caller[p] EXCEPT !.pc = "open"]
<1>1. /\ caller[p] \in Callings /\ InOrder(p) /\ caller[p].pc = "handle"
      /\ Handles(t, data) /\ PutInForce(t, data)
      /\ caller' = [caller EXCEPT ![p] = c]
      /\ UNCHANGED <<published, registered, recorded, files, source>>
  BY DEF Handle, IInv, Ranges
<1>2. t \in Types /\ data \in Int /\ data > 0
  BY <1>1, HandlesParses DEF InOrder, Busy, Callings, Parses
<1>3. /\ inForce' \in [Types -> Int] /\ applied' \in [Types -> Nat]
      /\ data <= applied'[t] /\ \A u \in Types : applied[u] <= applied'[u]
  BY <1>1, <1>2, PutInForceApplies DEF IInv
<1>4. c \in Callings /\ c.pc = "open" /\ c.type = t /\ c.data = data /\ c.seen = caller[p].seen
  BY <1>1 DEF Callings, PCs, Busy
<1> HIDE DEF t, data, c
<1>5. Grows
  BY <1>1, <1>3 DEF Grows, IInv, Ranges
<1>6. caller'[p] = c
  BY <1>1 DEF IInv, Ranges
<1>7. InOrder(p)'
  BY <1>1, <1>2, <1>3, <1>4, <1>6 DEF InOrder, Busy, PutIn, t, data
<1>8. recorded' \in [Types -> Nat] /\ RecordedWasApplied'
  BY <1>1, <1>3 DEF IInv, Ranges, RecordedWasApplied
<1>9. /\ file' \in [Types -> Int] /\ took' \in [Types -> Int]
      /\ handled' \in [Types -> Int] /\ watch' \in [Types -> {"off", "on", "lost"}]
  BY <1>1 DEF IInv, Ranges, files, source
<1>10. QED
  BY <1>1, <1>3, <1>4, <1>5, <1>7, <1>8, <1>9, CallerKeeps

\* A version that no handler applied is one the invariant does not speak of.
LEMMA HandleNothingKeeps ==
  ASSUME IInv, NEW l \in Loaders, HandleNothing(l)
  PROVE  IInv'
<1> DEFINE c == [caller[l] EXCEPT !.pc = "record"]
<1>1. /\ l \in Callers /\ l # "command" /\ caller[l] \in Callings /\ InOrder(l)
      /\ caller[l].pc = "handle" /\ ~registered /\ caller' = [caller EXCEPT ![l] = c]
      /\ UNCHANGED <<published, registered, recorded, rules, source>> /\ file' \in [Types -> Int]
  BY DEF HandleNothing, Loaders, Callers, IInv, Ranges, files
<1>2. /\ c \in Callings /\ c.pc = "record" /\ c.type = caller[l].type
      /\ c.data = caller[l].data /\ c.seen = caller[l].seen
  BY <1>1 DEF Callings, PCs, Busy
<1> HIDE DEF c
<1>3. caller'[l] = c
  BY <1>1 DEF IInv, Ranges
<1>4. InOrder(l)'
  BY <1>1, <1>2, <1>3 DEF InOrder, Busy, PutIn
<1>5. QED
  BY <1>1, <1>2, <1>4, PlainCallerKeeps

LEMMA OpenKeeps ==
  ASSUME IInv, NEW p \in Callers, Open(p)
  PROVE  IInv'
<1>1. /\ caller[p].pc = "open" /\ caller[p].pc \in PutIn
      /\ UNCHANGED <<published, registered, recorded, rules, source>>
  BY DEF Open, PutIn
<1>2. CASE AfterWrite(p) /\ UNCHANGED files
  BY <1>1, <1>2, AfterWriteKeeps DEF IInv, Ranges, files
<1>3. CASE Changed(caller[p].type, Empty) /\ caller' = [caller EXCEPT ![p].pc = "write"]
  <2>1. Empty \in Int /\ "write" \in PutIn
    BY DEF Empty, PutIn
  <2>2. QED
    BY <1>1, <1>3, <2>1, ChangedFile, GoesOnKeeps DEF IInv
<1>4. QED
  BY <1>2, <1>3 DEF Open

LEMMA WriteKeeps ==
  ASSUME IInv, NEW p \in Callers, Write(p)
  PROVE  IInv'
<1> DEFINE t == caller[p].type
           data == caller[p].data
<1>1. /\ caller[p].pc = "write" /\ caller[p].pc \in PutIn
      /\ UNCHANGED <<published, registered, recorded, rules, source>> /\ AfterWrite(p)
  BY DEF Write, PutIn
<1>2. PICK content \in {data, Missing, Torn} : Changed(t, content)
  BY DEF Write
<1>3. content \in Int
  BY DEF IInv, Ranges, Callings, Missing, Torn
<1>4. QED
  BY <1>1, <1>2, <1>3, ChangedFile, AfterWriteKeeps DEF IInv

LEMMA WriteFailsKeeps ==
  ASSUME IInv, NEW p \in Callers, WriteFails(p)
  PROVE  IInv'
<1>1. /\ caller[p].pc \in PutIn /\ AfterWrite(p)
      /\ UNCHANGED <<published, registered, recorded, rules, source>> /\ file' \in [Types -> Int]
  BY DEF WriteFails, PutIn, IInv, Ranges, files
<1>2. QED
  BY <1>1, AfterWriteKeeps

\* What a file source applies is parsed, so it is rules and not none.
LEMMA HandlePropertyApplies ==
  ASSUME Ranges, NEW t \in Types, NEW data \in Int, HandleProperty(t, data)
  PROVE  /\ inForce' \in [Types -> Int] /\ applied' \in [Types -> Nat]
         /\ handled' \in [Types -> Int]
         /\ \A u \in Types : applied[u] <= applied'[u]
         /\ \A u \in Types : inForce[u] > None => inForce'[u] > None
<1>1. CASE Parses(data) /\ handled' = [handled EXCEPT ![t] = data] /\ PutInForce(t, data)
  BY <1>1, PutInForceApplies DEF Parses, Ranges
<1>2. CASE handled' \in {handled, [handled EXCEPT ![t] = data]} /\ UNCHANGED rules
  BY <1>2 DEF Ranges, rules
<1>3. QED
  BY <1>1, <1>2 DEF HandleProperty

LEMMA InitializeKeeps ==
  ASSUME IInv, NEW t \in Types, Initialize(t)
  PROVE  IInv'
<1>1. HandleProperty(t, file[t]) /\ file[t] \in Int /\ UNCHANGED <<published, registered, recorded, caller, took>>
  BY DEF Initialize, IInv, Ranges
<1>2. /\ inForce' \in [Types -> Int] /\ applied' \in [Types -> Nat] /\ handled' \in [Types -> Int]
      /\ \A u \in Types : applied[u] <= applied'[u]
  BY <1>1, HandlePropertyApplies DEF IInv
<1>3. /\ file' \in [Types -> Int] /\ took' \in [Types -> Int]
      /\ watch' \in [Types -> {"off", "on", "lost"}]
  BY <1>1 DEF Initialize, IInv, Ranges, Empty
<1>4. Grows
  BY <1>1, <1>2 DEF Grows, IInv, Ranges
<1>5. QED
  BY <1>1, <1>2, <1>3, <1>4, OthersKeep

LEMMA UpdateKeeps ==
  ASSUME IInv, NEW t \in Types, Update(t)
  PROVE  IInv'
<1>1. /\ HandleProperty(t, took[t]) /\ took[t] \in Int
      /\ UNCHANGED <<published, registered, recorded, caller, files, watch>>
  BY DEF Update, IInv, Ranges
<1>2. /\ inForce' \in [Types -> Int] /\ applied' \in [Types -> Nat] /\ handled' \in [Types -> Int]
      /\ \A u \in Types : applied[u] <= applied'[u]
  BY <1>1, HandlePropertyApplies DEF IInv
<1>3. /\ file' \in [Types -> Int] /\ took' \in [Types -> Int]
      /\ watch' \in [Types -> {"off", "on", "lost"}]
  BY <1>1 DEF Update, IInv, Ranges, Idle, files
<1>4. Grows
  BY <1>1, <1>2 DEF Grows, IInv, Ranges
<1>5. QED
  BY <1>1, <1>2, <1>3, <1>4, OthersKeep

\* What else happens to the files and in their watchers applies nothing.
LEMMA FileStepKeeps ==
  ASSUME IInv, NEW t \in Types, ReadSource(t) \/ UpdateFails(t) \/ Disturb(t) \/ Gone(t)
  PROVE  IInv'
<1>1. UNCHANGED <<published, registered, recorded, caller, rules>> /\ Grows
  BY StillGrows DEF ReadSource, UpdateFails, Disturb, Gone, rules
<1>2. file' \in [Types -> Int]
  BY DEF ReadSource, UpdateFails, Disturb, Gone, IInv, Ranges, files, Missing
<1>3. took' \in [Types -> Int]
  BY DEF ReadSource, UpdateFails, Disturb, Gone, IInv, Ranges, source, Idle
<1>4. handled' \in [Types -> Int] /\ watch' \in [Types -> {"off", "on", "lost"}]
  BY DEF ReadSource, UpdateFails, Disturb, Gone, IInv, Ranges, source
<1>5. inForce' \in [Types -> Int]
  BY <1>1 DEF IInv, Ranges, rules
<1>6. QED
  BY <1>1, <1>2, <1>3, <1>4, <1>5, OthersKeep

LEMMA CrashKeeps ==
  ASSUME IInv, Crash
  PROVE  IInv'
<1>1. caller' \in [Callers -> Callings] /\ \A p \in Callers : caller'[p] = Resting
  BY RestingCalling DEF Crash
<1>2. Ranges'
  BY <1>1 DEF Crash, IInv, Ranges, None, Idle
<1>3. \A p \in Callers : InOrder(p)'
  BY <1>1 DEF InOrder, Busy, PutIn, Resting
<1>4. RecordedWasApplied'
  BY DEF Crash, RecordedWasApplied, None
<1>5. registered' \in BOOLEAN
  BY DEF Crash
<1>6. QED
  BY <1>2, <1>3, <1>4, <1>5 DEF IInv

LEMMA InitHolds == Init => IInv
<1> SUFFICES ASSUME Init PROVE IInv
  OBVIOUS
<1>1. caller \in [Callers -> Callings] /\ \A p \in Callers : caller[p] = Resting
  BY RestingCalling DEF Init
<1>2. Ranges
  BY <1>1 DEF Init, Ranges, None, Missing, Idle
<1>3. \A p \in Callers : InOrder(p)
  BY <1>1 DEF InOrder, Busy, PutIn, Resting
<1>4. RecordedWasApplied
  BY DEF Init, RecordedWasApplied, None
<1>5. registered \in BOOLEAN
  BY DEF Init
<1>6. QED
  BY <1>2, <1>3, <1>4, <1>5 DEF IInv

LEMMA NextKeeps == IInv /\ [Next]_vars => IInv'
<1> SUFFICES ASSUME IInv, [Next]_vars PROVE IInv'
  OBVIOUS
<1>1. ASSUME NEW l \in Loaders, FindMaxVersion(l) \/ NoMoreTypes(l) \/ FindRule(l)
                                \/ SetRuleTypeCurrentVersion(l) \/ LoadFails(l)
                                \/ HandleNothing(l)
      PROVE  IInv'
  BY <1>1, HandleNothingKeeps, FindMaxVersionKeeps, NoMoreTypesKeeps, FindRuleKeeps, SetVersionKeeps, LoadFailsKeeps
<1>2. ASSUME NEW p \in Callers, Handle(p) \/ Open(p) \/ Write(p) \/ WriteFails(p)
      PROVE  IInv'
  BY <1>2, HandleKeeps, OpenKeeps, WriteKeeps, WriteFailsKeeps
<1>3. ASSUME NEW t \in Types, Publish(t) \/ Push(t) \/ Watcher(t) \/ Disturb(t) \/ UpdateFails(t)
      PROVE  IInv'
  BY <1>3, PublishKeeps, PushKeeps, InitializeKeeps, UpdateKeeps, FileStepKeeps DEF Watcher
<1>4. CASE Crash
  BY <1>4, CrashKeeps
<1>5. CASE UNCHANGED vars
  <2>1. UNCHANGED <<published, registered, applied, caller, recorded, inForce, file, took, handled, watch>>
    BY <1>5 DEF vars
  <2>2. QED
    BY <2>1, StillGrows, OthersKeep DEF IInv, Ranges
<1>6. "timer" \in Loaders /\ "once" \in Loaders
      /\ "timer" \in Callers /\ "once" \in Callers /\ "command" \in Callers
  BY DEF Loaders, Callers
<1>7. QED
  BY <1>1, <1>2, <1>3, <1>4, <1>5, <1>6 DEF Next, Timer, Once, Command, Environment

-----------------------------------------------------------------------------
(* RecordedWasApplied: whatever is pushed, fetched twice, written halfway or *)
(* lost, where handlers are registered a version is recorded only after     *)
(* rules at least as new were put in force: a timer that runs never skips a *)
(* version it has not loaded (Check, SetRuleTypeCurrentVersion in           *)
(* fetch_rule_init_func.go).                                                *)
THEOREM RecordedApplied == Spec => []RecordedWasApplied
<1>1. IInv => RecordedWasApplied
  BY DEF IInv
<1>2. QED
  BY <1>1, InitHolds, NextKeeps, PTL DEF Spec

\* No step but the end of the process leaves a type without the rules it had.
LEMMA NextStays ==
  IInv /\ [Next]_vars => \/ \A t \in Types : inForce[t] > None => inForce'[t] > None
                         \/ \A t \in Types : watch'[t] = "off"
<1> DEFINE Stay == \A t \in Types : inForce[t] > None => inForce'[t] > None
<1> SUFFICES ASSUME IInv, [Next]_vars PROVE Stay \/ \A t \in Types : watch'[t] = "off"
  OBVIOUS
<1>1. ASSUME NEW l \in Loaders, FindMaxVersion(l) \/ NoMoreTypes(l) \/ FindRule(l)
                                \/ SetRuleTypeCurrentVersion(l) \/ LoadFails(l)
                                \/ HandleNothing(l)
      PROVE  Stay
  BY <1>1 DEF FindMaxVersion, NoMoreTypes, FindRule, SetRuleTypeCurrentVersion, LoadFails,
              HandleNothing, rules
<1>2. ASSUME NEW p \in Callers, Handle(p)
      PROVE  Stay
  <2> DEFINE t == caller[p].type
             data == caller[p].data
  <2>1. Handles(t, data) /\ PutInForce(t, data) /\ caller[p].pc = "handle" /\ InOrder(p)
        /\ data \in Int
    BY <1>2 DEF Handle, IInv, Ranges, Callings
  <2>2. t \in Types /\ data > 0
    BY <2>1, HandlesParses DEF InOrder, Busy, Parses
  <2>3. QED
    BY <2>1, <2>2, PutInForceApplies DEF IInv
<1>3. ASSUME NEW p \in Callers, Open(p) \/ Write(p) \/ WriteFails(p)
      PROVE  Stay
  BY <1>3 DEF Open, Write, WriteFails, rules
<1>4. ASSUME NEW t \in Types, Initialize(t) \/ Update(t)
      PROVE  Stay
  <2>1. PICK data \in Int : HandleProperty(t, data)
    BY <1>4 DEF Initialize, Update, IInv, Ranges
  <2>2. QED
    BY <2>1, HandlePropertyApplies DEF IInv
<1>5. ASSUME NEW t \in Types, Publish(t) \/ Push(t) \/ ReadSource(t) \/ Gone(t) \/ Disturb(t)
                              \/ UpdateFails(t)
      PROVE  Stay
  BY <1>5 DEF Publish, Push, ReadSource, Gone, Disturb, UpdateFails, rules
<1>6. CASE Crash
  BY <1>6 DEF Crash
<1>7. CASE UNCHANGED vars
  BY <1>7 DEF vars
<1>8. "timer" \in Loaders /\ "once" \in Loaders
      /\ "timer" \in Callers /\ "once" \in Callers /\ "command" \in Callers
  BY DEF Loaders, Callers
<1>9. QED
  BY <1>1, <1>2, <1>3, <1>4, <1>5, <1>6, <1>7, <1>8
  DEF Next, Timer, Once, Command, Environment, Watcher

(* An empty, torn or missing file, a failed load or an update that comes too *)
(* late leaves the rules of a type in force: parsers and handlers refuse     *)
(* what is no rules before a manager sees it, and only the end of the        *)
(* process, which has to initialise its sources again, takes rules away.     *)
THEOREM InForceStay == Spec => RulesStay
<1>1. QED
  BY InitHolds, NextKeeps, NextStays, PTL DEF Spec, RulesStay

=============================================================================
