---------------------------- MODULE RejectChecker ----------------------------
(***************************************************************************)
(* RejectTrafficShapingChecker.DoCheck of core/flow/tc_default.go, run by  *)
(* concurrent requests against the sliding window statistic of its rule    *)
(* (module LeapArray).  Every request of Callers calls DoCheck once, with  *)
(* batch count 1: sum, add in advance, sum again, take back if too many.   *)
(* Buckets are replaced while others add to them and sum them up, and the  *)
(* clock moves on in the middle of a check.                                *)
(*                                                                         *)
(* The buckets are turned without a second look, and the clock is read     *)
(* once: additions get lost, and the quota is not kept strictly.  The      *)
(* history variables say whose, so that the properties can say how far     *)
(* the count and the quota are out in the end.                             *)
(***************************************************************************)
EXTENDS LeapArray, FiniteSets

CONSTANTS
  Threshold,     \* rule.Threshold
  Statistic      \* what generateStatFor gave the rule

\* "own" is an independent statistic, or the resource's default one; "view" is
\* a SlidingWindowMetric of its own over the statistic of the resource, which
\* comes without anything to write to.
ASSUME RejectAssumption ==
  /\ Threshold \in Nat
  /\ Statistic \in {"own", "view"}

VARIABLES
  now,           \* the clock, in buckets
  phase,         \* how far DoCheck has come for each request
  plus,          \* history: whose addition is in the counter of its bucket
  minus,         \* history: whose subtraction is in it
  astray         \* history: whose addition, subtraction or sum went wrong

statistic == <<array, locals>>
history   == <<plus, minus, astray>>
vars      == <<now, statistic, phase, history>>

Phases == { "new", "firstSum", "addInAdvance", "secondSum", "takeBack",
            "granted", "refused" }

Advance(r, p) == phase' = [phase EXCEPT ![r] = p]

Init ==
  /\ ArrayInit
  /\ now = StartTime
  /\ phase = [r \in Callers |-> "new"]
  /\ plus = {} /\ minus = {} /\ astray = {}

-----------------------------------------------------------------------------

\* A plausible slip: the bucket that starts next is taken for the current one.
DoCheckAhead(r) ==
  /\ phase[r] = "new"
  /\ Advance(r, "firstSum") /\ GetSumWithTime(r, now + 1)
  /\ UNCHANGED <<now, history>>

\* A rule without a writable statistic lets everything pass.
DoCheck(r) ==
  /\ phase[r] = "new"
  /\ IF Statistic = "view"
     THEN Advance(r, "granted") /\ UNCHANGED statistic
     ELSE Advance(r, "firstSum") /\ GetSumWithTime(r, now)
  /\ UNCHANGED <<now, history>>

\* Up to and including the threshold, the request is added in advance.
FirstSum(r) ==
  /\ phase[r] = "firstSum" /\ step[r] = "idle"
  /\ \/ /\ result[r] > Threshold
        /\ Advance(r, "refused")
        /\ UNCHANGED statistic
     \/ /\ result[r] <= Threshold
        /\ AddCountWithTime(r, at[r], 1)
        /\ Advance(r, "addInAdvance")
  /\ UNCHANGED <<now, history>>

AddedInAdvance(r) ==
  /\ phase[r] = "addInAdvance"
  /\ GetSumWithTime(r, at[r])
  /\ Advance(r, "secondSum")
  /\ UNCHANGED <<now, history>>

\* Plausible slips: the second sum is not looked at ...
SecondSumIgnored(r) ==
  /\ phase[r] = "secondSum" /\ step[r] = "idle"
  /\ Advance(r, "granted")
  /\ UNCHANGED <<now, statistic, history>>

\* ... or the request it refuses stays counted.
SecondSumKeeping(r) ==
  /\ phase[r] = "secondSum" /\ step[r] = "idle"
  /\ Advance(r, IF result[r] > Threshold THEN "refused" ELSE "granted")
  /\ UNCHANGED <<now, statistic, history>>

SecondSum(r) ==
  /\ phase[r] = "secondSum" /\ step[r] = "idle"
  /\ \/ /\ result[r] > Threshold
        /\ AddCountWithTime(r, at[r], -1)
        /\ Advance(r, "takeBack")
     \/ /\ result[r] <= Threshold
        /\ Advance(r, "granted")
        /\ UNCHANGED statistic
  /\ UNCHANGED <<now, history>>

TakenBack(r) ==
  /\ phase[r] = "takeBack" /\ step[r] = "idle"
  /\ Advance(r, "refused")
  /\ UNCHANGED <<now, statistic, history>>

Tick ==
  /\ now < MaxTime
  /\ now' = now + 1
  /\ UNCHANGED <<statistic, phase, history>>

-----------------------------------------------------------------------------
(* The history of what the counters hold.                                   *)

Together(r) == {s \in Callers : Idx(at[s]) = Idx(at[r])}

\* r replaces the period of its bucket by its own: whoever added there for a
\* period that r's has not put out of date is no longer counted.
PutOut(r) ==
  IF step[r] \in {"storeStart", "reset"}
  THEN {s \in plus \cap Together(r) : at[s] > at[r] - SampleCount}
  ELSE {}

\* r's addition is dropped, or made to the bucket of another period; r takes
\* back what the counter no longer holds; or r decides by a sum for a moment
\* that has passed.
Strays(r) ==
  \/ step[r] = "tryLockAhead" /\ lock # Nobody /\ SampleCount > 1
  \/ step[r] = "add" /\ delta[r] = 1 /\ start[Idx(at[r])] # at[r]
  \/ step[r] = "add" /\ delta[r] = -1 /\ r \notin plus
  \/ step[r] = "sum" /\ phase[r] = "secondSum" /\ now # at[r]

Holds(r, d, requests) ==
  IF step[r] = "reset" THEN requests \ Together(r)
  ELSE IF step[r] = "add" /\ delta[r] = d THEN requests \cup {r}
  ELSE requests

Record(r) ==
  /\ plus' = Holds(r, 1, plus)
  /\ minus' = Holds(r, -1, minus)
  /\ astray' = astray \cup PutOut(r) \cup {s \in {r} : Strays(s)}

-----------------------------------------------------------------------------

\* Every request has been decided and the clock has run out.
Finished ==
  /\ now = MaxTime
  /\ \A r \in Callers : phase[r] \in {"granted", "refused"}
  /\ UNCHANGED vars

Next ==
  \/ Tick
  \/ Finished
  \/ \E r \in Callers :
       \/ DoCheck(r)
       \/ FirstSum(r)
       \/ AddedInAdvance(r)
       \/ SecondSum(r)
       \/ TakenBack(r)
       \/ Operate(r) /\ Record(r) /\ UNCHANGED <<now, phase>>

Spec == Init /\ [][Next]_vars

-----------------------------------------------------------------------------
(* Properties                                                               *)

\* The values each variable ranges over.
TypeOK ==
  /\ ArrayTypeOK
  /\ now \in Times
  /\ phase \in [Callers -> Phases]
  /\ plus \subseteq Callers /\ minus \subseteq Callers /\ astray \subseteq Callers

Checking == {r \in Callers : phase[r] \notin {"new", "granted", "refused"}}
Granted == {r \in Callers : phase[r] = "granted"}
GrantedFor(times) == {r \in Granted : at[r] \in times}

\* What flow/rule.go says: "Threshold means the threshold during
\* StatIntervalInMs".  Refuted: bucket turns lose additions.
QuotaStrict ==
  \A time \in Times :
    Cardinality(GrantedFor((time - Window + 1)..time)) <= Threshold

\* A window of the rule's interval sees more than Threshold requests granted
\* only by as many as went astray: however the first sums, the additions, the
\* second sums and the roll-backs interleave, with each other, with the turns
\* of the buckets and with the clock, what is granted too much was lost by a
\* bucket turn or decided late, one grant for one such request.
QuotaKept ==
  \A time \in Times :
    Cardinality(GrantedFor((time - Window + 1)..time)) <= Threshold + Cardinality(astray)

\* With no check under way a bucket the array still answers for counts the
\* requests granted in its period, give or take the requests that went astray:
\* what DoCheck added in advance for a request it refused has been taken back,
\* from the bucket it went to, and nothing of an earlier period is left.
CountIsGrants ==
  Checking = {} =>
    \A i \in Slots : start[i] > now - SampleCount =>
      LET grants == Cardinality(GrantedFor({start[i]}))
      IN /\ count[i] <= grants + Cardinality(astray)
         /\ count[i] >= grants - Cardinality(astray)

=============================================================================
