------------------------------ MODULE LeapArray ------------------------------
(***************************************************************************)
(* The sliding window statistic of core/stat/base: a BucketLeapArray and   *)
(* the SlidingWindowMetric that reads it, for one metric event and any     *)
(* number of callers.                                                      *)
(*                                                                         *)
(* The operations are AddCountWithTime, which first makes the bucket of    *)
(* its time current, and GetSumWithTime, which does not.  The steps of an  *)
(* operation are the atomic accesses to a bucket's start, its counter and  *)
(* the update lock; an operation works for the time "at" that its caller   *)
(* read off the clock before the first step.  A module that EXTENDS this   *)
(* one says which operations are called, and when the clock moves.         *)
(*                                                                         *)
(* Abstractions.                                                           *)
(*  - Time is counted in buckets: calculateStartTime is the identity.      *)
(*  - GetSumWithTime looks at all bucket starts in one step and reads all  *)
(*    counters in a later one.                                             *)
(***************************************************************************)
EXTENDS Integers, FiniteSetsExt

CONSTANTS
  Callers,        \* goroutines that use the statistic
  Nobody,         \* the update lock is free
  SampleCount,    \* buckets of the array
  Window,         \* buckets the SlidingWindowMetric looks at
  StartTime,      \* when the array is created
  MaxTime         \* bound on the clock

ASSUME CallersAssumption == Nobody \notin Callers /\ IsFiniteSet(Callers)
ASSUME SizesAssumption ==
  /\ SampleCount \in Nat \ {0}
  /\ Window \in 1..SampleCount
  /\ StartTime \in Nat /\ StartTime > SampleCount
  /\ MaxTime \in Nat /\ MaxTime >= StartTime

VARIABLES
  start,      \* BucketWrap.BucketStart of every bucket
  count,      \* the counter of every bucket
  lock,       \* updateLock: its holder
  step,       \* what each caller does next
  at,         \* the time its operation works for
  delta,      \* the count it adds, if it adds
  valid,      \* the buckets it found valid
  result      \* the sum it computed

array  == <<start, count, lock>>
locals == <<step, at, delta, valid, result>>

Slots == 0..(SampleCount - 1)
Times == StartTime..MaxTime
Steps == { "idle", "currentBucket", "tryLockBehind", "tryLockAhead",
           "storeStart", "reset", "add", "values", "sum" }

\* calculateTimeIdx
Idx(time) == time % SampleCount

GoTo(c, s) == step' = [step EXCEPT ![c] = s]

\* The buckets are set up for the period that begins with the first one.
FirstStart(i) ==
  CHOOSE time \in StartTime..(StartTime + SampleCount - 1) : Idx(time) = i

ArrayInit ==
  /\ start = [i \in Slots |-> FirstStart(i)]
  /\ count = [i \in Slots |-> 0]
  /\ lock = Nobody
  /\ step = [c \in Callers |-> "idle"]
  /\ at = [c \in Callers |-> StartTime]
  /\ delta = [c \in Callers |-> 0]
  /\ valid = [c \in Callers |-> {}]
  /\ result = [c \in Callers |-> 0]

-----------------------------------------------------------------------------
(* Operations                                                               *)

AddCountWithTime(c, time, d) ==
  /\ step[c] = "idle"
  /\ at' = [at EXCEPT ![c] = time]
  /\ delta' = [delta EXCEPT ![c] = d]
  /\ GoTo(c, "currentBucket")
  /\ UNCHANGED <<array, valid, result>>

GetSumWithTime(c, time) ==
  /\ step[c] = "idle"
  /\ at' = [at EXCEPT ![c] = time]
  /\ GoTo(c, "values")
  /\ UNCHANGED <<array, delta, valid, result>>

\* One round of currentBucketOfTime: the bucket is of the period wanted, or of
\* an earlier or a later one.
CurrentBucket(c) ==
  /\ step[c] = "currentBucket"
  /\ LET s == start[Idx(at[c])]
     IN GoTo(c, IF s = at[c] THEN "add"
                ELSE IF s < at[c] THEN "tryLockBehind" ELSE "tryLockAhead")
  /\ UNCHANGED <<array, at, delta, valid, result>>

\* A bucket of another period, past or future, is reset by whoever gets the
\* lock.  Without the lock a caller tries again if the bucket is behind; if it
\* is ahead, the caller makes do with it when there is no other, and otherwise
\* the addition is dropped.
TryLock(c) ==
  /\ step[c] \in {"tryLockBehind", "tryLockAhead"}
  /\ \/ /\ lock = Nobody
        /\ lock' = c
        /\ GoTo(c, "storeStart")
     \/ /\ lock # Nobody
        /\ GoTo(c, IF step[c] = "tryLockBehind" THEN "currentBucket"
                   ELSE IF SampleCount = 1 THEN "add" ELSE "idle")
        /\ UNCHANGED lock
  /\ UNCHANGED <<start, count, at, delta, valid, result>>

\* ResetBucketTo, without another look at the bucket: first the start ...
StoreStart(c) ==
  /\ step[c] = "storeStart"
  /\ start' = [start EXCEPT ![Idx(at[c])] = at[c]]
  /\ GoTo(c, "reset")
  /\ UNCHANGED <<count, lock, at, delta, valid, result>>

\* ... then the counters, and the lock is released.
ResetBucket(c) ==
  /\ step[c] = "reset"
  /\ count' = [count EXCEPT ![Idx(at[c])] = 0]
  /\ lock' = Nobody
  /\ GoTo(c, "add")
  /\ UNCHANGED <<start, at, delta, valid, result>>

\* The bucket found is added to, whatever period it belongs to by now.
Add(c) ==
  /\ step[c] = "add"
  /\ count' = [count EXCEPT ![Idx(at[c])] = @ + delta[c]]
  /\ GoTo(c, "idle")
  /\ UNCHANGED <<start, lock, at, delta, valid, result>>

\* The bucket starts of the metric's window.  All of them pass the test of
\* isBucketDeprecated, which asks for no more than the length of the array.
BucketStartRange(c) == (at[c] - Window + 1)..at[c]

ValuesConditional(c) == {i \in Slots : start[i] \in BucketStartRange(c)}

Values(c) ==
  /\ step[c] = "values"
  /\ valid' = [valid EXCEPT ![c] = ValuesConditional(c)]
  /\ GoTo(c, "sum")
  /\ UNCHANGED <<array, at, delta, result>>

SumValues(c) ==
  /\ step[c] = "sum"
  /\ result' = [result EXCEPT ![c] = MapThenSumSet(LAMBDA i : count[i], valid[c])]
  /\ valid' = [valid EXCEPT ![c] = {}]
  /\ GoTo(c, "idle")
  /\ UNCHANGED <<array, at, delta>>

\* What a caller does in the middle of an operation.
Operate(c) ==
  \/ CurrentBucket(c)
  \/ TryLock(c)
  \/ StoreStart(c)
  \/ ResetBucket(c)
  \/ Add(c)
  \/ Values(c)
  \/ SumValues(c)

-----------------------------------------------------------------------------

\* The values each variable ranges over.
ArrayTypeOK ==
  /\ start \in [Slots -> Nat]
  /\ count \in [Slots -> Int]
  /\ lock \in Callers \cup {Nobody}
  /\ step \in [Callers -> Steps]
  /\ at \in [Callers -> Times]
  /\ delta \in [Callers -> Int]
  /\ valid \in [Callers -> SUBSET Slots]
  /\ result \in [Callers -> Int]

=============================================================================
