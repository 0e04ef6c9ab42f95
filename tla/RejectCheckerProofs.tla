------------------------- MODULE RejectCheckerProofs -------------------------
(* Proofs about RejectChecker on the statistic of LeapArray, for any number  *)
(* of callers, any array, window, threshold and bound of the clock.          *)
(*                                                                           *)
(* The first part is about sums.  MapThenSumSet is a recursive function over *)
(* the subsets of a set; what it computes follows by induction over finite   *)
(* sets, taken in the form "of the subsets that are counterexamples, one is  *)
(* minimal" (lemma SetMin), which needs no operator as a parameter.          *)
EXTENDS RejectChecker, FiniteSetTheorems, WellFoundedInduction, TLAPS

-----------------------------------------------------------------------------
(* Sums over finite sets                                                     *)

\* Of the counterexamples among the subsets of a finite set one is minimal.
LEMMA SetMin ==
  ASSUME NEW S, IsFiniteSet(S), NEW T \in SUBSET (SUBSET S), T # {}
  PROVE  \E U \in T : \A V \in SUBSET U : V # U => V \notin T
<1>1. IsWellFoundedOn(StrictSubsetOrdering(S), SUBSET S)
  BY FS_StrictSubsetOrderingWellFounded, FS_FiniteSubsetsOfFinite
<1>2. PICK U \in T : \A V \in T : ~ (<<V, U>> \in StrictSubsetOrdering(S))
  BY <1>1, WFMin
<1>3. \A V \in SUBSET U : V # U => V \notin T
  BY <1>2 DEF StrictSubsetOrdering
<1>4. QED BY <1>3

\* The sum of a function over a set, as SumValues computes it.
Total(c, S) == MapThenSumSet(LAMBDA x : c[x], S)

\* The element MapThenFoldSet takes out of a set first.
First(s) == CHOOSE x \in s : TRUE

\* f is the recursive function of MapThenFoldSet for that sum.
Sums(c, S, f) ==
  f = [s \in SUBSET S |-> IF s = {} THEN 0 ELSE c[First(s)] + f[s \ {First(s)}]]

\* MapThenSumSet is such a function at the whole set, if there is one.
LEMMA TotalChoice ==
  ASSUME NEW c, NEW S
  PROVE  Total(c, S) = (CHOOSE f : Sums(c, S, f))[S]
BY DEF Total, MapThenSumSet, MapThenFoldSet, Sums, First

\* A set that has an element has a first one.
LEMMA FirstIn == ASSUME NEW s, s # {} PROVE First(s) \in s
BY DEF First

\* The equations it fulfils.
AddsUp(c, S, f) ==
  /\ f[{}] = 0
  /\ \A s \in SUBSET S : s # {} => f[s] = c[First(s)] + f[s \ {First(s)}]

\* The recursive function fulfils its equations.
LEMMA SumsAt == ASSUME NEW c, NEW S, NEW f, Sums(c, S, f) PROVE AddsUp(c, S, f)
<1>1. f = [s \in SUBSET S |-> IF s = {} THEN 0 ELSE c[First(s)] + f[s \ {First(s)}]]
  BY DEF Sums
<1>2. \A s \in SUBSET S : f[s] = IF s = {} THEN 0 ELSE c[First(s)] + f[s \ {First(s)}]
  BY <1>1
<1>3. QED BY <1>2 DEF AddsUp

\* It adds integers up to integers.
LEMMA SumsInt ==
  ASSUME NEW S, IsFiniteSet(S), NEW c, \A x \in S : c[x] \in Int,
         NEW f, Sums(c, S, f)
  PROVE  \A s \in SUBSET S : f[s] \in Int
<1>1. AddsUp(c, S, f)
  BY SumsAt
<1> DEFINE T == {s \in SUBSET S : f[s] \notin Int}
<1>2. SUFFICES ASSUME T # {} PROVE FALSE
  OBVIOUS
<1>3. PICK s \in T : \A v \in SUBSET s : v # s => v \notin T
  <2>1. T \in SUBSET (SUBSET S)
    OBVIOUS
  <2> HIDE DEF T
  <2>2. QED BY <2>1, <1>2, SetMin
<1>4. s # {}
  BY <1>1 DEF AddsUp
<1>5. First(s) \in s
  BY <1>4, FirstIn
<1>6. f[s \ {First(s)}] \in Int
  BY <1>3, <1>5
<1>7. f[s] = c[First(s)] + f[s \ {First(s)}]
  BY <1>4, <1>1 DEF AddsUp
<1>8. c[First(s)] \in Int
  BY <1>5
<1>9. QED BY <1>6, <1>7, <1>8

\* Two such functions agree wherever both are defined.
LEMMA SumsUnique ==
  ASSUME NEW S, IsFiniteSet(S), NEW c, NEW d, \A x \in S : c[x] = d[x],
         NEW U \in SUBSET S, NEW V \in SUBSET S,
         NEW f, Sums(c, U, f), NEW g, Sums(d, V, g)
  PROVE  \A s \in SUBSET (U \cap V) : f[s] = g[s]
<1>1. AddsUp(c, U, f)
  BY SumsAt
<1>2. AddsUp(d, V, g)
  BY SumsAt
<1> DEFINE T == {s \in SUBSET (U \cap V) : f[s] # g[s]}
<1>3. SUFFICES ASSUME T # {} PROVE FALSE
  OBVIOUS
<1>4. PICK s \in T : \A v \in SUBSET s : v # s => v \notin T
  <2>1. T \in SUBSET (SUBSET S)
    OBVIOUS
  <2> HIDE DEF T
  <2>2. QED BY <2>1, <1>3, SetMin
<1>5. s # {}
  BY <1>1, <1>2 DEF AddsUp
<1>6. First(s) \in s
  BY <1>5, FirstIn
<1>7. f[s \ {First(s)}] = g[s \ {First(s)}]
  BY <1>4, <1>6
<1>8. f[s] = c[First(s)] + f[s \ {First(s)}]
  BY <1>5, <1>1 DEF AddsUp
<1>9. g[s] = d[First(s)] + g[s \ {First(s)}]
  BY <1>5, <1>2 DEF AddsUp
<1>10. c[First(s)] = d[First(s)]
  BY <1>6
<1>11. QED BY <1>7, <1>8, <1>9, <1>10

\* There is such a function, for every finite set.
LEMMA SumsExist ==
  ASSUME NEW S, IsFiniteSet(S), NEW c
  PROVE  \E f : Sums(c, S, f)
<1> DEFINE T == {s \in SUBSET S : ~ \E f : Sums(c, s, f)}
<1>1. SUFFICES ASSUME T # {} PROVE FALSE
  OBVIOUS
<1>2. PICK U \in T : \A v \in SUBSET U : v # U => v \notin T
  <2>1. T \in SUBSET (SUBSET S)
    OBVIOUS
  <2> HIDE DEF T
  <2>2. QED BY <2>1, <1>1, SetMin
<1> DEFINE G(v) == CHOOSE f : Sums(c, v, f)
<1>3. \A v \in SUBSET U : v # U => Sums(c, v, G(v))
  <2> SUFFICES ASSUME NEW v \in SUBSET U, v # U
               PROVE  Sums(c, v, G(v))
    OBVIOUS
  <2>1. \E f : Sums(c, v, f)
    BY <1>2
  <2>2. QED BY <2>1
<1> DEFINE Below(s) == G(s \ {First(s)})[s \ {First(s)}]
           h == [s \in SUBSET U |-> IF s = {} THEN 0 ELSE c[First(s)] + Below(s)]
<1> HIDE DEF G
<1>4. ASSUME NEW s \in SUBSET U, s # {} PROVE h[s \ {First(s)}] = Below(s)
  <2> DEFINE v == s \ {First(s)}
  <2>1. First(s) \in s
    BY <1>4, FirstIn
  <2>2. v \in SUBSET U /\ v # U
    BY <2>1
  <2>3. Sums(c, v, G(v))
    BY <2>2, <1>3
  <2>4. G(v)[v] = IF v = {} THEN 0 ELSE c[First(v)] + G(v)[v \ {First(v)}]
    <3> HIDE DEF v
    <3>1. AddsUp(c, v, G(v))
      BY <2>3, SumsAt
    <3>2. QED BY <3>1 DEF AddsUp
  <2>5. CASE v = {}
    BY <2>2, <2>4, <2>5
  <2>6. CASE v # {}
    <3> DEFINE w == v \ {First(v)}
    <3>1. w \in SUBSET v /\ w # U /\ w \in SUBSET U
      BY <2>2, FirstIn
    <3>2. Sums(c, w, G(w))
      BY <3>1, <1>3
    <3>3. G(v)[w] = G(w)[w]
      <4>1. IsFiniteSet(U)
        BY FS_Subset
      <4>2. v \in SUBSET U /\ w \in SUBSET U /\ w \in SUBSET (v \cap w)
        BY <2>2, <3>1
      <4> HIDE DEF v, w
      <4> DEFINE gv == G(v)  gw == G(w)
      <4>5. Sums(c, v, gv) /\ Sums(c, w, gw) /\ \A x \in U : c[x] = c[x]
        BY <2>3, <3>2
      <4> HIDE DEF gv, gw
      <4>3. \A x \in SUBSET (v \cap w) : gv[x] = gw[x]
        BY <4>1, <4>2, <4>5, SumsUnique
      <4>4. QED BY <4>2, <4>3 DEF gv, gw
    <3>4. h[v] = c[First(v)] + Below(v)
      BY <2>2, <2>6
    <3>5. QED BY <2>4, <2>6, <3>3, <3>4
  <2>7. QED BY <2>5, <2>6
<1>5. h = [s \in SUBSET U |-> IF s = {} THEN 0 ELSE c[First(s)] + h[s \ {First(s)}]]
  <2> HIDE DEF Below
  <2>1. \A s \in SUBSET U : s # {} => h[s \ {First(s)}] = Below(s)
    BY <1>4
  <2> DEFINE k == [s \in SUBSET U |-> IF s = {} THEN 0 ELSE c[First(s)] + h[s \ {First(s)}]]
  <2>2. \A s \in SUBSET U : h[s] = k[s]
    <3> SUFFICES ASSUME NEW s \in SUBSET U PROVE h[s] = k[s]
      OBVIOUS
    <3>1. CASE s = {}
      BY <3>1
    <3>2. CASE s # {}
      <4>1. h[s] = c[First(s)] + Below(s)
        BY <3>2
      <4>2. k[s] = c[First(s)] + h[s \ {First(s)}]
        BY <3>2
      <4>3. QED BY <4>1, <4>2, <3>2, <2>1
    <3>3. QED BY <3>1, <3>2
  <2>3. h = k
    <3>1. DOMAIN h = SUBSET U /\ DOMAIN k = SUBSET U /\ h = [s \in DOMAIN h |-> h[s]]
          /\ k = [s \in DOMAIN k |-> k[s]]
      OBVIOUS
    <3> HIDE DEF h, k
    <3>2. QED BY <3>1, <2>2
  <2>4. QED BY <2>3
<1>6. Sums(c, U, h)
  BY <1>5 DEF Sums
<1>7. QED BY <1>2, <1>6

\* The sum over a subset is what the recursive function of the whole set says.
LEMMA TotalIs ==
  ASSUME NEW S, IsFiniteSet(S), NEW c, NEW U \in SUBSET S,
         NEW f, Sums(c, S, f)
  PROVE  Total(c, U) = f[U]
<1> DEFINE g == CHOOSE h : Sums(c, U, h)
<1>1. IsFiniteSet(U)
  BY FS_Subset
<1>2. \E h : Sums(c, U, h)
  BY <1>1, SumsExist
<1>3. Sums(c, U, g)
  BY <1>2
<1>4. Total(c, U) = g[U]
  BY TotalChoice
<1> HIDE DEF g
<1>5. \A s \in SUBSET (U \cap S) : g[s] = f[s]
  <2>1. \A x \in S : c[x] = c[x]
    OBVIOUS
  <2>2. U \in SUBSET S /\ S \in SUBSET S
    OBVIOUS
  <2>3. QED BY <2>1, <2>2, <1>3, SumsUnique
<1>6. g[U] = f[U]
  BY <1>5
<1>7. QED BY <1>4, <1>6

\* A sum of integers is an integer.
LEMMA TotalInt ==
  ASSUME NEW S, IsFiniteSet(S), NEW c, \A x \in S : c[x] \in Int
  PROVE  Total(c, S) \in Int
<1>1. PICK f : Sums(c, S, f)
  BY SumsExist
<1>2. Total(c, S) = f[S]
  <2>1. S \in SUBSET S
    OBVIOUS
  <2>2. QED BY <1>1, <2>1, TotalIs
<1>3. \A s \in SUBSET S : f[s] \in Int
  BY <1>1, SumsInt
<1>4. QED BY <1>2, <1>3

\* Nothing adds up to 0.
LEMMA TotalEmpty ==
  ASSUME NEW c
  PROVE  Total(c, {}) = 0
<1>1. IsFiniteSet({})
  BY FS_EmptySet
<1>2. PICK f : Sums(c, {}, f)
  BY <1>1, SumsExist
<1>3. Total(c, {}) = f[{}]
  <2>1. {} \in SUBSET {}
    OBVIOUS
  <2>2. QED BY <1>1, <1>2, <2>1, TotalIs
<1>4. AddsUp(c, {}, f)
  BY <1>2, SumsAt
<1>5. QED BY <1>3, <1>4 DEF AddsUp

\* The first element counts once ...
LEMMA TotalFirst ==
  ASSUME NEW S, IsFiniteSet(S), S # {}, NEW c
  PROVE  Total(c, S) = c[First(S)] + Total(c, S \ {First(S)})
<1>1. PICK f : Sums(c, S, f)
  BY SumsExist
<1>2. Total(c, S) = f[S]
  <2>1. S \in SUBSET S
    OBVIOUS
  <2>2. QED BY <1>1, <2>1, TotalIs
<1>3. Total(c, S \ {First(S)}) = f[S \ {First(S)}]
  <2> DEFINE U == S \ {First(S)}
  <2>1. U \in SUBSET S
    OBVIOUS
  <2> HIDE DEF U
  <2>2. Total(c, U) = f[U]
    BY <1>1, <2>1, TotalIs
  <2>3. QED BY <2>2 DEF U
<1>4. AddsUp(c, S, f)
  BY <1>1, SumsAt
<1>5. QED BY <1>2, <1>3, <1>4 DEF AddsUp

\* Any element may be taken out first.
LEMMA TotalRemove ==
  ASSUME NEW S, IsFiniteSet(S), NEW c, \A x \in S : c[x] \in Int,
         NEW z \in S
  PROVE  Total(c, S) = c[z] + Total(c, S \ {z})
<1> DEFINE Splits(U) == \A x \in U : Total(c, U) = c[x] + Total(c, U \ {x})
           T == {U \in SUBSET S : ~ Splits(U)}
<1>1. SUFFICES ASSUME T # {} PROVE FALSE
  OBVIOUS
<1>2. PICK U \in T : \A V \in SUBSET U : V # U => V \notin T
  <2>1. T \in SUBSET (SUBSET S)
    OBVIOUS
  <2> HIDE DEF T
  <2>2. QED BY <2>1, <1>1, SetMin
<1>3. \A V \in SUBSET U : IsFiniteSet(V) /\ Total(c, V) \in Int /\ (V # U => Splits(V))
  <2> SUFFICES ASSUME NEW V \in SUBSET U
               PROVE  IsFiniteSet(V) /\ Total(c, V) \in Int /\ (V # U => Splits(V))
    OBVIOUS
  <2> HIDE DEF Splits
  <2>1. V \in SUBSET S
    OBVIOUS
  <2>2. IsFiniteSet(V)
    BY <2>1, FS_Subset
  <2>3. Total(c, V) \in Int
    BY <2>1, <2>2, TotalInt
  <2>4. V # U => Splits(V)
    BY <1>2, <2>1
  <2>5. QED BY <2>2, <2>3, <2>4
<1>4. PICK x \in U : Total(c, U) # c[x] + Total(c, U \ {x})
  OBVIOUS
<1> DEFINE y == First(U)
<1>5. y \in U
  BY FirstIn
<1>6. Total(c, U) = c[y] + Total(c, U \ {y})
  <2>1. IsFiniteSet(U)
    BY <1>3
  <2>2. QED BY <2>1, TotalFirst
<1> HIDE DEF y
<1>7. x # y
  BY <1>4, <1>6
<1>8. Total(c, U \ {y}) = c[x] + Total(c, (U \ {y}) \ {x})
  BY <1>3, <1>5, <1>7
<1>9. Total(c, U \ {x}) = c[y] + Total(c, (U \ {x}) \ {y})
  BY <1>3, <1>5, <1>7
<1>10. (U \ {x}) \ {y} = (U \ {y}) \ {x}
  OBVIOUS
<1>11. c[x] \in Int /\ c[y] \in Int /\ Total(c, (U \ {y}) \ {x}) \in Int
  <2>1. (U \ {y}) \ {x} \in SUBSET U
    OBVIOUS
  <2>2. QED BY <1>3, <1>5, <2>1
<1> HIDE DEF T, Splits
<1>12. QED
  <2> DEFINE a == c[x]  b == c[y]  r == Total(c, (U \ {y}) \ {x})
             t == Total(c, U)  tx == Total(c, U \ {x})  ty == Total(c, U \ {y})
  <2>1. a \in Int /\ b \in Int /\ r \in Int /\ t = b + ty /\ ty = a + r /\ tx = b + r /\ t # a + tx
    BY <1>4, <1>6, <1>8, <1>9, <1>10, <1>11
  <2> HIDE DEF a, b, r, t, tx, ty
  <2>2. QED BY <2>1

\* The elements of H that a maps into V.
Mapped(H, a, V) == {r \in H : a[r] \in V}

\* A counter is at every place what is mapped there less what is taken there.
Counts(P, M, a, W, d) ==
  \A w \in W : d[w] = Cardinality(Mapped(P, a, {w})) - Cardinality(Mapped(M, a, {w}))

\* The counters of several places then add up to the difference over all of them.
LEMMA TotalDifference ==
  ASSUME NEW P, IsFiniteSet(P), NEW M, IsFiniteSet(M), NEW a, NEW W, IsFiniteSet(W), NEW d,
         Counts(P, M, a, W, d)
  PROVE  Total(d, W) = Cardinality(Mapped(P, a, W)) - Cardinality(Mapped(M, a, W))
<1> DEFINE Differs(V) ==
             Total(d, V) # Cardinality(Mapped(P, a, V)) - Cardinality(Mapped(M, a, V))
           T == {V \in SUBSET W : Differs(V)}
<1>1. SUFFICES ASSUME T # {} PROVE FALSE
  <2>1. W \notin T /\ W \in SUBSET W
    OBVIOUS
  <2>2. QED BY <2>1
<1>2. PICK V \in T : \A U \in SUBSET V : U # V => U \notin T
  <2>1. T \in SUBSET (SUBSET W)
    OBVIOUS
  <2> HIDE DEF T
  <2>2. QED BY <2>1, <1>1, SetMin
<1>3. V # {}
  <2> SUFFICES ASSUME V = {} PROVE FALSE
    OBVIOUS
  <2>1. Mapped(P, a, V) = {} /\ Mapped(M, a, V) = {}
    BY DEF Mapped
  <2>2. Cardinality({}) = 0
    BY FS_EmptySet
  <2>3. Total(d, V) = 0
    BY TotalEmpty
  <2>4. Cardinality(Mapped(P, a, V)) = 0 /\ Cardinality(Mapped(M, a, V)) = 0
    BY <2>1, <2>2
  <2>5. QED BY <1>2, <2>3, <2>4
<1> DEFINE w == First(V)
<1>4. w \in V
  BY <1>3, FirstIn
<1>5. Total(d, V) = d[w] + Total(d, V \ {w})
  <2>1. IsFiniteSet(V)
    BY FS_Subset
  <2>2. QED BY <2>1, <1>3, TotalFirst
<1> HIDE DEF w
<1>6. ~ Differs(V \ {w})
  BY <1>2, <1>4
<1>7. d[w] = Cardinality(Mapped(P, a, {w})) - Cardinality(Mapped(M, a, {w}))
  BY <1>4 DEF Counts
<1>8. ASSUME NEW H, IsFiniteSet(H)
      PROVE  /\ Cardinality(Mapped(H, a, V)) \in Nat
             /\ Cardinality(Mapped(H, a, {w})) \in Nat
             /\ Cardinality(Mapped(H, a, V \ {w})) \in Nat
             /\ Cardinality(Mapped(H, a, V))
                  = Cardinality(Mapped(H, a, {w})) + Cardinality(Mapped(H, a, V \ {w}))
  <2> DEFINE A == Mapped(H, a, {w})  B == Mapped(H, a, V \ {w})  C == Mapped(H, a, V)
  <2>1. IsFiniteSet(A) /\ IsFiniteSet(B) /\ IsFiniteSet(C)
    BY <1>8, FS_Subset DEF Mapped
  <2>2. C = A \cup B /\ A \cap B = {}
    BY <1>4 DEF Mapped
  <2> HIDE DEF A, B, C
  <2>3. Cardinality(A \cup B) = Cardinality(A) + Cardinality(B) - Cardinality(A \cap B)
    BY <2>1, FS_Union
  <2>4. Cardinality(A) \in Nat /\ Cardinality(B) \in Nat /\ Cardinality(C) \in Nat
    BY <2>1, FS_CardinalityType
  <2>5. Cardinality(A \cap B) = 0
    BY <2>2, FS_EmptySet
  <2>6. Cardinality(C) = Cardinality(A) + Cardinality(B)
    BY <2>2, <2>3, <2>4, <2>5
  <2>7. QED BY <2>4, <2>6 DEF A, B, C
<1>10. Total(d, V) = Cardinality(Mapped(P, a, V)) - Cardinality(Mapped(M, a, V))
  <2> DEFINE pv == Cardinality(Mapped(P, a, V))  pw == Cardinality(Mapped(P, a, {w}))
             pr == Cardinality(Mapped(P, a, V \ {w}))  mv == Cardinality(Mapped(M, a, V))
             mw == Cardinality(Mapped(M, a, {w}))  mr == Cardinality(Mapped(M, a, V \ {w}))
  <2>1. pv \in Nat /\ pw \in Nat /\ pr \in Nat /\ pv = pw + pr
    BY <1>8
  <2>2. mv \in Nat /\ mw \in Nat /\ mr \in Nat /\ mv = mw + mr
    BY <1>8
  <2>3. Total(d, V) = (pw - mw) + (pr - mr)
    BY <1>5, <1>6, <1>7
  <2> HIDE DEF pv, pw, pr, mv, mw, mr
  <2>4. Total(d, V) = pv - mv
    BY <2>1, <2>2, <2>3
  <2>5. QED BY <2>4 DEF pv, mv
<1>11. QED BY <1>2, <1>10

-----------------------------------------------------------------------------
(* The buckets                                                               *)

\* calculateTimeIdx names a bucket of the array.
LEMMA IdxSlot == ASSUME NEW t \in Int PROVE Idx(t) \in Slots
BY SizesAssumption DEF Idx, Slots

\* Each bucket is set up for the one time among the first ones that is its own.
LEMMA FirstStartFits ==
  ASSUME NEW i \in Slots
  PROVE  /\ FirstStart(i) \in StartTime..(StartTime + SampleCount - 1)
         /\ Idx(FirstStart(i)) = i
<1> DEFINE n == SampleCount  d == (i - StartTime) % n  q == (i - StartTime) \div n
<1>1. n \in Nat /\ n > 0 /\ i \in 0..(n - 1) /\ StartTime \in Nat
  BY SizesAssumption DEF Slots
<1> HIDE DEF n
<1>2. d \in 0..(n - 1) /\ q \in Int
  BY <1>1
<1>3. i - StartTime = n * q + d
  BY <1>1
<1> HIDE DEF d, q
<1>4. StartTime + d = n * (-q) + i
  BY <1>3, <1>1, <1>2
<1>5. (n * (-q) + i) % n = i
  BY <1>1, <1>2, SMTT(30)
<1>6. \E t \in StartTime..(StartTime + SampleCount - 1) : Idx(t) = i
  BY <1>1, <1>2, <1>4, <1>5 DEF Idx, n
<1>7. QED BY <1>6 DEF FirstStart

-----------------------------------------------------------------------------
(* Types                                                                     *)

\* TypeOK holds at the beginning ...
LEMMA TypeInit == Init => TypeOK
<1> SUFFICES ASSUME Init PROVE TypeOK
  OBVIOUS
<1>1. \A i \in Slots : FirstStart(i) \in Nat
  BY FirstStartFits, SizesAssumption
<1>2. StartTime \in Times
  BY SizesAssumption DEF Times
<1> HIDE DEF FirstStart
<1>3. ArrayTypeOK
  BY <1>1, <1>2 DEF Init, ArrayInit, ArrayTypeOK, Steps
<1>4. QED BY <1>2, <1>3 DEF Init, TypeOK, Phases

\* A sum of counters is an integer.
LEMMA SumInt ==
  ASSUME TypeOK, NEW c \in Callers
  PROVE  MapThenSumSet(LAMBDA i : count[i], valid[c]) \in Int
<1>1. valid[c] \in SUBSET Slots
  BY DEF TypeOK, ArrayTypeOK
<1>2. IsFiniteSet(Slots)
  BY FS_Interval, SizesAssumption DEF Slots
<1>3. IsFiniteSet(valid[c])
  BY <1>1, <1>2, FS_Subset
<1>4. \A x \in valid[c] : count[x] \in Int
  BY <1>1 DEF TypeOK, ArrayTypeOK
<1>5. Total(count, valid[c]) \in Int
  BY <1>3, <1>4, TotalInt
<1>6. QED BY <1>5 DEF Total

\* ... the history stays a history of requests ...
LEMMA TypeRecord ==
  ASSUME TypeOK, NEW r \in Callers, Record(r)
  PROVE  plus' \subseteq Callers /\ minus' \subseteq Callers /\ astray' \subseteq Callers
BY DEF TypeOK, Record, Holds, PutOut, Strays, Together

\* ... and every step keeps it.
LEMMA TypeNext == TypeOK /\ [Next]_vars => TypeOK'
<1> SUFFICES ASSUME TypeOK, [Next]_vars PROVE TypeOK'
  OBVIOUS
<1>1. \A t \in Times : Idx(t) \in Slots /\ t \in Int /\ t \in Nat
  BY IdxSlot, SizesAssumption DEF Times
<1>8. ASSUME NEW r \in Callers, Operate(r), Record(r), UNCHANGED <<now, phase>> PROVE TypeOK'
  <2>9. plus' \subseteq Callers /\ minus' \subseteq Callers /\ astray' \subseteq Callers
    BY <1>8, TypeRecord
  <2> USE DEF TypeOK, ArrayTypeOK
  <2>1. CASE CurrentBucket(r)
    BY <1>8, <2>1, <2>9 DEF CurrentBucket, GoTo, Steps, array
  <2>2. CASE TryLock(r)
    BY <1>8, <2>2, <2>9 DEF TryLock, GoTo, Steps, array
  <2>3. CASE StoreStart(r)
    BY <1>8, <2>3, <1>1, <2>9 DEF StoreStart, GoTo, Steps, array
  <2>4. CASE ResetBucket(r)
    BY <1>8, <2>4, <1>1, <2>9 DEF ResetBucket, GoTo, Steps, array
  <2>5. CASE Add(r)
    BY <1>8, <2>5, <1>1, <2>9 DEF Add, GoTo, Steps, array
  <2>6. CASE Values(r)
    BY <1>8, <2>6, <2>9 DEF Values, ValuesConditional, GoTo, Steps, array
  <2>7. CASE SumValues(r)
    <3>1. PICK v \in Int : v = MapThenSumSet(LAMBDA i : count[i], valid[r])
      BY SumInt
    <3>2. result' = [result EXCEPT ![r] = v]
      BY <2>7, <3>1 DEF SumValues
    <3>3. QED BY <1>8, <2>7, <2>9, <3>2 DEF SumValues, GoTo, Steps, array
  <2>8. QED BY <1>8, <2>1, <2>2, <2>3, <2>4, <2>5, <2>6, <2>7 DEF Operate
<1> USE DEF TypeOK, ArrayTypeOK, history
<1>2. CASE Tick
  BY <1>2, SizesAssumption DEF Tick, Times, statistic, array, locals
<1>3. ASSUME NEW r \in Callers, DoCheck(r) PROVE TypeOK'
  BY <1>3
      DEF DoCheck, GetSumWithTime, Advance, GoTo, Phases, Steps, statistic, array, locals
<1>4. ASSUME NEW r \in Callers, FirstSum(r) PROVE TypeOK'
  BY <1>4
      DEF FirstSum, AddCountWithTime, Advance, GoTo, Phases, Steps, statistic, array,
          locals
<1>5. ASSUME NEW r \in Callers, AddedInAdvance(r) PROVE TypeOK'
  BY <1>5
      DEF AddedInAdvance, GetSumWithTime, Advance, GoTo, Phases, Steps, statistic, array,
          locals
<1>6. ASSUME NEW r \in Callers, SecondSum(r) PROVE TypeOK'
  BY <1>6
      DEF SecondSum, AddCountWithTime, Advance, GoTo, Phases, Steps, statistic, array,
          locals
<1>7. ASSUME NEW r \in Callers, TakenBack(r) PROVE TypeOK'
  BY <1>7 DEF TakenBack, Advance, Phases, Steps, statistic, array, locals
<1>9. CASE UNCHANGED vars
  BY <1>9 DEF vars, statistic, array, locals
<1>10. QED BY <1>2, <1>3, <1>4, <1>5, <1>6, <1>7, <1>8, <1>9 DEF Next, Finished

\* LeapArray and RejectChecker keep the values of their types: BucketLeapArray, the sums
\* of SlidingWindowMetric (integers, whatever they add up) and the phases of DoCheck.
THEOREM TypeCorrect == Spec => []TypeOK
BY TypeInit, TypeNext, PTL DEF Spec

-----------------------------------------------------------------------------
(* The inductive invariant                                                   *)

\* The steps an operation of each phase can be at.
AddSteps == {"currentBucket", "tryLockBehind", "tryLockAhead", "storeStart", "reset", "add"}
StepsOf(p) ==
  CASE p \in {"firstSum", "secondSum"} -> {"values", "sum", "idle"}
    [] p \in {"addInAdvance", "takeBack"} -> AddSteps \cup {"idle"}
    [] p \in {"new", "granted", "refused"} -> {"idle"}

\* Each phase is at a step of its own operation, with its own delta, and nobody
\* works for a time that is still to come.
StepFits ==
  \A r \in Callers :
    /\ step[r] \in StepsOf(phase[r])
    /\ phase[r] = "addInAdvance" => delta[r] = 1
    /\ phase[r] = "takeBack" => delta[r] = -1
    /\ at[r] <= now

\* Who has added, and who has taken back.
HasAdded(r) ==
  \/ phase[r] = "addInAdvance" /\ step[r] = "idle"
  \/ phase[r] \in {"secondSum", "takeBack", "granted"}
HasTaken(r) == phase[r] = "refused" \/ (phase[r] = "takeBack" /\ step[r] = "idle")

\* A counter holds an addition of who has added, and the subtraction of who has
\* taken back.
HistoryFits ==
  /\ \A r \in plus : HasAdded(r) \/ phase[r] = "refused"
  /\ \A r \in minus : HasTaken(r)

\* Who did not go astray is counted as long as the period is not out of date, is
\* no longer counted twice after taking back, and takes back only what is there.
NothingLost ==
  /\ \A r \in Callers \ astray : HasAdded(r) /\ at[r] > now - SampleCount => r \in plus
  /\ \A r \in plus \ astray : HasTaken(r) => r \in minus
  /\ minus \ plus \subseteq astray

\* A bucket starts at a time that is its own.
StartFits == \A i \in Slots : start[i] \in Nat /\ Idx(start[i]) = i

\* The bucket of a request that did not go astray is of its time, or is being
\* reset for one that puts it out of date.
PlaceFits ==
  \A r \in plus \ astray :
    \/ start[Idx(at[r])] = at[r]
    \/ \E c \in Callers :
         step[c] = "reset" /\ Idx(at[c]) = Idx(at[r]) /\ at[r] <= at[c] - SampleCount

\* A counter is what was added to it less what was taken back.
Place == [r \in Callers |-> Idx(at[r])]
Here(H, i) == Mapped(H, Place, {i})
CountFits == \A i \in Slots : count[i] = Cardinality(Here(plus, i)) - Cardinality(Here(minus, i))

\* The requests that are granted or will be: their second sum is within the threshold.
Cleared == {r \in Callers :
  \/ phase[r] = "granted"
  \/ phase[r] = "secondSum" /\ step[r] = "idle" /\ result[r] <= Threshold}

\* Those whose second sum was not.
Excluded == {r \in Callers : phase[r] \in {"takeBack", "refused"}}

\* A second sum for this moment looks at the bucket of every request of its window
\* that is cleared, and at its own.
ValidFor(r) ==
  r \notin astray /\ phase[r] = "secondSum" /\ step[r] = "sum" /\ at[r] = now =>
    \A q \in (Cleared \ astray) \cup {r} :
      at[q] \in BucketStartRange(r) => Idx(at[q]) \in valid[r]
ValidFits == \A r \in Callers : ValidFor(r)

\* The quota: what makes a sum too low is taken back twice, by requests that went
\* astray and were refused.
ClearedFor(t) == {r \in Cleared \ astray : at[r] \in (t - Window + 1)..t}
ClearedFits ==
  \A t \in Times :
    Cardinality(ClearedFor(t)) <= Threshold + Cardinality(astray \cap Excluded)

\* The inductive invariant.
Inv ==
  /\ TypeOK
  /\ StepFits /\ HistoryFits /\ NothingLost /\ StartFits /\ PlaceFits
  /\ CountFits /\ ValidFits /\ ClearedFits

\* Before the first check there is nothing to count.
LEMMA InvInit == Init => Inv
<1> SUFFICES ASSUME Init PROVE Inv
  OBVIOUS
<1>1. TypeOK
  BY TypeInit
<1>2. /\ \A r \in Callers : phase[r] = "new" /\ step[r] = "idle" /\ at[r] = StartTime
      /\ plus = {} /\ minus = {} /\ astray = {} /\ now = StartTime
      /\ \A i \in Slots : count[i] = 0
  BY DEF Init, ArrayInit
<1>3. StepFits
  BY <1>2, SizesAssumption DEF StepFits, StepsOf
<1>4. HistoryFits /\ NothingLost /\ PlaceFits
  BY <1>2 DEF HistoryFits, NothingLost, PlaceFits, HasAdded
<1>9. StartFits
  <2>1. \A i \in Slots : start[i] = FirstStart(i)
    BY DEF Init, ArrayInit
  <2>2. \A i \in Slots : FirstStart(i) \in Nat /\ Idx(FirstStart(i)) = i
    BY FirstStartFits, SizesAssumption
  <2>3. QED BY <2>1, <2>2 DEF StartFits
<1>5. CountFits
  <2>1. \A i \in Slots : Here(plus, i) = {} /\ Here(minus, i) = {}
    BY <1>2 DEF Here, Mapped
  <2>2. Cardinality({}) = 0
    BY FS_EmptySet
  <2>3. QED BY <1>2, <2>1, <2>2 DEF CountFits
<1>6. ValidFits
  BY <1>2 DEF ValidFits, ValidFor
<1>7. ClearedFits
  <2>1. \A t \in Times : ClearedFor(t) = {}
    BY <1>2 DEF ClearedFor, Cleared
  <2>2. astray \cap Excluded = {} /\ Cardinality({}) = 0
    BY <1>2, FS_EmptySet
  <2> DEFINE a == Cardinality(astray \cap Excluded)
  <2>3. \A t \in Times : Cardinality(ClearedFor(t)) = 0
    BY <2>1, <2>2
  <2>4. a = 0
    BY <2>2
  <2> HIDE DEF a
  <2>5. \A t \in Times : Cardinality(ClearedFor(t)) <= Threshold + a
    BY <2>3, <2>4, RejectAssumption
  <2>6. QED BY <2>5 DEF ClearedFits, a
<1>8. QED BY <1>1, <1>3, <1>4, <1>5, <1>6, <1>7, <1>9 DEF Inv

-----------------------------------------------------------------------------
(* What one request does leaves the others alone                            *)

\* A step of r at one moment.
Calm(r) ==
  /\ now' = now /\ astray \subseteq astray'
  /\ at'[r] = at[r] \/ phase[r] = "new"
  /\ \A s \in Callers \ {r} :
       /\ at'[s] = at[s] /\ step'[s] = step[s] /\ phase'[s] = phase[s]
       /\ delta'[s] = delta[s] /\ valid'[s] = valid[s] /\ result'[s] = result[s]

\* r stays in step with its phase.
InStep(r) ==
  /\ step[r] \in StepsOf(phase[r])
  /\ phase[r] = "addInAdvance" => delta[r] = 1
  /\ phase[r] = "takeBack" => delta[r] = -1
  /\ at[r] <= now

\* A step that adds and takes back nothing changes nothing about what r has
\* added or taken back, unless r goes astray or has nothing to take back.
NothingMoved(r) ==
  /\ UNCHANGED <<plus, minus>>
  /\ HasAdded(r)' => HasAdded(r) \/ r \in astray'
  /\ HasTaken(r)' => HasTaken(r) \/ r \in astray' \/ r \notin plus
  /\ HasAdded(r) \/ phase[r] = "refused" => HasAdded(r)' \/ phase'[r] = "refused"
  /\ HasTaken(r) => HasTaken(r)'

LEMMA StepFitsKept ==
  ASSUME Inv, NEW r \in Callers, Calm(r), InStep(r)'
  PROVE  StepFits'
BY DEF Inv, StepFits, Calm, InStep

LEMMA HistoryKept ==
  ASSUME Inv, NEW r \in Callers, Calm(r), NothingMoved(r)
  PROVE  HistoryFits' /\ NothingLost'
<1>1. plus \subseteq Callers /\ minus \subseteq Callers /\ plus' = plus /\ minus' = minus
      /\ now' = now /\ astray \subseteq astray'
  BY DEF Inv, TypeOK, NothingMoved, Calm
<1>2. \A s \in Callers \ {r} :
        /\ HasAdded(s)' <=> HasAdded(s)
        /\ HasTaken(s)' <=> HasTaken(s)
        /\ phase'[s] = phase[s] /\ at'[s] = at[s]
  BY DEF Calm, HasAdded, HasTaken
<1>3. HasAdded(r) => at'[r] = at[r]
  BY DEF Calm, HasAdded
<1>4. HistoryFits'
  BY <1>1, <1>2 DEF Inv, HistoryFits, NothingMoved
<1>5. \A q \in Callers \ astray' : HasAdded(q)' /\ at'[q] > now' - SampleCount => q \in plus'
  <2> SUFFICES ASSUME NEW q \in Callers \ astray', HasAdded(q)', at'[q] > now' - SampleCount
               PROVE  q \in plus'
    OBVIOUS
  <2>1. HasAdded(q) /\ at'[q] = at[q] /\ q \notin astray
    BY <1>1, <1>2, <1>3 DEF NothingMoved
  <2>2. QED BY <1>1, <2>1 DEF Inv, NothingLost
<1>6. \A q \in plus' \ astray' : HasTaken(q)' => q \in minus'
  <2> SUFFICES ASSUME NEW q \in plus' \ astray', HasTaken(q)' PROVE q \in minus'
    OBVIOUS
  <2>1. HasTaken(q) /\ q \notin astray /\ q \in plus
    BY <1>1, <1>2 DEF NothingMoved
  <2>2. QED BY <1>1, <2>1 DEF Inv, NothingLost
<1>7. minus' \ plus' \subseteq astray'
  BY <1>1 DEF Inv, NothingLost
<1>8. QED BY <1>4, <1>5, <1>6, <1>7 DEF NothingLost

\* The members of the history stay at their buckets.
LEMMA PlacesKept ==
  ASSUME Inv, NEW r \in Callers, Calm(r)
  PROVE  \A q \in plus \cup minus : q \in Callers /\ at'[q] = at[q] /\ Place'[q] = Place[q]
<1>1. \A q \in plus \cup minus : q \in Callers /\ at'[q] = at[q]
  BY DEF Inv, TypeOK, HistoryFits, HasAdded, HasTaken, Calm
<1>2. \A q \in Callers : Place[q] = Idx(at[q]) /\ Place'[q] = Idx(at'[q])
  BY DEF Place, Idx
<1>3. QED BY <1>1, <1>2

LEMMA CountsKept ==
  ASSUME Inv, NEW r \in Callers, Calm(r), UNCHANGED <<plus, minus, count>>
  PROVE  CountFits'
<1>1. \A i \in Slots : Here(plus, i)' = Here(plus, i) /\ Here(minus, i)' = Here(minus, i)
  BY PlacesKept DEF Here, Mapped
<1>2. QED BY <1>1 DEF Inv, CountFits

LEMMA PlaceFitsKept ==
  ASSUME Inv, NEW r \in Callers, Calm(r), UNCHANGED <<plus, start>>, step[r] # "reset"
  PROVE  PlaceFits'
<1> SUFFICES ASSUME NEW q \in plus' \ astray'
             PROVE  \/ start'[Idx(at'[q])] = at'[q]
                    \/ \E c \in Callers : /\ step'[c] = "reset" /\ Idx(at'[c]) = Idx(at'[q])
                                          /\ at'[q] <= at'[c] - SampleCount
  BY DEF PlaceFits, Idx
<1>1. q \in plus \ astray /\ at'[q] = at[q]
  BY PlacesKept DEF Calm
<1>2. CASE start[Idx(at[q])] = at[q]
  BY <1>1, <1>2
<1>3. ASSUME NEW c \in Callers, step[c] = "reset", Idx(at[c]) = Idx(at[q]),
             at[q] <= at[c] - SampleCount
      PROVE  step'[c] = "reset" /\ at'[c] = at[c]
  BY <1>3 DEF Calm
<1>4. QED BY <1>1, <1>2, <1>3 DEF Inv, PlaceFits

\* Sets of requests have a size, and a part is not larger than the whole.
LEMMA RequestsFinite ==
  ASSUME NEW S, NEW T, S \subseteq T, T \subseteq Callers
  PROVE  /\ IsFiniteSet(S) /\ IsFiniteSet(T)
         /\ Cardinality(S) \in Nat /\ Cardinality(T) \in Nat
         /\ Cardinality(S) <= Cardinality(T)
<1>1. IsFiniteSet(T)
  BY CallersAssumption, FS_Subset
<1>2. IsFiniteSet(S) /\ Cardinality(S) <= Cardinality(T)
  BY <1>1, FS_Subset
<1>3. QED BY <1>1, <1>2, FS_CardinalityType

\* Nobody is cleared by the step, and nobody is excluded no longer.
NobodyCleared(r) ==
  /\ r \in Cleared' => r \in Cleared \cup astray'
  /\ r \in Excluded => r \in Excluded'

LEMMA ClearedShrinks ==
  ASSUME Inv, NEW r \in Callers, Calm(r), NobodyCleared(r)
  PROVE  /\ \A q \in Cleared' \ astray' : q \in Cleared \ astray /\ at'[q] = at[q]
         /\ Excluded \subseteq Excluded'
<1>1. ASSUME NEW q \in Cleared' \ astray' PROVE q \in Cleared \ astray /\ at'[q] = at[q]
  BY <1>1 DEF Cleared, Calm, NobodyCleared
<1>2. Excluded \subseteq Excluded'
  BY DEF Excluded, Calm, NobodyCleared
<1>3. QED BY <1>1, <1>2

LEMMA ClearedFitsKept ==
  ASSUME Inv, NEW r \in Callers, Calm(r), NobodyCleared(r), TypeOK'
  PROVE  ClearedFits'
<1> SUFFICES ASSUME NEW t \in Times
             PROVE  Cardinality(ClearedFor(t)') <= Threshold + Cardinality((astray \cap Excluded)')
  BY DEF ClearedFits
<1>1. ClearedFor(t)' \subseteq ClearedFor(t)
  BY ClearedShrinks DEF ClearedFor
<1>2. (astray \cap Excluded) \subseteq (astray \cap Excluded)'
  BY ClearedShrinks DEF Calm
<1>3. ClearedFor(t) \subseteq Callers /\ (astray \cap Excluded)' \subseteq Callers
  BY DEF ClearedFor, Cleared, TypeOK
<1>4. Cardinality(ClearedFor(t)) <= Threshold + Cardinality(astray \cap Excluded)
  BY DEF Inv, ClearedFits
<1> DEFINE a == Cardinality(ClearedFor(t)')  b == Cardinality(ClearedFor(t))
           c == Cardinality(astray \cap Excluded)  d == Cardinality((astray \cap Excluded)')
<1>5. a \in Nat /\ b \in Nat /\ a <= b
  BY <1>1, <1>3, RequestsFinite
<1>6. c \in Nat /\ d \in Nat /\ c <= d
  BY <1>2, <1>3, RequestsFinite
<1>7. b <= Threshold + c
  BY <1>4
<1> HIDE DEF a, b, c, d
<1>8. a <= Threshold + d
  BY <1>5, <1>6, <1>7, RejectAssumption
<1>9. QED BY <1>8 DEF a, d

\* What the others look at, they look at still: at each cleared request that was
\* cleared before, and at their own.
LEMMA OthersLook ==
  ASSUME Inv, NEW r \in Callers, Calm(r), NEW s \in Callers \ {r}, s \notin astray',
         phase'[s] = "secondSum", step'[s] = "sum", at'[s] = now'
  PROVE  \A q \in (Cleared \ astray) \cup {s} :
           at[q] \in (at'[s] - Window + 1)..at'[s] => Idx(at[q]) \in valid'[s]
<1>1. s \notin astray /\ phase[s] = "secondSum" /\ step[s] = "sum" /\ at[s] = now
      /\ at'[s] = at[s] /\ valid'[s] = valid[s]
  BY DEF Calm
<1>2. QED BY <1>1 DEF Inv, ValidFits, ValidFor, BucketStartRange

LEMMA ValidFitsKept ==
  ASSUME Inv, NEW r \in Callers, Calm(r), NobodyCleared(r), ValidFor(r)'
  PROVE  ValidFits'
<1> SUFFICES ASSUME NEW s \in Callers \ {r}, s \notin astray', phase'[s] = "secondSum",
                    step'[s] = "sum", at'[s] = now', NEW q \in (Cleared' \ astray') \cup {s},
                    at'[q] \in (at'[s] - Window + 1)..at'[s]
             PROVE  Idx(at'[q]) \in valid'[s]
  BY DEF ValidFits, ValidFor, BucketStartRange, Idx
<1>1. q \in (Cleared \ astray) \cup {s} /\ at'[q] = at[q]
  BY ClearedShrinks DEF Calm
<1>2. QED BY <1>1, OthersLook

\* A step that touches no bucket, clears nobody and moves nothing.
LEMMA QuietStep ==
  ASSUME Inv, TypeOK', NEW r \in Callers, Calm(r), InStep(r)', NothingMoved(r),
         NobodyCleared(r), ValidFor(r)', UNCHANGED <<start, count>>, step[r] # "reset"
  PROVE  Inv'
<1>1. plus' = plus /\ minus' = minus
  BY DEF NothingMoved
<1>2. StepFits' /\ HistoryFits' /\ NothingLost'
  BY StepFitsKept, HistoryKept
<1>3. StartFits'
  BY DEF Inv, StartFits, Idx
<1>4. PlaceFits' /\ CountFits'
  BY <1>1, PlaceFitsKept, CountsKept
<1>5. ClearedFits' /\ ValidFits'
  BY ClearedFitsKept, ValidFitsKept
<1>6. QED BY <1>2, <1>3, <1>4, <1>5 DEF Inv

-----------------------------------------------------------------------------
(* Every step keeps it                                                       *)

\* The steps of DoCheck itself: it starts a sum or an addition, or decides.
LEMMA InvDecide ==
  ASSUME Inv, TypeOK', Statistic = "own", NEW r \in Callers,
         DoCheck(r) \/ FirstSum(r) \/ AddedInAdvance(r) \/ SecondSum(r) \/ TakenBack(r)
  PROVE  Inv'
<1>1. TypeOK /\ step[r] \in StepsOf(phase[r])
  BY DEF Inv, StepFits
<1>2. r \in plus => HasAdded(r) \/ phase[r] = "refused"
  BY DEF Inv, HistoryFits
<1> USE DEF TypeOK, ArrayTypeOK
<1>3. /\ Calm(r) /\ UNCHANGED <<start, count, plus, minus, astray>>
      /\ step[r] = "idle" /\ step'[r] # "sum"
  BY <1>1 DEF DoCheck, FirstSum, AddedInAdvance, SecondSum, TakenBack, GetSumWithTime,
              AddCountWithTime, Advance, GoTo, Calm, statistic, array, locals, history, StepsOf
<1>4. InStep(r)'
  BY <1>1, SizesAssumption
     DEF Inv, StepFits, InStep, DoCheck, FirstSum, AddedInAdvance, SecondSum, TakenBack,
         GetSumWithTime, AddCountWithTime, Advance, GoTo, statistic, array, locals, StepsOf,
         AddSteps, Times
<1>5. NothingMoved(r)
  BY <1>1, <1>2, <1>3
     DEF NothingMoved, HasAdded, HasTaken, DoCheck, FirstSum, AddedInAdvance, SecondSum,
         TakenBack, GetSumWithTime, AddCountWithTime, Advance, GoTo, statistic, locals, Phases
<1>6. NobodyCleared(r)
  BY <1>1
     DEF NobodyCleared, Cleared, Excluded, DoCheck, FirstSum, AddedInAdvance, SecondSum,
         TakenBack, GetSumWithTime, AddCountWithTime, Advance, GoTo, statistic, locals
<1>7. ValidFor(r)'
  BY <1>3 DEF ValidFor
<1>8. QED BY <1>3, <1>4, <1>5, <1>6, <1>7, QuietStep

\* currentBucketOfTime, up to the lock.
LEMMA InvFind ==
  ASSUME Inv, TypeOK', NEW r \in Callers, CurrentBucket(r) \/ TryLock(r), Record(r),
         UNCHANGED <<now, phase>>
  PROVE  Inv'
<1>1. TypeOK /\ InStep(r)
  BY DEF Inv, StepFits, InStep
<1> USE DEF TypeOK, ArrayTypeOK
<1>2. step[r] \in {"currentBucket", "tryLockBehind", "tryLockAhead"}
  BY DEF CurrentBucket, TryLock
<1>3. phase[r] \in {"addInAdvance", "takeBack"}
  BY <1>1, <1>2 DEF InStep, StepsOf, Phases
<1>4. UNCHANGED <<plus, minus>> /\ astray \subseteq astray'
  BY <1>2 DEF Record, Holds
<1>10. step'[r] = "idle" => Strays(r)
  BY <1>1, <1>2, SizesAssumption DEF CurrentBucket, TryLock, GoTo, Strays
<1>11. Strays(r) => r \in astray'
  BY DEF Record
<1>5. /\ Calm(r) /\ UNCHANGED <<start, count, at, delta>>
      /\ step'[r] \in AddSteps \cup {"idle"} /\ (step'[r] = "idle" => r \in astray')
  BY <1>1, <1>4, <1>10, <1>11 DEF CurrentBucket, TryLock, GoTo, Calm, array, AddSteps
<1>6. InStep(r)'
  BY <1>1, <1>3, <1>5 DEF InStep, StepsOf
<1>7. NothingMoved(r)
  BY <1>3, <1>2, <1>4, <1>5 DEF NothingMoved, HasAdded, HasTaken
<1>8. NobodyCleared(r) /\ ValidFor(r)'
  BY <1>3 DEF NobodyCleared, Cleared, Excluded, ValidFor
<1>9. QED BY <1>2, <1>5, <1>6, <1>7, <1>8, QuietStep

\* A sum begins: it looks at every bucket that counts, for nobody's bucket of the
\* window is being reset.
LEMMA InvLook ==
  ASSUME Inv, TypeOK', NEW r \in Callers, Values(r), Record(r), UNCHANGED <<now, phase>>
  PROVE  Inv'
<1>1. TypeOK /\ InStep(r)
  BY DEF Inv, StepFits, InStep
<1>2. step[r] = "values" /\ phase[r] \in {"firstSum", "secondSum"}
  BY <1>1 DEF Values, InStep, StepsOf, AddSteps, TypeOK, Phases
<1>3. UNCHANGED <<plus, minus>> /\ astray' = astray
  BY <1>2 DEF Record, Holds, PutOut, Strays
<1>4. /\ Calm(r) /\ UNCHANGED <<start, count, at, delta, result>> /\ step'[r] = "sum"
      /\ valid'[r] = ValuesConditional(r)
  BY <1>1, <1>3 DEF Values, GoTo, Calm, array, TypeOK, ArrayTypeOK
<1>5. InStep(r)'
  BY <1>1, <1>2, <1>4 DEF InStep, StepsOf
<1>6. NothingMoved(r) /\ NobodyCleared(r)
  BY <1>2, <1>3, <1>4 DEF NothingMoved, HasAdded, HasTaken, NobodyCleared, Cleared, Excluded
<1>7. ValidFor(r)'
  <2> SUFFICES ASSUME r \notin astray, phase[r] = "secondSum", at[r] = now,
                      NEW q \in (Cleared \ astray) \cup {r}, at[q] \in BucketStartRange(r)
               PROVE  Idx(at[q]) \in ValuesConditional(r)
    <3>1. (Cleared \ astray)' \subseteq (Cleared \ astray) \cup {r}
      BY <1>3, <1>4, <1>6, ClearedShrinks DEF Inv
    <3>2. QED BY <1>3, <1>4, <3>1 DEF ValidFor, BucketStartRange, Idx
  <2>1. q \in Callers /\ q \notin astray /\ HasAdded(q)
    BY DEF Cleared, HasAdded
  <2>2. at[q] \in Nat /\ now \in Nat /\ at[q] > now - SampleCount
    BY <1>1, <2>1, SizesAssumption DEF TypeOK, ArrayTypeOK, Times, BucketStartRange
  <2>3. q \in plus
    BY <2>1, <2>2 DEF Inv, NothingLost
  <2>4. \A c \in Callers : at[c] \in Nat /\ at[c] <= now
    BY <1>1, SizesAssumption DEF TypeOK, ArrayTypeOK, Times, Inv, StepFits
  <2>5. \A c \in Callers : ~ (at[q] <= at[c] - SampleCount)
    BY <2>2, <2>4, SizesAssumption
  <2>6. start[Idx(at[q])] = at[q]
    BY <2>1, <2>3, <2>5 DEF Inv, PlaceFits
  <2>7. Idx(at[q]) \in Slots
    BY <2>2, IdxSlot
  <2>8. QED BY <2>6, <2>7 DEF ValuesConditional
<1>8. QED BY <1>2, <1>4, <1>5, <1>6, <1>7, QuietStep

\* Who works on a bucket clears nobody and looks at nothing.
LEMMA InvWork ==
  ASSUME Inv, TypeOK', NEW r \in Callers, StoreStart(r) \/ ResetBucket(r) \/ Add(r),
         Record(r), UNCHANGED <<now, phase>>
  PROVE  /\ Calm(r) /\ UNCHANGED <<at, delta>> /\ phase[r] \in {"addInAdvance", "takeBack"}
         /\ StepFits' /\ ClearedFits' /\ ValidFits'
<1>1. TypeOK /\ InStep(r)
  BY DEF Inv, StepFits, InStep
<1> USE DEF TypeOK, ArrayTypeOK
<1>2. step[r] \in {"storeStart", "reset", "add"} /\ step'[r] \in {"reset", "add", "idle"}
  BY DEF StoreStart, ResetBucket, Add, GoTo
<1>3. phase[r] \in {"addInAdvance", "takeBack"}
  BY <1>1, <1>2 DEF InStep, StepsOf, Phases
<1>4. Calm(r) /\ UNCHANGED <<at, delta>>
  BY <1>1 DEF StoreStart, ResetBucket, Add, GoTo, Calm, Record
<1>5. InStep(r)'
  BY <1>1, <1>2, <1>3, <1>4 DEF InStep, StepsOf, AddSteps
<1>6. NobodyCleared(r) /\ ValidFor(r)'
  BY <1>3 DEF NobodyCleared, Cleared, Excluded, ValidFor
<1>7. StepFits' /\ ClearedFits' /\ ValidFits'
  BY <1>4, <1>5, <1>6, StepFitsKept, ClearedFitsKept, ValidFitsKept
<1>8. QED BY <1>3, <1>4, <1>7

\* The bucket gets its new start: who is put out of it and not out of date goes astray.
LEMMA InvStart ==
  ASSUME Inv, TypeOK', NEW r \in Callers, StoreStart(r), Record(r), UNCHANGED <<now, phase>>
  PROVE  Inv'
<1>1. /\ Calm(r) /\ UNCHANGED <<at, delta>> /\ phase[r] \in {"addInAdvance", "takeBack"}
      /\ StepFits' /\ ClearedFits' /\ ValidFits'
  BY InvWork
<1>2. TypeOK
  BY DEF Inv
<1>3. step[r] = "storeStart" /\ step'[r] = "reset" /\ UNCHANGED count
      /\ start' = [start EXCEPT ![Idx(at[r])] = at[r]]
  BY <1>2 DEF StoreStart, GoTo, TypeOK, ArrayTypeOK
<1>4. UNCHANGED <<plus, minus>> /\ PutOut(r) \subseteq astray'
  BY <1>3 DEF Record, Holds
<1>5. NothingMoved(r)
  BY <1>1, <1>3, <1>4 DEF NothingMoved, HasAdded, HasTaken
<1>6. HistoryFits' /\ NothingLost' /\ CountFits'
  BY <1>1, <1>3, <1>4, <1>5, HistoryKept, CountsKept
<1>7. at[r] \in Nat /\ at[r] \in Int /\ Idx(at[r]) \in Slots
  BY <1>2, IdxSlot, SizesAssumption DEF TypeOK, ArrayTypeOK, Times
<1>8. StartFits'
  <2> SUFFICES ASSUME NEW i \in Slots PROVE start'[i] \in Nat /\ Idx(start'[i]) = i
    BY DEF StartFits, Idx
  <2>1. CASE i = Idx(at[r])
    BY <1>2, <1>3, <1>7, <2>1 DEF TypeOK, ArrayTypeOK
  <2>2. CASE i # Idx(at[r])
    BY <1>2, <1>3, <1>7, <2>2 DEF TypeOK, ArrayTypeOK, Inv, StartFits
  <2>3. QED BY <2>1, <2>2
<1>9. PlaceFits'
  <2> SUFFICES ASSUME NEW q \in plus' \ astray'
               PROVE  \/ start'[Idx(at'[q])] = at'[q]
                      \/ \E c \in Callers : /\ step'[c] = "reset" /\ Idx(at'[c]) = Idx(at'[q])
                                            /\ at'[q] <= at'[c] - SampleCount
    BY DEF PlaceFits, Idx
  <2>1. q \in plus \ astray /\ q \in Callers /\ at' = at /\ at[q] \in Int /\ Idx(at[q]) \in Slots
    BY <1>1, <1>2, <1>4, IdxSlot, SizesAssumption DEF Calm, TypeOK, ArrayTypeOK, Times
  <2>2. CASE Idx(at[q]) = Idx(at[r])
    <3>1. ~ (at[q] > at[r] - SampleCount)
      BY <1>3, <1>4, <2>1, <2>2 DEF PutOut, Together
    <3>2. at[q] <= at[r] - SampleCount
      BY <3>1, <2>1, <1>7, SizesAssumption
    <3>3. QED BY <3>2, <2>1, <2>2, <1>3
  <2>3. CASE Idx(at[q]) # Idx(at[r])
    <3>1. start'[Idx(at[q])] = start[Idx(at[q])]
      BY <1>2, <1>3, <2>1, <2>3 DEF TypeOK, ArrayTypeOK
    <3>2. \A c \in Callers : step[c] = "reset" => step'[c] = "reset"
      BY <1>1, <1>3 DEF Calm
    <3>3. QED BY <2>1, <3>1, <3>2 DEF Inv, PlaceFits
  <2>4. QED BY <2>2, <2>3
<1>10. QED BY <1>1, <1>6, <1>8, <1>9 DEF Inv

\* The bucket is emptied: nobody's addition or subtraction is left in it.
LEMMA InvReset ==
  ASSUME Inv, TypeOK', NEW r \in Callers, ResetBucket(r), Record(r), UNCHANGED <<now, phase>>
  PROVE  Inv'
<1>1. /\ Calm(r) /\ UNCHANGED <<at, delta>> /\ phase[r] \in {"addInAdvance", "takeBack"}
      /\ StepFits' /\ ClearedFits' /\ ValidFits'
  BY InvWork
<1>2. TypeOK
  BY DEF Inv
<1>3. step[r] = "reset" /\ step'[r] = "add" /\ UNCHANGED start
      /\ count' = [count EXCEPT ![Idx(at[r])] = 0]
  BY <1>2 DEF ResetBucket, GoTo, TypeOK, ArrayTypeOK
<1>4. plus' = plus \ Together(r) /\ minus' = minus \ Together(r) /\ PutOut(r) \subseteq astray'
      /\ now' = now /\ astray \subseteq astray'
  BY <1>1, <1>3 DEF Record, Holds
<1>5. \A q \in Callers : (HasAdded(q)' <=> HasAdded(q)) /\ (HasTaken(q)' <=> HasTaken(q))
                        /\ phase'[q] = phase[q]
  BY <1>1, <1>3 DEF HasAdded, HasTaken, Calm
<1>6. HistoryFits'
  BY <1>2, <1>4, <1>5 DEF Inv, HistoryFits, TypeOK
<1>7. StartFits'
  BY <1>3 DEF Inv, StartFits, Idx
<1>8. \A q \in Callers : at[q] \in Int /\ now \in Int /\ Idx(at[q]) \in Slots /\ at[q] <= now
  BY <1>2, IdxSlot, SizesAssumption DEF TypeOK, ArrayTypeOK, Times, Inv, StepFits
<1>9. NothingLost'
  <2>1. ASSUME NEW q \in Callers \ astray', HasAdded(q)', at'[q] > now' - SampleCount
        PROVE  q \in plus'
    <3>1. q \notin astray /\ HasAdded(q) /\ at[q] > now - SampleCount
      BY <2>1, <1>1, <1>4, <1>5
    <3>2. q \in plus
      BY <3>1 DEF Inv, NothingLost
    <3>3. at[q] > at[r] - SampleCount
      BY <3>1, <1>8, SizesAssumption
    <3>4. q \notin PutOut(r)
      BY <2>1, <1>4
    <3>5. QED BY <3>2, <3>3, <3>4, <1>3, <1>4 DEF PutOut
  <2>2. ASSUME NEW q \in plus' \ astray', HasTaken(q)' PROVE q \in minus'
    BY <2>2, <1>2, <1>4, <1>5 DEF Inv, NothingLost, TypeOK
  <2>3. minus' \ plus' \subseteq astray'
    BY <1>4 DEF Inv, NothingLost
  <2>4. QED BY <2>1, <2>2, <2>3 DEF NothingLost
<1>10. PlaceFits'
  <2> SUFFICES ASSUME NEW q \in plus' \ astray'
               PROVE  \/ start'[Idx(at'[q])] = at'[q]
                      \/ \E c \in Callers : /\ step'[c] = "reset" /\ Idx(at'[c]) = Idx(at'[q])
                                            /\ at'[q] <= at'[c] - SampleCount
    BY DEF PlaceFits, Idx
  <2>1. q \in plus \ astray /\ Idx(at[q]) # Idx(at[r])
    BY <1>2, <1>4 DEF Together, TypeOK
  <2>2. \A c \in Callers : c # r /\ step[c] = "reset" => step'[c] = "reset"
    BY <1>1 DEF Calm
  <2>3. QED BY <1>1, <1>3, <2>1, <2>2 DEF Inv, PlaceFits
<1>11. CountFits'
  <2> SUFFICES ASSUME NEW i \in Slots
               PROVE  count'[i] = Cardinality(Here(plus, i)') - Cardinality(Here(minus, i)')
    BY DEF CountFits
  <2>1. /\ Here(plus, i)' = {q \in plus' : Idx(at[q]) = i}
        /\ Here(minus, i)' = {q \in minus' : Idx(at[q]) = i}
        /\ Here(plus, i) = {q \in plus : Idx(at[q]) = i}
        /\ Here(minus, i) = {q \in minus : Idx(at[q]) = i}
    BY <1>1, <1>2, <1>4 DEF Here, Mapped, Place, Idx, TypeOK
  <2>2. CASE i = Idx(at[r])
    <3>1. Here(plus, i)' = {} /\ Here(minus, i)' = {}
      BY <2>1, <2>2, <1>2, <1>4 DEF Together, TypeOK
    <3>2. count'[i] = 0
      BY <1>2, <1>3, <2>2 DEF TypeOK, ArrayTypeOK
    <3>3. Cardinality({}) = 0
      BY FS_EmptySet
    <3>4. QED BY <3>1, <3>2, <3>3
  <2>3. CASE i # Idx(at[r])
    <3>1. Here(plus, i)' = Here(plus, i) /\ Here(minus, i)' = Here(minus, i)
      BY <2>1, <2>3, <1>4 DEF Together
    <3>2. count'[i] = count[i]
      BY <1>2, <1>3, <2>3 DEF TypeOK, ArrayTypeOK
    <3>3. QED BY <3>1, <3>2 DEF Inv, CountFits
  <2>4. QED BY <2>2, <2>3
<1>12. QED BY <1>1, <1>6, <1>7, <1>9, <1>10, <1>11 DEF Inv

\* A set of requests with one more.
LEMMA OneMore ==
  ASSUME NEW S \in SUBSET Callers, NEW r \in Callers \ S
  PROVE  Cardinality(S \cup {r}) = Cardinality(S) + 1 /\ Cardinality(S) \in Nat
<1>1. IsFiniteSet(S)
  BY CallersAssumption, FS_Subset
<1>2. QED BY <1>1, FS_AddElement, FS_CardinalityType

\* The counter gets the addition or the subtraction of r.
LEMMA InvAdd ==
  ASSUME Inv, TypeOK', NEW r \in Callers, Add(r), Record(r), UNCHANGED <<now, phase>>
  PROVE  Inv'
<1>1. /\ Calm(r) /\ UNCHANGED <<at, delta>> /\ phase[r] \in {"addInAdvance", "takeBack"}
      /\ StepFits' /\ ClearedFits' /\ ValidFits'
  BY InvWork
<1>2. TypeOK
  BY DEF Inv
<1>3. step[r] = "add" /\ step'[r] = "idle" /\ UNCHANGED start
      /\ count' = [count EXCEPT ![Idx(at[r])] = @ + delta[r]]
  BY <1>2 DEF Add, GoTo, TypeOK, ArrayTypeOK
<1>4. /\ phase[r] = "addInAdvance" => delta[r] = 1
      /\ phase[r] = "takeBack" => delta[r] = -1
  BY DEF Inv, StepFits
<1>5. /\ plus' = IF delta[r] = 1 THEN plus \cup {r} ELSE plus
      /\ minus' = IF delta[r] = -1 THEN minus \cup {r} ELSE minus
      /\ astray \subseteq astray' /\ now' = now
      /\ Strays(r) => r \in astray'
  BY <1>1, <1>3 DEF Record, Holds
<1>6. \A q \in Callers \ {r} : (HasAdded(q)' <=> HasAdded(q)) /\ (HasTaken(q)' <=> HasTaken(q))
                              /\ phase'[q] = phase[q]
  BY <1>1 DEF HasAdded, HasTaken, Calm
<1>7. /\ HasAdded(r)' /\ phase'[r] = phase[r]
      /\ HasAdded(r) <=> phase[r] = "takeBack"
      /\ HasTaken(r)' <=> phase[r] = "takeBack"
      /\ ~ HasTaken(r)
  BY <1>1, <1>3 DEF HasAdded, HasTaken
<1>8. /\ phase[r] = "addInAdvance" => r \notin plus
      /\ phase[r] = "takeBack" => r \notin minus
  BY <1>1, <1>7 DEF Inv, HistoryFits
<1>9. HistoryFits'
  BY <1>1, <1>2, <1>4, <1>5, <1>6, <1>7 DEF Inv, HistoryFits, TypeOK
<1>10. NothingLost'
  <2>1. ASSUME NEW q \in Callers \ astray', HasAdded(q)', at'[q] > now' - SampleCount
        PROVE  q \in plus'
    BY <2>1, <1>1, <1>4, <1>5, <1>6, <1>7 DEF Inv, NothingLost
  <2>2. ASSUME NEW q \in plus' \ astray', HasTaken(q)' PROVE q \in minus'
    BY <2>2, <1>1, <1>2, <1>4, <1>5, <1>6, <1>7 DEF Inv, NothingLost, TypeOK
  <2>3. minus' \ plus' \subseteq astray'
    <3>1. delta[r] = -1 /\ r \notin plus => Strays(r)
      BY <1>3 DEF Strays
    <3>2. QED BY <3>1, <1>1, <1>4, <1>5 DEF Inv, NothingLost
  <2>4. QED BY <2>1, <2>2, <2>3 DEF NothingLost
<1>11. StartFits'
  BY <1>3 DEF Inv, StartFits, Idx
<1>12. PlaceFits'
  <2> SUFFICES ASSUME NEW q \in plus' \ astray'
               PROVE  \/ start'[Idx(at'[q])] = at'[q]
                      \/ \E c \in Callers : /\ step'[c] = "reset" /\ Idx(at'[c]) = Idx(at'[q])
                                            /\ at'[q] <= at'[c] - SampleCount
    BY DEF PlaceFits, Idx
  <2>1. CASE q \in plus
    <3>1. \A c \in Callers : step[c] = "reset" => step'[c] = "reset"
      BY <1>1, <1>3 DEF Calm
    <3>2. QED BY <2>1, <3>1, <1>1, <1>3, <1>5 DEF Inv, PlaceFits
  <2>2. CASE q \notin plus
    <3>1. q = r /\ delta[r] = 1
      BY <2>2, <1>5
    <3>2. start[Idx(at[r])] = at[r]
      BY <3>1, <1>3, <1>5 DEF Strays
    <3>3. QED BY <3>1, <3>2, <1>1, <1>3
  <2>3. QED BY <2>1, <2>2
<1>13. CountFits'
  <2> SUFFICES ASSUME NEW i \in Slots
               PROVE  count'[i] = Cardinality(Here(plus, i)') - Cardinality(Here(minus, i)')
    BY DEF CountFits
  <2>1. /\ Here(plus, i)' = {q \in plus' : Idx(at[q]) = i}
        /\ Here(minus, i)' = {q \in minus' : Idx(at[q]) = i}
        /\ Here(plus, i) = {q \in plus : Idx(at[q]) = i}
        /\ Here(minus, i) = {q \in minus : Idx(at[q]) = i}
    <3>1. plus \subseteq Callers /\ minus \subseteq Callers
          /\ plus' \subseteq Callers /\ minus' \subseteq Callers
      BY <1>2 DEF TypeOK
    <3>2. QED BY <3>1, <1>1 DEF Here, Mapped, Place, Idx
  <2> DEFINE a == Cardinality(Here(plus, i))  b == Cardinality(Here(minus, i))
  <2>2. Here(plus, i) \in SUBSET Callers /\ Here(minus, i) \in SUBSET Callers
    BY <1>2, <2>1 DEF TypeOK
  <2>3. a \in Nat /\ b \in Nat /\ count[i] = a - b
    BY <2>2, CallersAssumption, FS_Subset, FS_CardinalityType DEF Inv, CountFits
  <2>4. CASE i # Idx(at[r])
    <3>1. Here(plus, i)' = Here(plus, i) /\ Here(minus, i)' = Here(minus, i)
      BY <2>1, <2>4, <1>5
    <3>2. count'[i] = count[i]
      BY <1>2, <1>3, <2>4 DEF TypeOK, ArrayTypeOK
    <3>3. QED BY <3>1, <3>2, <2>3
  <2>5. CASE i = Idx(at[r]) /\ phase[r] = "addInAdvance"
    <3>1. Here(plus, i)' = Here(plus, i) \cup {r} /\ Here(minus, i)' = Here(minus, i)
          /\ r \notin Here(plus, i)
      BY <2>1, <2>5, <1>4, <1>5, <1>8
    <3>2. Cardinality(Here(plus, i) \cup {r}) = a + 1
      BY <3>1, <2>2, OneMore
    <3>3. count'[i] = count[i] + 1
      BY <1>2, <1>3, <1>4, <2>5 DEF TypeOK, ArrayTypeOK
    <3> HIDE DEF a, b
    <3>4. count'[i] = (a + 1) - b
      BY <3>3, <2>3
    <3>5. QED BY <3>1, <3>2, <3>4 DEF b
  <2>6. CASE i = Idx(at[r]) /\ phase[r] = "takeBack"
    <3>1. Here(minus, i)' = Here(minus, i) \cup {r} /\ Here(plus, i)' = Here(plus, i)
          /\ r \notin Here(minus, i)
      BY <2>1, <2>6, <1>4, <1>5, <1>8
    <3>2. Cardinality(Here(minus, i) \cup {r}) = b + 1
      BY <3>1, <2>2, OneMore
    <3>3. count'[i] = count[i] - 1
      BY <1>2, <1>3, <1>4, <2>6 DEF TypeOK, ArrayTypeOK
    <3> HIDE DEF a, b
    <3>4. count'[i] = a - (b + 1)
      BY <3>3, <2>3
    <3>5. QED BY <3>1, <3>2, <3>4 DEF a
  <2>7. QED BY <2>4, <2>5, <2>6, <1>1
<1>14. QED BY <1>1, <1>9, <1>10, <1>11, <1>12, <1>13 DEF Inv

\* Time passes: sums that are under way no longer count for the moment.
LEMMA InvTick == ASSUME Inv, TypeOK', Tick PROVE Inv'
<1>1. TypeOK /\ now \in Nat /\ \A r \in Callers : at[r] \in Nat /\ at[r] <= now
  BY SizesAssumption DEF Inv, StepFits, TypeOK, ArrayTypeOK, Times
<1>2. now' = now + 1 /\ UNCHANGED <<start, count, lock, step, at, delta, valid, result, phase,
                                    plus, minus, astray>>
  BY DEF Tick, statistic, array, locals, history
<1>3. StepFits'
  BY <1>1, <1>2 DEF Inv, StepFits
<1>4. \A r \in Callers : (HasAdded(r)' <=> HasAdded(r)) /\ (HasTaken(r)' <=> HasTaken(r))
  BY <1>2 DEF HasAdded, HasTaken
<1>5. HistoryFits'
  BY <1>1, <1>2, <1>4 DEF Inv, HistoryFits, TypeOK
<1>6. NothingLost'
  <2>1. ASSUME NEW r \in Callers, at[r] > now' - SampleCount PROVE at[r] > now - SampleCount
    BY <2>1, <1>1, <1>2, SizesAssumption
  <2>2. QED BY <2>1, <1>1, <1>2, <1>4 DEF Inv, NothingLost, TypeOK
<1>7. StartFits' /\ PlaceFits'
  BY <1>2 DEF Inv, StartFits, PlaceFits, Idx
<1>8. CountFits'
  <2>1. \A i \in Slots : Here(plus, i)' = Here(plus, i) /\ Here(minus, i)' = Here(minus, i)
    BY <1>2 DEF Here, Mapped, Place, Idx
  <2>2. QED BY <2>1, <1>2 DEF Inv, CountFits
<1>9. ValidFits'
  <2>1. \A r \in Callers : at'[r] # now'
    BY <1>1, <1>2
  <2>2. QED BY <2>1 DEF ValidFits, ValidFor
<1>10. ClearedFits'
  <2>1. \A t \in Times : ClearedFor(t)' = ClearedFor(t)
    BY <1>2 DEF ClearedFor, Cleared
  <2>2. (astray \cap Excluded)' = astray \cap Excluded
    BY <1>2 DEF Excluded
  <2>3. QED BY <2>1, <2>2 DEF Inv, ClearedFits
<1>11. QED BY <1>3, <1>5, <1>6, <1>7, <1>8, <1>9, <1>10 DEF Inv

\* What is left of a set of requests when another is taken from it.
LEMMA Difference ==
  ASSUME NEW P \in SUBSET Callers, NEW M \in SUBSET Callers
  PROVE  /\ Cardinality(P) - Cardinality(M) = Cardinality(P \ M) - Cardinality(M \ P)
         /\ Cardinality(P) \in Nat /\ Cardinality(M) \in Nat
         /\ Cardinality(P \ M) \in Nat /\ Cardinality(M \ P) \in Nat
<1> DEFINE p == Cardinality(P)  m == Cardinality(M)  b == Cardinality(P \cap M)
           d == Cardinality(P \ M)  e == Cardinality(M \ P)
<1>1. IsFiniteSet(P) /\ IsFiniteSet(M) /\ IsFiniteSet(P \ M) /\ IsFiniteSet(M \ P)
      /\ IsFiniteSet(P \cap M)
  BY CallersAssumption, FS_Subset
<1>2. p \in Nat /\ m \in Nat /\ b \in Nat /\ d \in Nat /\ e \in Nat
  BY <1>1, FS_CardinalityType
<1>3. d = p - b
  BY <1>1, FS_Difference
<1>4. e = m - Cardinality(M \cap P) /\ M \cap P = P \cap M
  BY <1>1, FS_Difference
<1>5. e = m - b
  BY <1>4
<1> HIDE DEF p, m, b, d, e
<1>6. p - m = d - e
  BY <1>2, <1>3, <1>5
<1>7. QED BY <1>2, <1>6 DEF p, m, d, e

\* A second sum for this moment that stays within the threshold has seen every cleared
\* request of its window, its own included.
LEMMA SumSees ==
  ASSUME Inv, NEW r \in Callers \ astray, phase[r] = "secondSum", step[r] = "sum", at[r] = now,
         Total(count, valid[r]) <= Threshold,
         NEW C \in SUBSET ((Cleared \ astray) \cup {r}),
         \A q \in C : at[q] \in BucketStartRange(r)
  PROVE  Cardinality(C) <= Threshold + Cardinality(astray \cap Excluded)
<1>1. TypeOK
  BY DEF Inv
<1> DEFINE P == Mapped(plus, Place, valid[r])  M == Mapped(minus, Place, valid[r])
<1>2. P \in SUBSET Callers /\ M \in SUBSET Callers
  BY <1>1 DEF Mapped, TypeOK
<1>3. Total(count, valid[r]) = Cardinality(P) - Cardinality(M)
  <2>1. valid[r] \subseteq Slots /\ IsFiniteSet(Slots)
    BY <1>1, FS_Interval, SizesAssumption DEF TypeOK, ArrayTypeOK, Slots
  <2>2. IsFiniteSet(valid[r]) /\ IsFiniteSet(plus) /\ IsFiniteSet(minus)
    BY <1>1, <2>1, CallersAssumption, FS_Subset DEF TypeOK
  <2>3. \A i \in valid[r] :
          count[i] = Cardinality(Mapped(plus, Place, {i})) - Cardinality(Mapped(minus, Place, {i}))
    BY <2>1 DEF Inv, CountFits, Here
  <2>4. Counts(plus, minus, Place, valid[r], count)
    BY <2>3 DEF Counts
  <2>5. QED BY <2>2, <2>4, TotalDifference
<1>4. C \subseteq P \ M
  <2> SUFFICES ASSUME NEW q \in C PROVE q \in P /\ q \notin minus
    BY DEF Mapped
  <2>1. q \in Callers /\ q \notin astray /\ HasAdded(q) /\ ~ HasTaken(q)
    BY DEF Cleared, HasAdded, HasTaken
  <2>2. q \notin minus
    BY <2>1 DEF Inv, HistoryFits
  <2>3. at[q] > now - SampleCount
    BY <1>1, <2>1, SizesAssumption DEF TypeOK, ArrayTypeOK, Times, BucketStartRange
  <2>4. q \in plus
    BY <2>1, <2>3 DEF Inv, NothingLost
  <2>5. Idx(at[q]) \in valid[r]
    <3>1. ValidFor(r)
      BY DEF Inv, ValidFits
    <3>2. QED BY <3>1 DEF ValidFor
  <2>6. QED BY <2>1, <2>2, <2>4, <2>5 DEF Mapped, Place
<1>5. M \ P \subseteq astray \cap Excluded
  <2> SUFFICES ASSUME NEW q \in M \ P PROVE q \in astray \cap Excluded
    OBVIOUS
  <2>1. q \in minus /\ q \notin plus /\ q \in Callers
    BY <1>1 DEF Mapped, TypeOK
  <2>2. q \in astray /\ HasTaken(q)
    BY <2>1 DEF Inv, NothingLost, HistoryFits
  <2>3. QED BY <2>1, <2>2 DEF HasTaken, Excluded
<1> DEFINE c == Cardinality(C)  p == Cardinality(P)  m == Cardinality(M)
           d == Cardinality(P \ M)  e == Cardinality(M \ P)
           x == Cardinality(astray \cap Excluded)
<1>6. c \in Nat /\ d \in Nat /\ c <= d
  <2>1. P \ M \subseteq Callers
    BY <1>2
  <2> HIDE DEF P, M
  <2>2. QED BY <2>1, <1>4, RequestsFinite
<1>7. e \in Nat /\ x \in Nat /\ e <= x
  <2>1. astray \cap Excluded \subseteq Callers
    BY <1>1 DEF TypeOK
  <2> HIDE DEF P, M
  <2>2. QED BY <2>1, <1>5, RequestsFinite
<1>8. p - m = d - e /\ p \in Nat /\ m \in Nat
  <2> HIDE DEF P, M
  <2>1. QED BY <1>2, Difference
<1>9. p - m <= Threshold
  BY <1>3
<1> HIDE DEF P, M, c, p, m, d, e, x
<1>10. c <= Threshold + x
  BY <1>6, <1>7, <1>8, <1>9, RejectAssumption
<1>11. QED BY <1>10 DEF c, x

\* A sum ends.
LEMMA InvSum ==
  ASSUME Inv, TypeOK', NEW r \in Callers, SumValues(r), Record(r), UNCHANGED <<now, phase>>
  PROVE  Inv'
<1>1. TypeOK /\ InStep(r)
  BY DEF Inv, StepFits, InStep
<1>2. step[r] = "sum" /\ phase[r] \in {"firstSum", "secondSum"}
  BY <1>1 DEF SumValues, InStep, StepsOf, AddSteps, TypeOK, Phases
<1>3. UNCHANGED <<plus, minus>> /\ astray \subseteq astray' /\ astray' \subseteq astray \cup {r}
      /\ (Strays(r) => r \in astray')
  BY <1>2 DEF Record, Holds, PutOut, Strays
<1>4. /\ Calm(r) /\ UNCHANGED <<start, count, at, delta>> /\ step'[r] = "idle"
      /\ result'[r] = Total(count, valid[r])
  BY <1>1, <1>3 DEF SumValues, GoTo, Calm, array, TypeOK, ArrayTypeOK, Total
<1>5. InStep(r)'
  BY <1>1, <1>2, <1>4 DEF InStep, StepsOf
<1>6. NothingMoved(r)
  BY <1>2, <1>3, <1>4 DEF NothingMoved, HasAdded, HasTaken
<1>7. ValidFor(r)'
  BY <1>4 DEF ValidFor
<1>8. r \in Excluded => r \in Excluded'
  BY <1>2 DEF Excluded
<1>9. CASE r \in Cleared' => r \in astray'
  <2>1. NobodyCleared(r)
    BY <1>8, <1>9 DEF NobodyCleared
  <2>2. QED BY <1>2, <1>4, <1>5, <1>6, <1>7, <2>1, QuietStep
<1>10. CASE r \in Cleared' /\ r \notin astray'
  <2>1. phase[r] = "secondSum" /\ Total(count, valid[r]) <= Threshold
    BY <1>2, <1>4, <1>10 DEF Cleared
  <2>2. at[r] = now /\ r \notin astray /\ astray' = astray
    BY <1>2, <1>3, <1>10, <2>1 DEF Strays
  <2>3. \A q \in Cleared' \ astray' : q \in (Cleared \ astray) \cup {r}
    BY <1>4, <2>2 DEF Cleared, Calm
  <2>4. \A q \in Callers : at[q] \in Nat /\ at[q] <= now /\ now \in Nat
    BY <1>1, SizesAssumption DEF TypeOK, ArrayTypeOK, Times, Inv, StepFits
  <2>5. ClearedFits'
    <3> SUFFICES ASSUME NEW t \in Times
                 PROVE  Cardinality(ClearedFor(t)') <= Threshold + Cardinality((astray \cap Excluded)')
      BY DEF ClearedFits
    <3>1. (astray \cap Excluded)' = astray \cap Excluded
      BY <2>2 DEF Excluded
    <3>2. t \in Nat
      BY SizesAssumption DEF Times
    <3>3. ClearedFor(t)' = {q \in Cleared' \ astray' : at[q] \in (t - Window + 1)..t}
      BY <1>4 DEF ClearedFor
    <3>4. CASE r \in ClearedFor(t)'
      <4> DEFINE C == ClearedFor(t)'
      <4>1. C \in SUBSET ((Cleared \ astray) \cup {r})
        BY <2>3, <3>3
      <4>2. \A q \in C : at[q] \in BucketStartRange(r)
        BY <2>2, <2>4, <3>2, <3>3, <3>4, <4>1, SizesAssumption DEF BucketStartRange, Cleared
      <4> HIDE DEF C
      <4>3. Cardinality(C) <= Threshold + Cardinality(astray \cap Excluded)
        BY <1>2, <2>1, <2>2, <4>1, <4>2, SumSees
      <4>4. QED BY <3>1, <4>3 DEF C
    <3>5. CASE r \notin ClearedFor(t)'
      <4>1. ClearedFor(t)' \subseteq ClearedFor(t)
        BY <2>3, <3>3, <3>5 DEF ClearedFor
      <4>2. ClearedFor(t) \subseteq Callers /\ astray \cap Excluded \subseteq Callers
        BY <1>1 DEF ClearedFor, Cleared, TypeOK
      <4> DEFINE a == Cardinality(ClearedFor(t)')  b == Cardinality(ClearedFor(t))
                 c == Cardinality(astray \cap Excluded)
      <4>3. a \in Nat /\ b \in Nat /\ a <= b /\ c \in Nat
        BY <4>1, <4>2, RequestsFinite
      <4>4. b <= Threshold + c
        BY DEF Inv, ClearedFits
      <4> HIDE DEF a, b, c
      <4>5. a <= Threshold + c
        BY <4>3, <4>4, RejectAssumption
      <4>6. QED BY <3>1, <4>5 DEF a, c
    <3>6. QED BY <3>4, <3>5
  <2>6. ValidFits'
    <3> SUFFICES ASSUME NEW s \in Callers \ {r}, s \notin astray', phase'[s] = "secondSum",
                        step'[s] = "sum", at'[s] = now', NEW q \in (Cleared' \ astray') \cup {s},
                        at'[q] \in (at'[s] - Window + 1)..at'[s]
                 PROVE  Idx(at'[q]) \in valid'[s]
      BY <1>7 DEF ValidFits, ValidFor, BucketStartRange, Idx
    <3>1. at' = at /\ now' = now
      BY <1>4 DEF Calm
    <3>2. CASE q \in (Cleared \ astray) \cup {s}
      BY <1>4, <3>1, <3>2, OthersLook
    <3>3. CASE q = r
      <4>1. at[q] = at[s]
        BY <2>2, <3>1, <3>3
      <4>2. at[s] \in (at'[s] - Window + 1)..at'[s]
        BY <2>4, <3>1, SizesAssumption
      <4>3. Idx(at[s]) \in valid'[s]
        BY <1>4, <4>2, OthersLook
      <4>4. QED BY <3>1, <4>1, <4>3
    <3>4. QED BY <2>3, <3>2, <3>3
  <2>7. StepFits' /\ HistoryFits' /\ NothingLost'
    BY <1>4, <1>5, <1>6, StepFitsKept, HistoryKept
  <2>8. StartFits' /\ PlaceFits' /\ CountFits'
    BY <1>2, <1>3, <1>4, PlaceFitsKept, CountsKept DEF Inv, StartFits, Idx
  <2>9. QED BY <2>5, <2>6, <2>7, <2>8 DEF Inv
<1>11. QED BY <1>9, <1>10

\* A check that counts for itself keeps the invariant.
LEMMA InvNext == ASSUME Statistic = "own", Inv, [Next]_vars PROVE Inv'
<1>1. TypeOK'
  BY TypeNext DEF Inv
<1>2. CASE Tick
  BY <1>1, <1>2, InvTick
<1>3. ASSUME NEW r \in Callers,
             DoCheck(r) \/ FirstSum(r) \/ AddedInAdvance(r) \/ SecondSum(r) \/ TakenBack(r)
      PROVE  Inv'
  BY <1>1, <1>3, InvDecide
<1>4. ASSUME NEW r \in Callers, Operate(r), Record(r), UNCHANGED <<now, phase>> PROVE Inv'
  <2>1. CASE CurrentBucket(r) \/ TryLock(r)
    BY <1>1, <1>4, <2>1, InvFind
  <2>2. CASE StoreStart(r)
    BY <1>1, <1>4, <2>2, InvStart
  <2>3. CASE ResetBucket(r)
    BY <1>1, <1>4, <2>3, InvReset
  <2>4. CASE Add(r)
    BY <1>1, <1>4, <2>4, InvAdd
  <2>5. CASE Values(r)
    BY <1>1, <1>4, <2>5, InvLook
  <2>6. CASE SumValues(r)
    BY <1>1, <1>4, <2>6, InvSum
  <2>7. QED BY <1>4, <2>1, <2>2, <2>3, <2>4, <2>5, <2>6 DEF Operate
<1>5. CASE UNCHANGED vars
  BY <1>5 DEF Inv, TypeOK, ArrayTypeOK, StepFits, HistoryFits, HasAdded, HasTaken, NothingLost,
              StartFits, PlaceFits, CountFits, Here, Mapped, Place, ValidFits, ValidFor,
              Cleared, BucketStartRange, ClearedFits, ClearedFor, Excluded, Idx, vars,
              statistic, array, locals, history
<1>6. QED BY <1>2, <1>3, <1>4, <1>5 DEF Next, Finished

-----------------------------------------------------------------------------
(* What follows from it                                                      *)

\* Two sets of requests that have nothing in common.
LEMMA Apart ==
  ASSUME NEW S, NEW T, NEW U \in SUBSET Callers, S \subseteq U, T \subseteq U, S \cap T = {}
  PROVE  /\ Cardinality(S) + Cardinality(T) <= Cardinality(U)
         /\ Cardinality(S) \in Nat /\ Cardinality(T) \in Nat /\ Cardinality(U) \in Nat
<1>1. IsFiniteSet(S) /\ IsFiniteSet(T)
  BY CallersAssumption, FS_Subset
<1> DEFINE a == Cardinality(S)  b == Cardinality(T)  c == Cardinality(S \cup T)
           d == Cardinality(U)
<1>2. c = a + b - Cardinality(S \cap T)
  BY <1>1, FS_Union
<1>3. Cardinality(S \cap T) = 0
  BY FS_EmptySet
<1>4. c <= d /\ c \in Nat /\ d \in Nat
  BY RequestsFinite
<1>5. a \in Nat /\ b \in Nat
  BY <1>1, FS_CardinalityType
<1> HIDE DEF a, b, c, d
<1>6. a + b <= d
  BY <1>2, <1>3, <1>4, <1>5
<1>7. QED BY <1>4, <1>5, <1>6 DEF a, b, d

\* What a set of requests is without another.
LEMMA Without ==
  ASSUME NEW S \in SUBSET Callers, NEW T \in SUBSET Callers
  PROVE  /\ Cardinality(S) = Cardinality(S \ T) + Cardinality(S \cap T)
         /\ Cardinality(S) \in Nat /\ Cardinality(S \ T) \in Nat /\ Cardinality(S \cap T) \in Nat
<1>1. IsFiniteSet(S) /\ IsFiniteSet(T) /\ IsFiniteSet(S \ T) /\ IsFiniteSet(S \cap T)
  BY CallersAssumption, FS_Subset
<1> DEFINE a == Cardinality(S)  b == Cardinality(S \ T)  c == Cardinality(S \cap T)
<1>2. b = a - c
  BY <1>1, FS_Difference
<1>3. a \in Nat /\ b \in Nat /\ c \in Nat
  BY <1>1, FS_CardinalityType
<1> HIDE DEF a, b, c
<1>4. a = b + c
  BY <1>2, <1>3
<1>5. QED BY <1>3, <1>4 DEF a, b, c

\* The granted are cleared: those that kept to the way are within the threshold and
\* the refused that did not, and the others are no more than went astray.
LEMMA InvQuota == Inv => QuotaKept
<1> SUFFICES ASSUME Inv, NEW t \in Times
             PROVE  Cardinality(GrantedFor((t - Window + 1)..t)) <= Threshold + Cardinality(astray)
  BY DEF QuotaKept
<1>1. TypeOK
  BY DEF Inv
<1> DEFINE G == GrantedFor((t - Window + 1)..t)
<1>2. G \in SUBSET Callers /\ astray \in SUBSET Callers
  BY <1>1 DEF GrantedFor, Granted, TypeOK
<1>3. G \ astray \subseteq ClearedFor(t) /\ ClearedFor(t) \subseteq Callers
  BY DEF GrantedFor, Granted, ClearedFor, Cleared
<1>4. (G \cap astray) \cap (astray \cap Excluded) = {}
  BY DEF GrantedFor, Granted, Excluded
<1> HIDE DEF G
<1> DEFINE g == Cardinality(G)  u == Cardinality(G \ astray)  v == Cardinality(G \cap astray)
           x == Cardinality(astray \cap Excluded)  y == Cardinality(astray)
           z == Cardinality(ClearedFor(t))
<1>5. g = u + v /\ g \in Nat /\ u \in Nat /\ v \in Nat
  BY <1>2, Without
<1>6. u <= z /\ z \in Nat
  BY <1>3, RequestsFinite
<1>7. v + x <= y /\ x \in Nat /\ y \in Nat
  BY <1>2, <1>4, Apart
<1>8. z <= Threshold + x
  BY DEF Inv, ClearedFits
<1> HIDE DEF g, u, v, x, y, z
<1>9. g <= Threshold + y
  BY <1>5, <1>6, <1>7, <1>8, RejectAssumption
<1>10. QED BY <1>9 DEF g, y, G

\* With no check under way who is counted in a bucket without having taken back was
\* granted in its period, and the other way round, but for those that went astray.
LEMMA InvCount == Inv => CountIsGrants
<1> SUFFICES ASSUME Inv, Checking = {}, NEW i \in Slots, start[i] > now - SampleCount
             PROVE  /\ count[i] <= Cardinality(GrantedFor({start[i]})) + Cardinality(astray)
                    /\ count[i] >= Cardinality(GrantedFor({start[i]})) - Cardinality(astray)
  BY DEF CountIsGrants
<1>1. TypeOK
  BY DEF Inv
<1>2. \A r \in Callers : phase[r] \in {"new", "granted", "refused"} /\ step[r] = "idle"
  BY DEF Checking, Inv, StepFits, StepsOf
<1> DEFINE P == Here(plus, i)  M == Here(minus, i)  G == GrantedFor({start[i]})
<1>3. P \in SUBSET Callers /\ M \in SUBSET Callers /\ G \in SUBSET Callers
      /\ astray \in SUBSET Callers
  BY <1>1 DEF Here, Mapped, GrantedFor, Granted, TypeOK
<1>4. (P \ M) \ astray \subseteq G
  <2> SUFFICES ASSUME NEW q \in P \ M, q \notin astray PROVE q \in G
    OBVIOUS
  <2>1. q \in Callers /\ q \in plus /\ q \notin minus /\ Idx(at[q]) = i
    BY <1>3 DEF Here, Mapped, Place
  <2>2. phase[q] = "granted"
    BY <2>1, <1>2 DEF Inv, HistoryFits, NothingLost, HasAdded, HasTaken
  <2>3. start[i] = at[q]
    BY <2>1, <1>2 DEF Inv, PlaceFits
  <2>4. QED BY <2>1, <2>2, <2>3 DEF GrantedFor, Granted
<1>5. G \ astray \subseteq P \ M
  <2> SUFFICES ASSUME NEW q \in G \ astray PROVE q \in P /\ q \notin M
    OBVIOUS
  <2>1. q \in Callers /\ phase[q] = "granted" /\ at[q] = start[i]
    BY DEF GrantedFor, Granted
  <2>2. q \in plus /\ q \notin minus
    BY <2>1 DEF Inv, HistoryFits, NothingLost, HasAdded, HasTaken
  <2>3. Idx(at[q]) = i
    BY <2>1 DEF Inv, StartFits
  <2>4. QED BY <2>1, <2>2, <2>3 DEF Here, Mapped, Place
<1>6. M \ P \subseteq astray /\ (M \ P) \cap (G \cap astray) = {}
  <2>1. M \ P \subseteq minus \ plus
    BY DEF Here, Mapped
  <2>2. \A q \in minus : phase[q] # "granted"
    BY DEF Inv, HistoryFits, HasTaken
  <2>3. QED BY <2>1, <2>2 DEF Inv, NothingLost, GrantedFor, Granted
<1>7. count[i] = Cardinality(P) - Cardinality(M)
  BY DEF Inv, CountFits
<1> HIDE DEF P, M, G
<1> DEFINE p == Cardinality(P)  m == Cardinality(M)  d == Cardinality(P \ M)
           e == Cardinality(M \ P)  g == Cardinality(G)  u == Cardinality(G \ astray)
           v == Cardinality(G \cap astray)  y == Cardinality(astray)
           f == Cardinality((P \ M) \ astray)  h == Cardinality((P \ M) \cap astray)
<1>8. p - m = d - e /\ p \in Nat /\ m \in Nat /\ d \in Nat /\ e \in Nat
  BY <1>3, Difference
<1>9. g = u + v /\ g \in Nat /\ u \in Nat /\ v \in Nat
  BY <1>3, Without
<1>10. d = f + h /\ f \in Nat /\ h \in Nat
  <2>1. P \ M \in SUBSET Callers
    BY <1>3
  <2>2. QED BY <2>1, <1>3, Without
<1>11. f <= g
  BY <1>3, <1>4, RequestsFinite
<1>12. h <= y /\ y \in Nat
  <2>1. (P \ M) \cap astray \subseteq astray
    OBVIOUS
  <2>2. QED BY <2>1, <1>3, RequestsFinite
<1>13. u <= d
  <2>1. P \ M \subseteq Callers
    BY <1>3
  <2>2. QED BY <2>1, <1>5, RequestsFinite
<1>14. e + v <= y
  <2>1. G \cap astray \subseteq astray
    OBVIOUS
  <2>2. QED BY <2>1, <1>3, <1>6, Apart
<1>15. count[i] = p - m
  BY <1>7
<1> HIDE DEF p, m, d, e, g, u, v, y, f, h
<1>16. count[i] <= g + y /\ count[i] >= g - y
  BY <1>8, <1>9, <1>10, <1>11, <1>12, <1>13, <1>14, <1>15
<1>17. QED BY <1>16 DEF g, y, G

\* The invariant of a rule with a statistic of its own.
LEMMA InvHolds == ASSUME Statistic = "own" PROVE Spec => []Inv
<1>1. Init => Inv
  BY InvInit
<1>2. Inv /\ [Next]_vars => Inv'
  BY InvNext
<1>3. QED BY <1>1, <1>2, PTL DEF Spec

\* RejectTrafficShapingChecker.DoCheck on BucketLeapArray, for a rule with a statistic of
\* its own: under every interleaving of the checks with each other, with the turns of the
\* buckets (which lose additions) and with the clock (which may pass on in the middle of
\* a check), a window sees more than Threshold requests granted only by as many as went
\* astray, that is, by an addition that was dropped, went to another period or was wiped
\* out while it still counted, a subtraction of what was no longer there, or a sum taken
\* for a moment that had passed.
THEOREM QuotaHolds == ASSUME Statistic = "own" PROVE Spec => []QuotaKept
<1>1. Spec => []Inv
  BY InvHolds
<1>2. Inv => QuotaKept
  BY InvQuota
<1>3. QED BY <1>1, <1>2, PTL

\* The same calls leave in every bucket that still counts the number of requests granted
\* in its period, when no check is under way, give or take one for each that went astray:
\* DoCheck takes back what it added in advance for a request it refuses.
THEOREM CountHolds == ASSUME Statistic = "own" PROVE Spec => []CountIsGrants
<1>1. Spec => []Inv
  BY InvHolds
<1>2. Inv => CountIsGrants
  BY InvCount
<1>3. QED BY <1>1, <1>2, PTL

=============================================================================
