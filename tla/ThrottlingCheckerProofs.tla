----------------------- MODULE ThrottlingCheckerProofs -----------------------
(***************************************************************************)
(* Theorems about ThrottlingChecker, for any number of requests, any       *)
(* batches, thresholds and queue.                                          *)
(*                                                                         *)
(* lastPassedTime is the end of the queue plus what refused requests have  *)
(* added and not yet taken back.  Stacked says so without a sum: it lists  *)
(* those requests, with what lastPassedTime would be below each of them.   *)
(*                                                                         *)
(* The inductive invariant is TypeOK with Known, what a request can rely   *)
(* on between its steps; Queue, which says that the places in the queue    *)
(* keep their distance below its end, the last of them at it or beyond;    *)
(* and, for the clock that is set back, Timed and Skew, which say how far  *)
(* the end of the queue reaches.                                           *)
(***************************************************************************)
EXTENDS ThrottlingChecker, TLAPS

\* q lists the requests of R, each one standing on those before it, as high as
\* f says; p[k] is the height that the first k of them reach from p[0].
Stack(R, f, n, q, p) ==
  /\ \A k \in 1..n : p[k] = p[k - 1] + f[q[k]]
  /\ \A r \in R : \E k \in 1..n : q[k] = r
  /\ \A j, k \in 1..n : q[j] = q[k] => j = k
  /\ \A j, k \in 0..n : j <= k => p[j] <= p[k]

\* The requests of R, standing on one another, reach from a to b.
Stacked(R, f, a, b) ==
  \E n \in Nat : \E q \in [1..n -> R], p \in [0..n -> Int] :
    p[0] = a /\ p[n] = b /\ Stack(R, f, n, q, p)

LEMMA StackedEmpty ==
  ASSUME NEW f, NEW a \in Int
  PROVE  Stacked({}, f, a, a)
<1> DEFINE q == [k \in 1..0 |-> a]  p == [k \in 0..0 |-> a]
<1>1. q \in [1..0 -> {}] /\ p \in [0..0 -> Int] /\ p[0] = a
  OBVIOUS
<1>2. 1..0 = {} /\ \A k \in 0..0 : k = 0
  OBVIOUS
<1> HIDE DEF q, p
<1>3. Stack({}, f, 0, q, p)
  <2>1. \A k \in 1..0 : p[k] = p[k - 1] + f[q[k]]
    BY <1>2
  <2>2. \A j, k \in 1..0 : q[j] = q[k] => j = k
    BY <1>2
  <2>3. \A j, k \in 0..0 : j <= k => p[j] <= p[k]
    BY <1>1, <1>2
  <2>4. QED BY <2>1, <2>2, <2>3 DEF Stack
<1>4. QED BY <1>1, <1>3 DEF Stacked

\* With nobody there, nothing has been added.
LEMMA EmptyStacked ==
  ASSUME NEW f, NEW a, NEW b, Stacked({}, f, a, b)
  PROVE  a = b
<1>1. PICK n \in Nat : \E q \in [1..n -> {}], p \in [0..n -> Int] : p[0] = a /\ p[n] = b
  BY DEF Stacked
<1>2. PICK q \in [1..n -> {}], p \in [0..n -> Int] : p[0] = a /\ p[n] = b
  BY <1>1
<1>3. n = 0
  <2>1. ASSUME n # 0 PROVE FALSE
    <3>1. 1 \in 1..n
      BY <2>1
    <3>2. q[1] \in {}
      BY <3>1
    <3>3. QED BY <3>2
  <2>2. QED BY <2>1
<1>4. QED BY <1>2, <1>3

\* What stands there has a height that is part of the whole.
LEMMA StackedHolds ==
  ASSUME NEW R, NEW f, \A x \in R : f[x] \in Nat, NEW a \in Int, NEW b \in Int, Stacked(R, f, a, b)
  PROVE  a <= b /\ \A r \in R : a + f[r] <= b
<1>0. PICK n \in Nat : \E q \in [1..n -> R], p \in [0..n -> Int] :
             p[0] = a /\ p[n] = b /\ Stack(R, f, n, q, p)
  BY DEF Stacked
<1>1. PICK q \in [1..n -> R], p \in [0..n -> Int] :
             p[0] = a /\ p[n] = b /\ Stack(R, f, n, q, p)
  BY <1>0
<1>2. /\ p[0] = a /\ p[n] = b
      /\ \A k \in 1..n : p[k] = p[k - 1] + f[q[k]]
      /\ \A r \in R : \E k \in 1..n : q[k] = r
      /\ \A j, k \in 0..n : j <= k => p[j] <= p[k]
  BY <1>1 DEF Stack
<1>3. a <= b
  BY <1>2
<1>4. ASSUME NEW r \in R PROVE a + f[r] <= b
  <2>1. PICK k \in 1..n : q[k] = r
    BY <1>2
  <2>2. k \in 0..n /\ k - 1 \in 0..n
    BY <2>1
  <2>3. p[k] = p[k - 1] + f[r]
    BY <1>2, <2>1
  <2>4. 0 \in 0..n /\ n \in 0..n /\ 0 <= k - 1 /\ k <= n
    BY <2>1
  <2>5. p[0] <= p[k - 1] /\ p[k] <= p[n]
    BY <1>2, <2>2, <2>4
  <2>6. p[k - 1] \in Int /\ p[k] \in Int
    BY <2>2
  <2>7. f[r] \in Nat
    BY <1>4
  <2> DEFINE x == p[k - 1]  y == p[k]  h == f[r]
  <2>8. x \in Int /\ y \in Int /\ h \in Nat /\ y = x + h /\ a <= x /\ y <= b
    BY <1>2, <2>3, <2>5, <2>6, <2>7
  <2> HIDE DEF x, y, h
  <2>9. a + h <= b
    BY <2>8
  <2>10. QED BY <2>9 DEF h
<1>5. QED BY <1>3, <1>4

\* A request steps on top ...
LEMMA StackedAdd ==
  ASSUME NEW R, NEW r, r \notin R, NEW f, \A x \in R \cup {r} : f[x] \in Nat,
         NEW a \in Int, NEW b \in Int, Stacked(R, f, a, b)
  PROVE  Stacked(R \cup {r}, f, a, b + f[r])
<1>0. PICK n \in Nat : \E q \in [1..n -> R], p \in [0..n -> Int] :
             p[0] = a /\ p[n] = b /\ Stack(R, f, n, q, p)
  BY DEF Stacked
<1>1. PICK q \in [1..n -> R], p \in [0..n -> Int] :
             p[0] = a /\ p[n] = b /\ Stack(R, f, n, q, p)
  BY <1>0
<1>2. /\ p[0] = a /\ p[n] = b
      /\ \A k \in 1..n : p[k] = p[k - 1] + f[q[k]]
      /\ \A s \in R : \E k \in 1..n : q[k] = s
      /\ \A j, k \in 1..n : q[j] = q[k] => j = k
      /\ \A j, k \in 0..n : j <= k => p[j] <= p[k]
  BY <1>1 DEF Stack
<1> DEFINE m == n + 1  c == b + f[r]
           q2 == [k \in 1..m |-> IF k = m THEN r ELSE q[k]]
           p2 == [k \in 0..m |-> IF k = m THEN c ELSE p[k]]
<1>3. m \in Nat /\ c \in Int /\ b <= c /\ f[r] \in Nat
  OBVIOUS
<1>4. q2 \in [1..m -> R \cup {r}]
  BY <1>2
<1>5. p2 \in [0..m -> Int]
  BY <1>2, <1>3
<1>6. p2[0] = a /\ p2[m] = c
  BY <1>2, <1>3
<1>7. ASSUME NEW k \in 1..m PROVE p2[k] = p2[k - 1] + f[q2[k]]
  <2>1. CASE k = m
    <3>1. p2[k] = c /\ p2[k - 1] = p[n] /\ q2[k] = r
      BY <2>1
    <3>2. QED BY <1>2, <3>1
  <2>2. CASE k # m
    <3>1. k \in 1..n /\ k - 1 \in 0..m /\ k - 1 # m
      BY <2>2
    <3>2. p2[k] = p[k] /\ p2[k - 1] = p[k - 1] /\ q2[k] = q[k]
      BY <2>2, <3>1
    <3>3. QED BY <1>2, <3>1, <3>2
  <2>3. QED BY <2>1, <2>2
<1>8. ASSUME NEW s \in R \cup {r} PROVE \E k \in 1..m : q2[k] = s
  <2>1. CASE s = r
    <3>1. m \in 1..m /\ q2[m] = s
      BY <2>1
    <3>2. QED BY <3>1
  <2>2. CASE s \in R
    <3>1. PICK k \in 1..n : q[k] = s
      BY <1>2, <2>2
    <3>2. k \in 1..m /\ q2[k] = s
      BY <3>1
    <3>3. QED BY <3>2
  <2>3. QED BY <2>1, <2>2
<1>9. ASSUME NEW j \in 1..m, NEW k \in 1..m, q2[j] = q2[k] PROVE j = k
  <2>1. \A i \in 1..m : i # m => q2[i] \in R /\ q2[i] = q[i] /\ i \in 1..n
    BY <1>2
  <2>2. q2[m] = r
    OBVIOUS
  <2>3. QED BY <1>2, <1>9, <2>1, <2>2
<1>10. ASSUME NEW j \in 0..m, NEW k \in 0..m, j <= k PROVE p2[j] <= p2[k]
  <2>1. CASE k # m
    <3>1. j \in 0..n /\ k \in 0..n /\ p2[j] = p[j] /\ p2[k] = p[k]
      BY <1>10, <2>1
    <3>2. QED BY <1>2, <1>10, <3>1
  <2>2. CASE k = m /\ j # m
    <3>1. j \in 0..n /\ n \in 0..n /\ j <= n /\ p2[j] = p[j] /\ p2[k] = c
      BY <2>2
    <3>2. p[j] <= p[n] /\ p[j] \in Int
      BY <1>2, <3>1
    <3>3. QED BY <1>2, <1>3, <3>1, <3>2
  <2>3. CASE j = m
    <3>1. j = k
      BY <1>10, <2>3
    <3>2. QED BY <1>5, <3>1
  <2>4. QED BY <2>1, <2>2, <2>3
<1> HIDE DEF q2, p2, m, c
<1>11. Stack(R \cup {r}, f, m, q2, p2)
  BY <1>7, <1>8, <1>9, <1>10 DEF Stack
<1>12. Stacked(R \cup {r}, f, a, c)
  BY <1>3, <1>4, <1>5, <1>6, <1>11 DEF Stacked
<1>13. QED BY <1>12 DEF c

\* ... steps out from among the others, who come down ...
LEMMA StackedRemove ==
  ASSUME NEW R, NEW r \in R, NEW f, \A x \in R : f[x] \in Nat,
         NEW a \in Int, NEW b \in Int, Stacked(R, f, a, b)
  PROVE  Stacked(R \ {r}, f, a, b - f[r])
<1>0. PICK n \in Nat : \E q \in [1..n -> R], p \in [0..n -> Int] :
             p[0] = a /\ p[n] = b /\ Stack(R, f, n, q, p)
  BY DEF Stacked
<1>1. PICK q \in [1..n -> R], p \in [0..n -> Int] :
             p[0] = a /\ p[n] = b /\ Stack(R, f, n, q, p)
  BY <1>0
<1>2. /\ p[0] = a /\ p[n] = b
      /\ \A k \in 1..n : p[k] = p[k - 1] + f[q[k]]
      /\ \A s \in R : \E k \in 1..n : q[k] = s
      /\ \A j, k \in 1..n : q[j] = q[k] => j = k
      /\ \A j, k \in 0..n : j <= k => p[j] <= p[k]
  BY <1>1 DEF Stack
<1>3. PICK i \in 1..n : q[i] = r
  BY <1>2
<1> DEFINE m == n - 1  c == b - f[r]
           q2 == [k \in 1..m |-> IF k < i THEN q[k] ELSE q[k + 1]]
           p2 == [k \in 0..m |-> IF k < i THEN p[k] ELSE p[k + 1] - f[r]]
<1>4. m \in Nat /\ c \in Int /\ f[r] \in Nat /\ i \in Nat /\ 1 <= i /\ i <= n
  BY <1>3
<1>5. p[i] = p[i - 1] + f[r] /\ p[i] \in Int /\ p[i - 1] \in Int
  BY <1>2, <1>3
<1>6. q2 \in [1..m -> R \ {r}]
  <2>1. ASSUME NEW k \in 1..m
        PROVE  (IF k < i THEN q[k] ELSE q[k + 1]) \in R \ {r}
    <3>1. k \in 1..n /\ k + 1 \in 1..n
      OBVIOUS
    <3>2. q[k] \in R /\ q[k + 1] \in R /\ (q[k] = r => k = i) /\ (q[k + 1] = r => k + 1 = i)
      BY <1>2, <1>3, <3>1
    <3>3. QED BY <1>4, <3>2
  <2>2. QED BY <2>1
<1>7. p2 \in [0..m -> Int]
  <2>1. ASSUME NEW k \in 0..m
        PROVE  (IF k < i THEN p[k] ELSE p[k + 1] - f[r]) \in Int
    <3>1. k \in 0..n /\ k + 1 \in 0..n
      OBVIOUS
    <3>2. p[k] \in Int /\ p[k + 1] \in Int
      BY <3>1
    <3>3. QED BY <1>4, <3>2
  <2>2. QED BY <2>1
<1>8. p2[0] = a /\ p2[m] = c
  <2>1. p2[0] = a
    <3>1. 0 \in 0..m /\ 0 < i
      BY <1>4
    <3>2. QED BY <1>2, <3>1
  <2>2. CASE i = n
    <3>1. m \in 0..m /\ m < i /\ p2[m] = p[i - 1]
      BY <1>4, <2>2
    <3>2. QED BY <1>2, <1>4, <1>5, <2>1, <2>2, <3>1
  <2>3. CASE i # n
    <3>1. m \in 0..m /\ ~(m < i) /\ m + 1 = n
      BY <1>4, <2>3
    <3>2. p2[m] = p[n] - f[r]
      BY <3>1
    <3>3. QED BY <1>2, <2>1, <3>2
  <2>4. QED BY <2>2, <2>3
<1>9. ASSUME NEW k \in 1..m PROVE p2[k] = p2[k - 1] + f[q2[k]]
  <2>0. k \in 0..m /\ k - 1 \in 0..m /\ k \in 1..n /\ k + 1 \in 1..n
    OBVIOUS
  <2>1. p[k] = p[k - 1] + f[q[k]] /\ p[k + 1] = p[k] + f[q[k + 1]]
    <3>1. (k + 1) - 1 = k
      OBVIOUS
    <3>2. p[k + 1] = p[(k + 1) - 1] + f[q[k + 1]]
      BY <1>2, <2>0
    <3>3. QED BY <1>2, <2>0, <3>1, <3>2
  <2>2. q[k] \in R /\ q[k + 1] \in R /\ p[k] \in Int /\ p[k - 1] \in Int /\ p[k + 1] \in Int
    BY <2>0
  <2>3. f[q[k]] \in Nat /\ f[q[k + 1]] \in Nat
    BY <2>2
  <2>4. CASE k < i
    <3>1. p2[k] = p[k] /\ p2[k - 1] = p[k - 1] /\ q2[k] = q[k]
      BY <1>4, <2>0, <2>4
    <3>2. QED BY <2>1, <3>1
  <2>5. CASE k = i
    <3>1. p2[k] = p[k + 1] - f[r] /\ p2[k - 1] = p[k - 1] /\ q2[k] = q[k + 1]
      BY <1>4, <2>0, <2>5
    <3>2. p[k] = p[k - 1] + f[r]
      BY <1>5, <2>5
    <3> HIDE DEF p2, q2, m, c
    <3>3. f[q[k]] = f[r]
      BY <1>3, <2>5
    <3>4. QED BY <1>4, <2>1, <2>2, <2>3, <3>1, <3>2, <3>3, SMTT(30)
  <2>6. CASE k > i
    <3>1. ~(k < i) /\ ~(k - 1 < i) /\ (k - 1) + 1 = k
      BY <1>4, <2>6
    <3>2. p2[k] = p[k + 1] - f[r] /\ p2[k - 1] = p[(k - 1) + 1] - f[r] /\ q2[k] = q[k + 1]
      BY <2>0, <3>1
    <3>3. p2[k - 1] = p[k] - f[r]
      BY <3>1, <3>2
    <3> HIDE DEF p2, q2, m, c
    <3>4. QED BY <1>4, <2>1, <2>2, <2>3, <3>2, <3>3, SMTT(30)
  <2>7. QED BY <1>4, <2>4, <2>5, <2>6
<1>10. ASSUME NEW s \in R \ {r} PROVE \E k \in 1..m : q2[k] = s
  <2>1. PICK k \in 1..n : q[k] = s
    BY <1>2
  <2>2. k # i
    BY <1>3, <2>1
  <2>3. CASE k < i
    <3>1. k \in 1..m /\ q2[k] = s
      BY <1>4, <2>1, <2>3
    <3>2. QED BY <3>1
  <2>4. CASE k > i
    <3>1. k - 1 \in 1..m /\ ~(k - 1 < i) /\ (k - 1) + 1 = k
      BY <1>4, <2>4
    <3>2. q2[k - 1] = q[(k - 1) + 1]
      BY <3>1
    <3>3. q2[k - 1] = s
      BY <2>1, <3>1, <3>2
    <3>4. QED BY <3>1, <3>3
  <2>5. QED BY <1>4, <2>2, <2>3, <2>4
<1>11. ASSUME NEW j \in 1..m, NEW k \in 1..m, q2[j] = q2[k] PROVE j = k
  <2> DEFINE up(x) == IF x < i THEN x ELSE x + 1
  <2>1. q2[j] = q[up(j)] /\ q2[k] = q[up(k)]
    OBVIOUS
  <2>2. up(j) \in 1..n /\ up(k) \in 1..n
    BY <1>4
  <2>3. up(j) = up(k)
    BY <1>2, <1>11, <2>1, <2>2
  <2>4. QED BY <1>4, <2>3
<1>12. ASSUME NEW j \in 0..m, NEW k \in 0..m, j <= k PROVE p2[j] <= p2[k]
  <2>1. j \in 0..n /\ j + 1 \in 0..n /\ k \in 0..n /\ k + 1 \in 0..n
    OBVIOUS
  <2>2. p[j] \in Int /\ p[j + 1] \in Int /\ p[k] \in Int /\ p[k + 1] \in Int
    BY <2>1
  <2>3. CASE k < i
    <3>1. p2[j] = p[j] /\ p2[k] = p[k]
      BY <1>4, <1>12, <2>3
    <3>2. QED BY <1>2, <1>12, <2>1, <3>1
  <2>4. CASE i <= j
    <3>1. p2[j] = p[j + 1] - f[r] /\ p2[k] = p[k + 1] - f[r]
      BY <1>4, <1>12, <2>4
    <3>2. p[j + 1] <= p[k + 1]
      BY <1>2, <1>12, <2>1
    <3> HIDE DEF p2, q2, m, c
    <3>3. p[j + 1] - f[r] <= p[k + 1] - f[r]
      BY <1>4, <2>2, <3>2
    <3>4. QED BY <3>1, <3>3
  <2>5. CASE j < i /\ i <= k
    <3>1. p2[j] = p[j] /\ p2[k] = p[k + 1] - f[r]
      BY <1>4, <2>5
    <3>2. i \in 0..n /\ i - 1 \in 0..n /\ j <= i - 1 /\ i <= k + 1
      BY <1>4, <2>5
    <3> HIDE DEF p2, q2, m, c
    <3>3. p[j] <= p[i - 1]
      BY <1>2, <2>1, <3>2
    <3>4. p[i] <= p[k + 1]
      BY <1>2, <2>1, <3>2
    <3>5. p[i] <= p[k + 1] /\ p[j] <= p[i] - f[r]
      BY <1>4, <1>5, <2>2, <3>3, <3>4
    <3>6. \A x, y, z, w \in Int : x <= y - w /\ y <= z => x <= z - w
      OBVIOUS
    <3>7. p[j] <= p[k + 1] - f[r]
      <4>1. p[j] \in Int /\ p[i] \in Int /\ p[k + 1] \in Int /\ f[r] \in Int
        BY <1>4, <1>5, <2>2
      <4>2. QED BY <4>1, <3>5, <3>6, Zenon
    <3>8. QED BY <3>1, <3>7
  <2>6. QED BY <1>4, <2>3, <2>4, <2>5
<1> HIDE DEF q2, p2, m, c
<1>13. Stack(R \ {r}, f, m, q2, p2)
  BY <1>9, <1>10, <1>11, <1>12 DEF Stack
<1>14. Stacked(R \ {r}, f, a, c)
  BY <1>4, <1>6, <1>7, <1>8, <1>13 DEF Stacked
<1>15. QED BY <1>14 DEF c

\* ... and all of them are lifted, or lowered.
LEMMA StackedShift ==
  ASSUME NEW R, NEW f, \A x \in R : f[x] \in Nat, NEW a \in Int, NEW b \in Int, Stacked(R, f, a, b),
         NEW d \in Int
  PROVE  Stacked(R, f, a + d, b + d)
<1>0. PICK n \in Nat : \E q \in [1..n -> R], p \in [0..n -> Int] :
             p[0] = a /\ p[n] = b /\ Stack(R, f, n, q, p)
  BY DEF Stacked
<1>1. PICK q \in [1..n -> R], p \in [0..n -> Int] :
             p[0] = a /\ p[n] = b /\ Stack(R, f, n, q, p)
  BY <1>0
<1> DEFINE p2 == [k \in 0..n |-> p[k] + d]
<1>2. p2 \in [0..n -> Int] /\ p2[0] = a + d /\ p2[n] = b + d
  BY <1>1
<1>3. ASSUME NEW k \in 1..n PROVE p2[k] = p2[k - 1] + f[q[k]]
  <2>1. k \in 0..n /\ k - 1 \in 0..n
    OBVIOUS
  <2>2. p2[k] = p[k] + d /\ p2[k - 1] = p[k - 1] + d
    BY <2>1
  <2>3. p[k] = p[k - 1] + f[q[k]]
    BY <1>1 DEF Stack
  <2>4. p[k] \in Int /\ p[k - 1] \in Int /\ f[q[k]] \in Int
    BY <2>1
  <2> HIDE DEF p2
  <2>5. QED BY <2>2, <2>3, <2>4
<1>4. ASSUME NEW j \in 0..n, NEW k \in 0..n, j <= k PROVE p2[j] <= p2[k]
  <2>1. p2[j] = p[j] + d /\ p2[k] = p[k] + d /\ p[j] \in Int /\ p[k] \in Int
    OBVIOUS
  <2>2. p[j] <= p[k]
    BY <1>1, <1>4 DEF Stack
  <2> HIDE DEF p2
  <2>3. QED BY <2>1, <2>2
<1> HIDE DEF p2
<1>5. Stack(R, f, n, q, p2)
  BY <1>1, <1>3, <1>4 DEF Stack
<1>6. QED BY <1>2, <1>5 DEF Stacked

\* Only the heights of those who stand there matter.
LEMMA StackedSame ==
  ASSUME NEW R, NEW f, NEW g, \A r \in R : f[r] = g[r],
         NEW a, NEW b, Stacked(R, f, a, b)
  PROVE  Stacked(R, g, a, b)
<1>0. PICK n \in Nat : \E q \in [1..n -> R], p \in [0..n -> Int] :
             p[0] = a /\ p[n] = b /\ Stack(R, f, n, q, p)
  BY DEF Stacked
<1>1. PICK q \in [1..n -> R], p \in [0..n -> Int] :
             p[0] = a /\ p[n] = b /\ Stack(R, f, n, q, p)
  BY <1>0
<1>2. Stack(R, g, n, q, p)
  BY <1>1 DEF Stack
<1>3. QED BY <1>1, <1>2 DEF Stacked
\* An interval is at least a tick, whatever the batch and the threshold.
LEMMA IntervalPositive ==
  ASSUME NEW batch \in Nat, NEW threshold \in Nat, batch > 0, threshold > 0
  PROVE  IntervalOf(batch, threshold) \in Nat /\ IntervalOf(batch, threshold) >= 1
<1>1. StatInterval \in Nat /\ StatInterval >= 1
  BY TimeAssumption
<1>2. batch * StatInterval \in Nat /\ batch * StatInterval >= 1
  BY <1>1
<1> DEFINE w == batch * StatInterval
<1>3. w \in Nat /\ w >= 1
  BY <1>2
<1> HIDE DEF w
<1>4. w + threshold - 1 \in Nat /\ w + threshold - 1 >= threshold
  BY <1>3
<1>5. \A x \in Nat : x >= threshold => x \div threshold \in Nat /\ x \div threshold >= 1
  OBVIOUS
<1>6. QED BY <1>4, <1>5 DEF IntervalOf, w
-----------------------------------------------------------------------------
(* What a request knows                                                     *)

\* The steps of a request that asks for a place and has no answer yet ...
Asking == { "loadLastPassed", "loadLastSystem", "casSkewed", "casPass",
            "estimate", "add", "rollBack" }

\* ... and of one that has its answer.
Leaving == { "loadSystem", "readClock", "casSystem", "done" }

KnownOf(r) ==
  /\ pc[r] \in Asking => interval[r] >= 1
  /\ pc[r] = "new" => interval[r] = 0
  /\ pc[r] = "casPass" => loaded[r] + interval[r] <= cur[r]
  /\ r \in granted => pc[r] \in Leaving /\ interval[r] >= 1

Known == \A r \in Requests : KnownOf(r)

\* A step of request r.
Move(r) ==
  \/ DoCheck(r) \/ LoadLastPassed(r) \/ LoadLastSystem(r) \/ CasSkewed(r) \/ CasExpected(r)
  \/ Estimate(r) \/ Add(r) \/ RollBack(r) \/ LoadSystem(r) \/ ReadClock(r) \/ CasSystem(r)

\* A step of the system.
LEMMA StepIsMove ==
  ASSUME [Next]_vars
  PROVE  UNCHANGED vars \/ Tick \/ SetClockBack \/ \E r \in Requests : Move(r)
BY DEF Next, Move, Finished

\* A request leaves the others alone.
LEMMA OthersStay ==
  ASSUME TypeOK, NEW r \in Requests, Move(r), NEW s \in Requests, s # r
  PROVE  /\ pc'[s] = pc[s] /\ cur'[s] = cur[s] /\ interval'[s] = interval[s]
         /\ loaded'[s] = loaded[s] /\ clockRead'[s] = clockRead[s]
         /\ place'[s] = place[s] /\ (s \in granted' <=> s \in granted)
<1>1. pc'[s] = pc[s]
  BY DEF Move, TypeOK, GoTo, DoCheck, LoadLastPassed, LoadLastSystem, CasSkewed, CasExpected, CasPass,
         Estimate, Add, RollBack, LoadSystem, ReadClock, CasSystem
<1>2. cur'[s] = cur[s]
  BY DEF Move, TypeOK, locals, DoCheck, LoadLastPassed, LoadLastSystem, CasSkewed, CasExpected, CasPass,
         Estimate, Add, RollBack, LoadSystem, ReadClock, CasSystem
<1>3. interval'[s] = interval[s]
  BY DEF Move, TypeOK, locals, DoCheck, LoadLastPassed, LoadLastSystem, CasSkewed, CasExpected, CasPass,
         Estimate, Add, RollBack, LoadSystem, ReadClock, CasSystem
<1>4. loaded'[s] = loaded[s]
  BY DEF Move, TypeOK, locals, DoCheck, LoadLastPassed, LoadLastSystem, CasSkewed, CasExpected, CasPass,
         Estimate, Add, RollBack, LoadSystem, ReadClock, CasSystem
<1>5. clockRead'[s] = clockRead[s]
  BY DEF Move, TypeOK, locals, DoCheck, LoadLastPassed, LoadLastSystem, CasSkewed, CasExpected, CasPass,
         Estimate, Add, RollBack, LoadSystem, ReadClock, CasSystem
<1>6. place'[s] = place[s] /\ (s \in granted' <=> s \in granted)
  BY DEF Move, TypeOK, answer, Grant, DoCheck, LoadLastPassed, LoadLastSystem, CasSkewed, CasExpected,
         CasPass, Estimate, Add, RollBack, LoadSystem, ReadClock, CasSystem
<1>7. QED BY <1>1, <1>2, <1>3, <1>4, <1>5, <1>6

\* No request sets the clock.
LEMMA ClockStays ==
  ASSUME NEW r \in Requests, Move(r)
  PROVE  now' = now /\ wasSetBack' = wasSetBack /\ delay' = delay
BY DEF Move, clock, DoCheck, LoadLastPassed, LoadLastSystem, CasSkewed, CasExpected, CasPass,
       Estimate, Add, RollBack, LoadSystem, ReadClock, CasSystem

LEMMA InitKnown == Init => Known
BY DEF Init, Known, KnownOf, Asking

\* What the one that moves knows afterwards.
LEMMA OwnKnown ==
  ASSUME TypeOK, Known, NEW r \in Requests, Move(r)
  PROVE  KnownOf(r)'
<1>1. KnownOf(r)
  BY DEF Known
<1>2. CASE DoCheck(r)
  <2>1. r \notin granted'
    BY <1>1, <1>2 DEF DoCheck, KnownOf, Leaving, answer
  <2>2. pc'[r] = "loadSystem" \/ (pc'[r] = "loadLastPassed" /\ interval'[r] >= 1)
    <3>1. PICK batch \in Batches, threshold \in Thresholds :
            IF batch > 0 /\ threshold > 0
            THEN /\ interval' = [interval EXCEPT ![r] = IntervalOf(batch, threshold)]
                 /\ GoTo(r, "loadLastPassed")
            ELSE GoTo(r, "loadSystem")
      BY <1>2 DEF DoCheck
    <3>2. batch \in Nat /\ threshold \in Nat
      BY TimeAssumption
    <3>3. CASE batch > 0 /\ threshold > 0
      <4>1. IntervalOf(batch, threshold) >= 1
        BY <3>2, <3>3, IntervalPositive
      <4>2. QED BY <3>1, <3>3, <4>1 DEF TypeOK, GoTo
    <3>4. CASE ~(batch > 0 /\ threshold > 0)
      BY <3>1, <3>4 DEF TypeOK, GoTo
    <3>5. QED BY <3>3, <3>4
  <2>3. QED BY <2>1, <2>2 DEF KnownOf, Asking
<1>3. CASE LoadLastPassed(r)
  <2>1. pc[r] = "loadLastPassed" /\ pc'[r] = "loadLastSystem"
        /\ interval'[r] = interval[r] /\ granted' = granted
    BY <1>3 DEF LoadLastPassed, GoTo, answer, TypeOK
  <2>2. QED BY <1>1, <2>1 DEF KnownOf, Asking, Leaving
<1>4. CASE LoadLastSystem(r)
  <2>1. pc[r] = "loadLastSystem" /\ cur'[r] = cur[r] /\ loaded'[r] = loaded[r]
        /\ interval'[r] = interval[r] /\ granted' = granted
    BY <1>4 DEF LoadLastSystem, answer, locals
  <2>2. pc'[r] \in {"casSkewed", "estimate"}
        \/ (pc'[r] = "casPass" /\ loaded[r] + interval[r] <= cur[r])
    BY <1>4 DEF LoadLastSystem, GoTo, Expected, TypeOK
  <2>3. QED BY <1>1, <2>1, <2>2 DEF KnownOf, Asking, Leaving
<1>5. CASE CasSkewed(r) \/ CasExpected(r)
  <2>1. pc[r] \in {"casSkewed", "casPass"} /\ cur'[r] = cur[r] /\ loaded'[r] = loaded[r]
        /\ interval'[r] = interval[r]
    BY <1>5 DEF CasSkewed, CasExpected, CasPass, locals
  <2>2. interval[r] >= 1 /\ r \notin granted
    BY <1>1, <2>1 DEF KnownOf, Asking, Leaving
  <2>3. CASE lastPassedTime = loaded[r]
    <3>1. pc'[r] = "loadSystem"
      BY <1>5, <2>3 DEF CasSkewed, CasExpected, CasPass, GoTo, TypeOK
    <3>2. QED BY <2>1, <2>2, <3>1 DEF KnownOf, Asking, Leaving
  <2>4. CASE lastPassedTime # loaded[r]
    <3>1. granted' = granted
      BY <1>5, <2>4 DEF CasSkewed, CasExpected, CasPass, answer
    <3>2. pc'[r] = "estimate" \/ pc'[r] = Expected(r, loaded[r])
      BY <1>5, <2>4 DEF CasSkewed, CasExpected, CasPass, GoTo, TypeOK
    <3>3. pc'[r] = "estimate" \/ (pc'[r] = "casPass" /\ loaded[r] + interval[r] <= cur[r])
      BY <3>2 DEF Expected
    <3>4. QED BY <2>1, <2>2, <3>1, <3>3 DEF KnownOf, Asking
  <2>5. QED BY <2>3, <2>4
<1>6. CASE Estimate(r)
  <2>1. pc[r] = "estimate" /\ pc'[r] \in {"loadSystem", "add"}
        /\ interval'[r] = interval[r] /\ granted' = granted
    BY <1>6 DEF Estimate, GoTo, answer, locals, TypeOK
  <2>2. QED BY <1>1, <2>1 DEF KnownOf, Asking, Leaving
<1>7. CASE Add(r)
  <2>1. pc[r] = "add" /\ interval'[r] = interval[r]
        /\ ((pc'[r] = "rollBack" /\ granted' = granted) \/ pc'[r] = "loadSystem")
    BY <1>7 DEF Add, GoTo, answer, locals, TypeOK
  <2>2. QED BY <1>1, <2>1 DEF KnownOf, Asking, Leaving
<1>8. CASE RollBack(r)
  <2>1. pc[r] = "rollBack" /\ pc'[r] = "loadSystem"
        /\ interval'[r] = interval[r] /\ granted' = granted
    BY <1>8 DEF RollBack, GoTo, answer, locals, TypeOK
  <2>2. QED BY <1>1, <2>1 DEF KnownOf, Asking, Leaving
<1>9. CASE LoadSystem(r) \/ ReadClock(r) \/ CasSystem(r)
  <2>1. pc'[r] \in {"readClock", "casSystem", "done"}
        /\ interval'[r] = interval[r] /\ granted' = granted
    BY <1>9 DEF LoadSystem, ReadClock, CasSystem, GoTo, answer, locals, TypeOK
  <2>2. QED BY <1>1, <2>1 DEF KnownOf, Asking, Leaving
<1>10. QED BY <1>2, <1>3, <1>4, <1>5, <1>6, <1>7, <1>8, <1>9 DEF Move

LEMMA StepKnown ==
  ASSUME TypeOK, Known, [Next]_vars
  PROVE  Known'
<1>1. CASE UNCHANGED vars \/ Tick \/ SetClockBack
  <2>1. UNCHANGED <<pc, cur, interval, loaded, granted>>
    BY <1>1 DEF vars, Tick, SetClockBack, locals, answer
  <2>2. QED BY <2>1 DEF Known, KnownOf
<1>2. ASSUME NEW r \in Requests, Move(r) PROVE Known'
  <2>1. ASSUME NEW s \in Requests, s # r PROVE KnownOf(s)'
    <3>1. /\ pc'[s] = pc[s] /\ cur'[s] = cur[s] /\ interval'[s] = interval[s]
          /\ loaded'[s] = loaded[s] /\ (s \in granted' <=> s \in granted)
      BY <1>2, <2>1, OthersStay
    <3>2. KnownOf(s)
      BY DEF Known
    <3>3. QED BY <3>1, <3>2 DEF KnownOf
  <2>2. QED BY <1>2, <2>1, OwnKnown DEF Known
<1>3. QED BY <1>1, <1>2, StepIsMove

-----------------------------------------------------------------------------
(* Types                                                                    *)

LEMMA PcTyped ==
  ASSUME TypeOK, NEW r \in Requests, NEW step \in Steps
  PROVE  [pc EXCEPT ![r] = step] \in [Requests -> Steps]
BY DEF TypeOK

\* The clock can be set back at any time before it has been.
CanBeSetBack == ~wasSetBack => now >= SetBack

LEMMA InitTyped == Init => TypeOK /\ CanBeSetBack
<1> SUFFICES ASSUME Init PROVE TypeOK /\ CanBeSetBack
  OBVIOUS
<1>1. MaxQueueing \in Nat /\ SetBack \in Nat /\ MaxTime \in Nat /\ MaxTime >= MaxQueueing + SetBack
  BY TimeAssumption
<1>2. MaxQueueing + SetBack \in 0..MaxTime /\ 0 \in 0..MaxTime /\ "new" \in Steps
  BY <1>1 DEF Steps
<1>3. now >= SetBack /\ now \in 0..MaxTime
  BY <1>1, <1>2 DEF Init
<1>4. wasSetBack \in BOOLEAN
  BY Zenon DEF Init
<1>5. lastPassedTime \in Int /\ lastSystemTime \in 0..MaxTime /\ delay \in 0..(MaxTime + SetBack)
  BY <1>1, <1>2 DEF Init
<1>6. /\ pc \in [Requests -> Steps] /\ cur \in [Requests -> 0..MaxTime]
      /\ interval \in [Requests -> Nat] /\ loaded \in [Requests -> Int]
      /\ clockRead \in [Requests -> 0..MaxTime] /\ place \in [Requests -> Int]
  BY <1>2 DEF Init
<1>7. granted = {} /\ displaced = {}
  BY DEF Init
<1>8. QED BY <1>3, <1>4, <1>5, <1>6, <1>7 DEF TypeOK, CanBeSetBack

\* The calls have not taken longer than there is time.
LEMMA TakesTyped ==
  ASSUME TypeOK, NEW times, \A t \in times : t \in Int /\ t <= MaxTime + SetBack, Takes(times)
  PROVE  /\ delay' \in 0..(MaxTime + SetBack)
         /\ delay <= delay' /\ \A t \in times : t <= delay'
<1>1. PICK time \in times \cup {delay} : (\A t \in times \cup {delay} : t <= time) /\ delay' = time
  BY DEF Takes
<1>2. delay \in 0..(MaxTime + SetBack) /\ MaxTime + SetBack \in Nat
  BY TimeAssumption DEF TypeOK
<1>3. time \in Int /\ delay <= time /\ time <= MaxTime + SetBack
  BY <1>1, <1>2
<1>4. QED BY <1>1, <1>2, <1>3

\* How the clock goes on ...
LEMMA TickMoves ==
  ASSUME TypeOK, Tick
  PROVE  /\ now' = now + 1 /\ now' \in 0..MaxTime /\ wasSetBack' = wasSetBack
         /\ delay' \in 0..(MaxTime + SetBack) /\ delay <= delay'
         /\ \A r \in Checking : now' - cur[r] <= delay'
<1> DEFINE times == {(now + 1) - cur[r] : r \in Checking}
<1>1. now \in 0..MaxTime /\ MaxTime \in Nat /\ SetBack \in Nat /\ \A r \in Requests : cur[r] \in 0..MaxTime
  BY TimeAssumption DEF TypeOK
<1>2. now' = now + 1 /\ now' \in 0..MaxTime /\ wasSetBack' = wasSetBack
  BY <1>1 DEF Tick
<1>3. \A t \in times : t \in Int /\ t <= MaxTime + SetBack
  BY <1>1, <1>2 DEF Checking
<1>4. Takes(times)
  <2>1. ASSUME NEW r \in Checking PROVE (now + 1) - cur[r] = now + 1 - cur[r]
    BY <1>1 DEF Checking
  <2>2. times = {now + 1 - cur[r] : r \in Checking}
    BY <2>1
  <2>3. QED BY <2>2 DEF Tick
<1>5. \A r \in Checking : (now + 1) - cur[r] \in times
  OBVIOUS
<1> HIDE DEF times
<1>6. delay' \in 0..(MaxTime + SetBack) /\ delay <= delay' /\ \A t \in times : t <= delay'
  BY <1>3, <1>4, TakesTyped
<1>7. ASSUME NEW r \in Checking PROVE now' - cur[r] <= delay'
  <2>1. (now + 1) - cur[r] <= delay'
    BY <1>5, <1>6
  <2>2. QED BY <1>2, <2>1
<1>8. QED BY <1>2, <1>6, <1>7

\* ... and how it is set back.
LEMMA SetBackMoves ==
  ASSUME TypeOK, CanBeSetBack, SetClockBack
  PROVE  /\ now' = now - SetBack /\ now' \in 0..MaxTime /\ ~wasSetBack /\ wasSetBack' = TRUE
         /\ delay' \in 0..(MaxTime + SetBack) /\ delay <= delay'
         /\ \A r \in Checking : SetBack <= delay'
<1> DEFINE times == {SetBack : r \in Checking}
<1>1. now \in 0..MaxTime /\ MaxTime \in Nat /\ SetBack \in Nat
  BY TimeAssumption DEF TypeOK
<1>2. now' = now - SetBack /\ ~wasSetBack /\ wasSetBack' = TRUE /\ Takes(times)
  BY DEF SetClockBack
<1>3. now' \in 0..MaxTime
  BY <1>1, <1>2 DEF CanBeSetBack
<1>4. \A t \in times : t \in Int /\ t <= MaxTime + SetBack
  BY <1>1
<1>5. \A r \in Checking : SetBack \in times
  OBVIOUS
<1> HIDE DEF times
<1>6. delay' \in 0..(MaxTime + SetBack) /\ delay <= delay' /\ \A t \in times : t <= delay'
  BY <1>2, <1>4, TakesTyped
<1>7. QED BY <1>2, <1>3, <1>5, <1>6

\* A request that is granted its place does not wait longer than allowed.
LEMMA GrantTyped ==
  ASSUME TypeOK, NEW r \in Requests, NEW time \in Int, time - cur[r] <= MaxQueueing,
         NEW outdated, outdated \subseteq granted, Grant(r, time, outdated), cur' = cur
  PROVE  /\ granted' \subseteq Requests /\ place' \in [Requests -> Int]
         /\ \A s \in granted' : place'[s] - cur'[s] <= MaxQueueing
         /\ displaced' \subseteq granted'
BY DEF TypeOK, Grant

LEMMA AddTyped ==
  ASSUME TypeOK, NEW r \in Requests, Add(r)
  PROVE  TypeOK'
<1>1. MaxQueueing \in Nat /\ MaxTime \in Nat
  BY TimeAssumption
<1>2. lastPassedTime \in Int /\ interval[r] \in Nat /\ cur[r] \in 0..MaxTime
  BY DEF TypeOK
<1>3. lastPassedTime' = lastPassedTime + interval[r] /\ lastPassedTime' \in Int
  BY <1>2 DEF Add
<1>4. pc' \in [Requests -> Steps]
  <2>1. "rollBack" \in Steps /\ "loadSystem" \in Steps
    BY DEF Steps
  <2>2. QED BY <2>1, PcTyped DEF Add, GoTo
<1>5. /\ granted' \subseteq Requests /\ place' \in [Requests -> Int]
      /\ \A s \in granted' : place'[s] - cur'[s] <= MaxQueueing
      /\ displaced' \subseteq granted'
  <2>1. CASE lastPassedTime' - cur[r] > MaxQueueing
    BY <2>1 DEF Add, answer, locals, TypeOK
  <2>2. CASE ~(lastPassedTime' - cur[r] > MaxQueueing)
    <3>1. PICK time \in Int : time = lastPassedTime'
      BY <1>3
    <3>2. time - cur[r] <= MaxQueueing
      BY <1>1, <1>2, <2>2, <3>1
    <3>3. Grant(r, time, {}) /\ cur' = cur
      BY <2>2, <3>1 DEF Add, locals
    <3>4. QED BY <3>2, <3>3, GrantTyped
  <2>3. QED BY <2>1, <2>2
<1>6. QED BY <1>3, <1>4, <1>5 DEF Add, TypeOK, clock, locals

LEMMA CasPassTyped ==
  ASSUME TypeOK, NEW r \in Requests, NEW step \in Steps, NEW outdated, outdated \subseteq granted,
         CasPass(r, step, outdated)
  PROVE  TypeOK'
<1>1. MaxQueueing \in Nat /\ cur[r] \in 0..MaxTime /\ cur[r] \in Int
  BY TimeAssumption DEF TypeOK
<1>2. pc' \in [Requests -> Steps]
  <2>1. "loadSystem" \in Steps
    BY DEF Steps
  <2>2. QED BY <2>1, PcTyped DEF CasPass, GoTo
<1>3. CASE lastPassedTime = loaded[r]
  <2>1. lastPassedTime' = cur[r] /\ lastPassedTime' \in Int /\ Grant(r, cur[r], outdated) /\ cur' = cur
    BY <1>1, <1>3 DEF CasPass, locals
  <2>2. cur[r] - cur[r] <= MaxQueueing
    BY <1>1
  <2>3. /\ granted' \subseteq Requests /\ place' \in [Requests -> Int]
        /\ \A s \in granted' : place'[s] - cur'[s] <= MaxQueueing
        /\ displaced' \subseteq granted'
    BY <1>1, <2>1, <2>2, GrantTyped
  <2>4. QED BY <1>2, <2>1, <2>3 DEF CasPass, TypeOK, clock, locals
<1>4. CASE lastPassedTime # loaded[r]
  BY <1>2, <1>4 DEF CasPass, TypeOK, clock, locals, answer
<1>5. QED BY <1>3, <1>4

LEMMA StepTyped == TypeOK /\ CanBeSetBack /\ Known /\ [Next]_vars => TypeOK' /\ CanBeSetBack'
<1> SUFFICES ASSUME TypeOK, CanBeSetBack, Known, [Next]_vars PROVE TypeOK' /\ CanBeSetBack'
  OBVIOUS
<1>1. CASE UNCHANGED vars
  BY <1>1 DEF TypeOK, CanBeSetBack, vars, clock, shared, locals, answer
<1>2. CASE Tick \/ SetClockBack
  <2>1. now' \in 0..MaxTime /\ delay' \in 0..(MaxTime + SetBack)
    BY <1>2, TickMoves, SetBackMoves
  <2>2. wasSetBack' \in BOOLEAN /\ CanBeSetBack'
    <3>1. now \in Int /\ SetBack \in Int
      BY TimeAssumption DEF TypeOK
    <3>2. CASE Tick
      BY <3>1, <3>2 DEF Tick, CanBeSetBack, TypeOK
    <3>3. CASE SetClockBack
      BY <3>3 DEF SetClockBack, CanBeSetBack
    <3>4. QED BY <1>2, <3>2, <3>3
  <2>3. UNCHANGED <<shared, pc, locals, answer>>
    BY <1>2 DEF Tick, SetClockBack
  <2>4. QED BY <2>1, <2>2, <2>3 DEF TypeOK, shared, locals, answer
<1>3. ASSUME NEW r \in Requests, Move(r) PROVE TypeOK' /\ CanBeSetBack'
  <2>1. clock' = clock
    BY <1>3 DEF Move, DoCheck, LoadLastPassed, LoadLastSystem, CasSkewed, CasExpected, CasPass, Estimate,
                Add, RollBack, LoadSystem, ReadClock, CasSystem
  <2>2. CanBeSetBack'
    BY <2>1 DEF clock, CanBeSetBack
  <2>3. CASE DoCheck(r)
    <3>1. "loadLastPassed" \in Steps /\ "loadSystem" \in Steps
      BY DEF Steps
    <3>2. pc' \in [Requests -> Steps]
      BY <2>3, <3>1, PcTyped DEF DoCheck, GoTo
    <3>3. interval' \in [Requests -> Nat]
      <4>1. PICK batch \in Batches, threshold \in Thresholds :
              IF batch > 0 /\ threshold > 0
              THEN interval' = [interval EXCEPT ![r] = IntervalOf(batch, threshold)]
              ELSE UNCHANGED interval
        BY <2>3 DEF DoCheck
      <4>2. batch \in Nat /\ threshold \in Nat
        BY TimeAssumption
      <4>3. CASE batch > 0 /\ threshold > 0
        <5>1. IntervalOf(batch, threshold) \in Nat
          BY <4>2, <4>3, IntervalPositive
        <5>2. QED BY <4>1, <4>3, <5>1 DEF TypeOK
      <4>4. CASE ~(batch > 0 /\ threshold > 0)
        BY <4>1, <4>4 DEF TypeOK
      <4>5. QED BY <4>3, <4>4
    <3>4. r \notin granted
      BY <2>3 DEF DoCheck, Known, KnownOf, Leaving
    <3>5. \A s \in granted : s \in Requests /\ cur'[s] = cur[s]
      BY <1>3, <3>4, OthersStay DEF TypeOK
    <3>6. cur' \in [Requests -> 0..MaxTime]
      BY <2>3 DEF DoCheck, TypeOK
    <3>7. QED BY <2>2, <2>3, <3>2, <3>3, <3>5, <3>6 DEF DoCheck, TypeOK, clock, shared, answer
  <2>4. CASE LoadLastPassed(r)
    <3>1. pc' \in [Requests -> Steps]
      BY <2>4, PcTyped DEF LoadLastPassed, GoTo, Steps
    <3>2. QED BY <2>2, <2>4, <3>1 DEF LoadLastPassed, TypeOK, clock, shared, answer
  <2>5. CASE LoadLastSystem(r)
    <3>1. pc' \in [Requests -> Steps]
      BY <2>5, PcTyped DEF LoadLastSystem, GoTo, Steps, Expected
    <3>2. QED BY <2>2, <2>5, <3>1 DEF LoadLastSystem, TypeOK, clock, shared, locals, answer
  <2>6. CASE CasSkewed(r)
    <3>1. Expected(r, loaded[r]) \in Steps
      BY DEF Expected, Steps
    <3>2. QED BY <2>2, <2>6, <3>1, CasPassTyped DEF CasSkewed
  <2>7. CASE CasExpected(r)
    <3>1. "estimate" \in Steps
      BY DEF Steps
    <3>2. QED BY <2>2, <2>7, <3>1, CasPassTyped DEF CasExpected
  <2>8. CASE Estimate(r)
    <3>1. pc' \in [Requests -> Steps]
      BY <2>8, PcTyped DEF Estimate, GoTo, Steps
    <3>2. QED BY <2>2, <2>8, <3>1 DEF Estimate, TypeOK, clock, shared, locals, answer
  <2>9. CASE Add(r)
    BY <2>2, <2>9, AddTyped
  <2>10. CASE RollBack(r)
    <3>1. pc' \in [Requests -> Steps]
      BY <2>10, PcTyped DEF RollBack, GoTo, Steps
    <3>2. lastPassedTime' \in Int
      BY <2>10 DEF RollBack, TypeOK
    <3>3. QED BY <2>2, <2>10, <3>1, <3>2 DEF RollBack, TypeOK, clock, locals, answer
  <2>11. CASE LoadSystem(r)
    <3>1. pc' \in [Requests -> Steps]
      BY <2>11, PcTyped DEF LoadSystem, GoTo, Steps
    <3>2. lastSystemTime \in Int
      BY DEF TypeOK
    <3>3. QED BY <2>2, <2>11, <3>1, <3>2 DEF LoadSystem, TypeOK, clock, shared, answer
  <2>12. CASE ReadClock(r)
    <3>1. pc' \in [Requests -> Steps]
      BY <2>12, PcTyped DEF ReadClock, GoTo, Steps
    <3>2. QED BY <2>2, <2>12, <3>1 DEF ReadClock, TypeOK, clock, shared, answer
  <2>13. CASE CasSystem(r)
    <3>1. pc' \in [Requests -> Steps]
      BY <2>13, PcTyped DEF CasSystem, GoTo, Steps
    <3>2. 0 \in 0..MaxTime /\ 0 \in Int
      BY TimeAssumption
    <3>3. QED BY <2>2, <2>13, <3>1, <3>2 DEF CasSystem, TypeOK, clock, answer
  <2>14. QED BY <1>3, <2>3, <2>4, <2>5, <2>6, <2>7, <2>8, <2>9, <2>10, <2>11, <2>12, <2>13 DEF Move
<1>4. QED BY <1>1, <1>2, <1>3, StepIsMove

\* The values of the variables: nobody is granted a place further ahead of its
\* reading of the clock than the longest queue, whatever requests do to
\* lastPassedTime at the same time and however long their calls take.
THEOREM TypeCorrect == Spec => []TypeOK
<1>1. Spec => [](TypeOK /\ CanBeSetBack /\ Known)
  BY InitTyped, InitKnown, StepTyped, StepKnown, PTL DEF Spec
<1>2. QED BY <1>1, PTL

-----------------------------------------------------------------------------
(* The end of the queue                                                     *)

\* The refused requests that have yet to take back what they added.
Rollers == { r \in Requests : pc[r] = "rollBack" }

\* The end of the queue: lastPassedTime without what refused requests added.
QueueEnd(end) == Stacked(Rollers, interval, end, lastPassedTime)

\* Request r is granted its place, and the queue ends at newEnd now: at that
\* place, or before it when others have yet to roll back.
Granting(r, outdated, newEnd) ==
  /\ Grant(r, lastPassedTime', outdated)
  /\ pc'[r] = "loadSystem"
  /\ UNCHANGED <<cur, interval>>
  /\ newEnd <= lastPassedTime'
  /\ Rollers = {} => newEnd = lastPassedTime'
  /\ QueueEnd(newEnd)'

\* A step of a request that grants nothing leaves the end of the queue where it is.
NotGranting(end) == UNCHANGED answer /\ QueueEnd(end)'

LEMMA RollersTyped ==
  ASSUME TypeOK
  PROVE  \A x \in Rollers : interval[x] \in Nat
BY DEF TypeOK, Rollers

\* With nobody who has to roll back, the queue ends at lastPassedTime.
LEMMA EndIsLast ==
  ASSUME TypeOK, NEW end \in Int, QueueEnd(end)
  PROVE  end <= lastPassedTime /\ (Rollers = {} => end = lastPassedTime)
<1>1. lastPassedTime \in Int /\ \A x \in Rollers : interval[x] \in Nat
  BY RollersTyped DEF TypeOK
<1>2. end <= lastPassedTime
  BY <1>1, StackedHolds DEF QueueEnd
<1>3. ASSUME Rollers = {} PROVE end = lastPassedTime
  <2>1. Stacked({}, interval, end, lastPassedTime)
    BY <1>3 DEF QueueEnd
  <2>2. QED BY <2>1, EmptyStacked
<1>4. QED BY <1>2, <1>3

\* Nothing but Add and RollBack changes who has to roll back.
LEMMA RollersStay ==
  ASSUME TypeOK, NEW r \in Requests, Move(r), ~Add(r), ~RollBack(r)
  PROVE  Rollers' = Rollers /\ \A x \in Rollers : interval[x] = interval'[x]
<1>1. pc[r] # "rollBack" /\ pc'[r] # "rollBack"
  BY DEF Move, TypeOK, GoTo, Expected, DoCheck, LoadLastPassed, LoadLastSystem, CasSkewed, CasExpected,
         CasPass, Estimate, LoadSystem, ReadClock, CasSystem
<1>2. \A s \in Requests : s # r => pc'[s] = pc[s] /\ interval'[s] = interval[s]
  BY OthersStay
<1>3. Rollers' = Rollers
  BY <1>1, <1>2 DEF Rollers
<1>4. QED BY <1>1, <1>2, <1>3 DEF Rollers

LEMMA EndShifts ==
  ASSUME TypeOK, NEW end \in Int, QueueEnd(end), NEW d \in Int
  PROVE  /\ Stacked(Rollers, interval, end + d, lastPassedTime + d)
         /\ end + d <= lastPassedTime + d /\ (Rollers = {} => end + d = lastPassedTime + d)
<1>1. lastPassedTime \in Int
  BY DEF TypeOK
<1>2. \A x \in Rollers : interval[x] \in Nat
  BY RollersTyped
<1>3. Stacked(Rollers, interval, end, lastPassedTime)
  BY DEF QueueEnd
<1>4. Stacked(Rollers, interval, end + d, lastPassedTime + d)
  BY <1>1, <1>2, <1>3, StackedShift
<1>5. end <= lastPassedTime /\ (Rollers = {} => end = lastPassedTime)
  BY EndIsLast
<1>6. QED BY <1>1, <1>4, <1>5

\* A swap of lastPassedTime moves the end of the queue as far.
Swapping(r, outdated) ==
  /\ lastPassedTime = loaded[r]
  /\ \/ CasSkewed(r) /\ outdated = granted
     \/ CasExpected(r) /\ outdated = {}

LEMMA PassMovesEnd ==
  ASSUME TypeOK, NEW r \in Requests, NEW outdated, Swapping(r, outdated), NEW end \in Int, QueueEnd(end)
  PROVE  /\ lastPassedTime' = cur[r]
         /\ Granting(r, outdated, end + (cur[r] - lastPassedTime))
<1>1. lastPassedTime \in Int /\ cur[r] \in Int
  BY DEF TypeOK
<1>2. /\ lastPassedTime' = cur[r] /\ Grant(r, cur[r], outdated) /\ GoTo(r, "loadSystem")
      /\ interval' = interval /\ cur' = cur
  BY DEF Swapping, CasSkewed, CasExpected, CasPass, locals
<1>3. Rollers' = Rollers
  BY RollersStay DEF Move, Swapping, CasSkewed, CasExpected, Add, RollBack
<1>4. PICK d \in Int : d = cur[r] - lastPassedTime
  BY <1>1
<1>5. /\ Stacked(Rollers, interval, end + d, lastPassedTime + d)
      /\ end + d <= lastPassedTime + d /\ (Rollers = {} => end + d = lastPassedTime + d)
  BY EndShifts
<1>6. lastPassedTime + d = lastPassedTime'
  BY <1>1, <1>2, <1>4
<1>7. QueueEnd(end + d)'
  BY <1>2, <1>3, <1>5, <1>6 DEF QueueEnd
<1>8. pc'[r] = "loadSystem"
  BY <1>2 DEF GoTo, TypeOK
<1>9. Granting(r, outdated, end + d)
  BY <1>2, <1>5, <1>6, <1>7, <1>8 DEF Granting
<1>10. QED BY <1>2, <1>4, <1>9

\* Whoever adds is granted a place behind all the others, or has to roll back.
LEMMA AddMovesEnd ==
  ASSUME TypeOK, NEW r \in Requests, Add(r), NEW end \in Int, QueueEnd(end)
  PROVE  /\ lastPassedTime' = lastPassedTime + interval[r]
         /\ IF lastPassedTime' - cur[r] > MaxQueueing
            THEN NotGranting(end)
            ELSE Granting(r, {}, end + interval[r])
<1>1. lastPassedTime \in Int /\ interval[r] \in Nat /\ interval[r] \in Int
  BY DEF TypeOK
<1>2. pc[r] = "add" /\ lastPassedTime' = lastPassedTime + interval[r] /\ interval' = interval /\ cur' = cur
  BY DEF Add, locals
<1>3. \A s \in Requests : s # r => pc'[s] = pc[s]
  BY OthersStay DEF Move
<1>4. CASE lastPassedTime' - cur[r] > MaxQueueing
  <2>1. GoTo(r, "rollBack") /\ UNCHANGED answer
    BY <1>4 DEF Add
  <2>2. Rollers' = Rollers \cup {r} /\ r \notin Rollers
    BY <1>2, <1>3, <2>1 DEF Rollers, GoTo, TypeOK
  <2>3. \A x \in Rollers \cup {r} : interval[x] \in Nat
    BY <1>1, RollersTyped
  <2>4. Stacked(Rollers \cup {r}, interval, end, lastPassedTime + interval[r])
    BY <1>1, <2>2, <2>3, StackedAdd DEF QueueEnd
  <2>5. QueueEnd(end)'
    BY <1>2, <2>2, <2>4 DEF QueueEnd
  <2>6. QED BY <1>2, <1>4, <2>1, <2>5 DEF NotGranting
<1>5. CASE ~(lastPassedTime' - cur[r] > MaxQueueing)
  <2>1. GoTo(r, "loadSystem") /\ Grant(r, lastPassedTime', {})
    BY <1>5 DEF Add
  <2>2. pc'[r] = "loadSystem"
    BY <2>1 DEF GoTo, TypeOK
  <2>3. Rollers' = Rollers
    BY <1>2, <1>3, <2>2 DEF Rollers
  <2>4. /\ Stacked(Rollers, interval, end + interval[r], lastPassedTime + interval[r])
        /\ end + interval[r] <= lastPassedTime + interval[r]
        /\ Rollers = {} => end + interval[r] = lastPassedTime + interval[r]
    BY <1>1, EndShifts
  <2>5. QueueEnd(end + interval[r])'
    BY <1>2, <2>3, <2>4 DEF QueueEnd
  <2>6. QED BY <1>2, <1>5, <2>1, <2>2, <2>4, <2>5 DEF Granting
<1>6. QED BY <1>4, <1>5

LEMMA RollBackKeepsEnd ==
  ASSUME TypeOK, NEW r \in Requests, RollBack(r), NEW end \in Int, QueueEnd(end)
  PROVE  NotGranting(end)
<1>1. lastPassedTime \in Int
  BY DEF TypeOK
<1>2. \A s \in Requests : s # r => pc'[s] = pc[s]
  BY OthersStay DEF Move
<1>3. pc[r] = "rollBack" /\ pc'[r] = "loadSystem"
  BY DEF RollBack, GoTo, TypeOK
<1>4. r \in Rollers /\ Rollers' = Rollers \ {r}
  BY <1>2, <1>3 DEF Rollers
<1>5. Stacked(Rollers \ {r}, interval, end, lastPassedTime - interval[r])
  BY <1>1, <1>4, StackedRemove, RollersTyped DEF QueueEnd
<1>6. lastPassedTime' = lastPassedTime - interval[r] /\ interval' = interval /\ UNCHANGED answer
  BY DEF RollBack, locals
<1>7. QED BY <1>4, <1>5, <1>6 DEF NotGranting, QueueEnd

\* The other steps touch neither the queue nor an answer.
Quiet(r) ==
  \/ DoCheck(r) \/ LoadLastPassed(r) \/ LoadLastSystem(r) \/ Estimate(r)
  \/ LoadSystem(r) \/ ReadClock(r) \/ CasSystem(r)
  \/ (CasSkewed(r) \/ CasExpected(r)) /\ lastPassedTime # loaded[r]

LEMMA QuietKeepsEnd ==
  ASSUME TypeOK, NEW r \in Requests, Quiet(r), NEW end \in Int, QueueEnd(end)
  PROVE  NotGranting(end)
<1>1. Move(r)
  BY DEF Move, Quiet
<1>2. pc[r] # "add" /\ pc[r] # "rollBack"
  BY DEF Quiet, DoCheck, LoadLastPassed, LoadLastSystem, Estimate, LoadSystem, ReadClock, CasSystem,
         CasSkewed, CasExpected
<1>3. ~Add(r) /\ ~RollBack(r)
  BY <1>2 DEF Add, RollBack
<1>4. Rollers' = Rollers /\ \A x \in Rollers : interval[x] = interval'[x]
  BY <1>1, <1>3, RollersStay
<1>5. lastPassedTime' = lastPassedTime /\ UNCHANGED answer
  BY DEF Quiet, DoCheck, LoadLastPassed, LoadLastSystem, Estimate, LoadSystem, ReadClock, CasSystem,
         CasSkewed, CasExpected, CasPass, shared
<1>6. Stacked(Rollers, interval', end, lastPassedTime)
  BY <1>4, StackedSame DEF QueueEnd
<1>7. QED BY <1>4, <1>5, <1>6 DEF NotGranting, QueueEnd

\* So there are two kinds of steps.
LEMMA MoveKinds ==
  ASSUME TypeOK, NEW r \in Requests, Move(r), NEW end \in Int, QueueEnd(end)
  PROVE  \/ Quiet(r) \/ RollBack(r) \/ (Add(r) /\ lastPassedTime' - cur[r] > MaxQueueing)
         \/ \E outdated : Swapping(r, outdated)
         \/ Add(r) /\ ~(lastPassedTime' - cur[r] > MaxQueueing)
BY DEF Move, Quiet, Swapping

-----------------------------------------------------------------------------
(* The places in the queue                                                  *)

\* No place in line lies behind the end of the queue, and some place is not
\* before it.
EndsWithGrant(end) ==
  /\ \A r \in InLine : place[r] <= end
  /\ granted # {} => \E r \in granted : end <= place[r]

InQueue(end) == QueueEnd(end) /\ EndsWithGrant(end)

Queue == Spacing /\ \E end \in Int : InQueue(end)

\* Who is granted keeps the interval it asked with.
LEMMA IntervalStays ==
  ASSUME TypeOK, Known, NEW r \in Requests, Move(r), NEW s \in granted
  PROVE  s \in Requests /\ interval'[s] = interval[s]
<1>1. s \in Requests
  BY DEF TypeOK
<1>2. CASE s # r
  BY <1>1, <1>2, OthersStay
<1>3. CASE s = r
  <2>1. ~DoCheck(r)
    BY <1>3 DEF DoCheck, Known, KnownOf, Leaving
  <2>2. QED BY <1>1, <1>3, <2>1 DEF Move, locals, LoadLastPassed, LoadLastSystem, CasSkewed, CasExpected,
               CasPass, Estimate, Add, RollBack, LoadSystem, ReadClock, CasSystem
<1>4. QED BY <1>2, <1>3

\* A step that grants nothing keeps the queue in order.
LEMMA NoGrantQueue ==
  ASSUME TypeOK, Known, NEW r \in Requests, Move(r), Spacing,
         NEW end \in Int, InQueue(end), NotGranting(end)
  PROVE  Queue'
<1>1. granted' = granted /\ place' = place /\ InLine' = InLine
  BY DEF NotGranting, answer, InLine
<1>2. \A s \in InLine : interval'[s] = interval[s]
  BY IntervalStays DEF InLine
<1>3. Spacing'
  BY <1>1, <1>2 DEF Spacing
<1>4. InQueue(end)'
  BY <1>1 DEF InQueue, EndsWithGrant, NotGranting
<1>5. QED BY <1>3, <1>4 DEF Queue

\* Nor does one that grants a place at least the interval behind the others, or
\* after which the others no longer count.
LEMMA GrantQueue ==
  ASSUME TypeOK, Known, NEW r \in Requests, r \notin granted, interval[r] >= 1, Spacing,
         NEW end \in Int, InQueue(end), NEW outdated, NEW newEnd \in Int, Granting(r, outdated, newEnd),
         lastPassedTime' \in Int,
         outdated = granted \/ (outdated = {} /\ newEnd >= end + interval[r])
  PROVE  Queue'
<1>1. /\ granted' = granted \cup {r} /\ place'[r] = lastPassedTime' /\ interval' = interval
      /\ \A s \in granted : place'[s] = place[s]
      /\ displaced' = displaced \cup outdated \cup {s \in {r} : \E t \in Requests : pc[t] = "rollBack"}
  BY DEF Granting, Grant, TypeOK
<1>2. InLine' \subseteq granted \cup {r} /\ (r \in InLine' => Rollers = {})
  BY <1>1 DEF InLine, Rollers
<1>3. /\ end \in Int /\ newEnd \in Int /\ newEnd <= lastPassedTime' /\ interval[r] \in Nat
      /\ (Rollers = {} => newEnd = lastPassedTime')
      /\ \A s \in granted : place[s] \in Int
  BY DEF TypeOK, Granting
\* An earlier place that still counts lies the interval or more before the new end.
<1>4. ASSUME NEW s \in InLine', s # r
      PROVE  s \in InLine /\ place'[s] = place[s] /\ place[s] \in Int /\ place[s] + interval[r] <= newEnd
  <2>1. s \in InLine /\ s \in granted /\ outdated # granted
    BY <1>1, <1>4 DEF InLine
  <2>2. place[s] <= end
    BY <2>1 DEF InQueue, EndsWithGrant
  <2>3. newEnd >= end + interval[r]
    BY <2>1
  <2>4. place'[s] = place[s] /\ place[s] \in Int
    BY <1>1, <1>3, <2>1
  <2>5. QED BY <1>3, <2>1, <2>2, <2>3, <2>4
<1>5. EndsWithGrant(newEnd)'
  <2>1. ASSUME NEW s \in InLine' PROVE place'[s] <= newEnd
    <3>1. CASE s = r
      BY <1>1, <1>2, <1>3, <2>1, <3>1
    <3>2. CASE s # r
      BY <1>3, <1>4, <3>2
    <3>3. QED BY <3>1, <3>2
  <2>2. r \in granted' /\ newEnd <= place'[r]
    BY <1>1, <1>3
  <2>3. QED BY <2>1, <2>2 DEF EndsWithGrant
<1>6. Spacing'
  <2>1. SUFFICES ASSUME NEW s \in InLine', NEW t \in InLine', s # t, place'[s] <= place'[t]
                 PROVE  place'[t] - place'[s] >= interval'[t]
    BY DEF Spacing
  <2>2. CASE t = r
    <3>1. place'[t] = newEnd
      BY <1>1, <1>2, <1>3, <2>2
    <3>2. QED BY <1>1, <1>3, <1>4, <2>1, <2>2, <3>1
  <2>3. CASE s = r
    <3>1. place'[s] = newEnd
      BY <1>1, <1>2, <1>3, <2>3
    <3>2. place'[t] \in Int /\ place'[t] + interval[r] <= newEnd
      BY <1>4, <2>1, <2>3
    <3>3. QED BY <1>3, <2>1, <3>1, <3>2
  <2>4. CASE s # r /\ t # r
    <3>1. s \in InLine /\ t \in InLine /\ place'[s] = place[s] /\ place'[t] = place[t]
      BY <1>4, <2>4
    <3>2. QED BY <1>1, <2>1, <3>1 DEF Spacing
  <2>5. QED BY <2>2, <2>3, <2>4
<1>7. InQueue(newEnd)'
  BY <1>5 DEF InQueue, Granting
<1>8. QED BY <1>6, <1>7 DEF Queue

LEMMA MoveQueue ==
  ASSUME TypeOK, Known, Queue, NEW r \in Requests, Move(r)
  PROVE  Queue'
<1>1. PICK end \in Int : InQueue(end)
  BY DEF Queue
<1>2. Spacing /\ QueueEnd(end)
  BY <1>1 DEF Queue, InQueue
<1>3. /\ lastPassedTime \in Int /\ cur[r] \in Int /\ interval[r] \in Nat
      /\ KnownOf(r)
  BY DEF TypeOK, Known
<1>4. CASE Quiet(r) \/ RollBack(r) \/ (Add(r) /\ lastPassedTime' - cur[r] > MaxQueueing)
  <2>1. NotGranting(end)
    BY <1>2, <1>4, QuietKeepsEnd, RollBackKeepsEnd, AddMovesEnd
  <2>2. QED BY <1>1, <1>2, <2>1, NoGrantQueue
<1>5. ASSUME NEW outdated, Swapping(r, outdated) PROVE Queue'
  <2>1. lastPassedTime' = cur[r] /\ Granting(r, outdated, end + (cur[r] - lastPassedTime))
    BY <1>2, <1>5, PassMovesEnd
  <2>2. PICK newEnd \in Int : newEnd = end + (cur[r] - lastPassedTime)
    BY <1>3
  <2>3. pc[r] \in {"casSkewed", "casPass"}
    BY <1>5 DEF Swapping, CasSkewed, CasExpected
  <2>4. r \notin granted /\ interval[r] >= 1
    BY <1>3, <2>3 DEF KnownOf, Asking, Leaving
  <2>5. outdated = granted \/ (outdated = {} /\ newEnd >= end + interval[r])
    <3>1. CASE outdated = {} /\ CasExpected(r)
      <4>1. pc[r] = "casPass" /\ loaded[r] = lastPassedTime
        BY <1>5, <3>1 DEF CasExpected, Swapping
      <4>2. lastPassedTime + interval[r] <= cur[r]
        BY <1>3, <4>1 DEF KnownOf
      <4>3. QED BY <1>3, <2>2, <3>1, <4>2
    <3>2. QED BY <1>5, <3>1 DEF Swapping
  <2>6. QED BY <1>1, <1>2, <1>3, <2>1, <2>2, <2>4, <2>5, GrantQueue
<1>6. CASE Add(r) /\ ~(lastPassedTime' - cur[r] > MaxQueueing)
  <2>1. lastPassedTime' = lastPassedTime + interval[r] /\ Granting(r, {}, end + interval[r])
    BY <1>2, <1>6, AddMovesEnd
  <2>2. PICK newEnd \in Int : newEnd = end + interval[r]
    BY <1>3
  <2>3. r \notin granted /\ interval[r] >= 1
    BY <1>3, <1>6 DEF Add, KnownOf, Asking, Leaving
  <2>4. lastPassedTime' \in Int /\ newEnd >= end + interval[r]
    BY <1>3, <2>1, <2>2
  <2>5. QED BY <1>1, <1>2, <2>1, <2>2, <2>3, <2>4, GrantQueue
<1>7. QED BY <1>2, <1>4, <1>5, <1>6, MoveKinds

LEMMA InitQueue == Init => Queue
<1> SUFFICES ASSUME Init PROVE Queue
  OBVIOUS
<1>1. Rollers = {} /\ lastPassedTime = 0 /\ granted = {} /\ InLine = {}
  BY DEF Init, Rollers, InLine
<1>2. QueueEnd(0)
  BY <1>1, StackedEmpty DEF QueueEnd
<1>3. Spacing /\ EndsWithGrant(0)
  BY <1>1 DEF Spacing, EndsWithGrant
<1>4. QED BY <1>2, <1>3 DEF Queue, InQueue

LEMMA StepQueue ==
  ASSUME TypeOK, Known, Queue, [Next]_vars
  PROVE  Queue'
<1>1. CASE UNCHANGED vars \/ Tick \/ SetClockBack
  <2>1. UNCHANGED <<shared, pc, locals, answer>>
    BY <1>1 DEF vars, Tick, SetClockBack
  <2>2. QED BY <2>1 DEF shared, locals, answer, Queue, InQueue, Spacing, InLine, QueueEnd, Rollers,
               EndsWithGrant
<1>2. ASSUME NEW r \in Requests, Move(r) PROVE Queue'
  BY <1>2, MoveQueue
<1>3. QED BY <1>1, <1>2, StepIsMove

LEMMA QueueInOrder == Spec => [](TypeOK /\ Queue)
<1> DEFINE Inv == TypeOK /\ CanBeSetBack /\ Known /\ Queue
<1>1. Init => Inv
  BY InitTyped, InitKnown, InitQueue
<1>2. Inv /\ [Next]_vars => Inv'
  BY StepTyped, StepKnown, StepQueue
<1>3. QED BY <1>1, <1>2, PTL DEF Spec

\* Of two places in the queue the later one is its own interval or more behind
\* the earlier one, whatever requests do to lastPassedTime at the same time and
\* whatever the clock does; but for the places of displaced requests.
THEOREM RequestsKeepDistance == Spec => []Spacing
<1>1. Queue => Spacing
  BY DEF Queue
<1>2. QED BY <1>1, QueueInOrder, PTL

\* With nobody inside DoCheck the end of the queue is the last place granted,
\* so every refused request has taken back exactly what it added, and no grant
\* was lost; only displaced requests may have places beyond the end.
THEOREM QueueEndsWithGrant == Spec => []QueueIsGrants
<1>1. ASSUME TypeOK, Queue PROVE QueueIsGrants
  <2>1. PICK end \in Int : InQueue(end)
    BY <1>1 DEF Queue
  <2>2. ASSUME Checking = {} PROVE end = lastPassedTime
    <3>1. Rollers = {}
      BY <2>2 DEF Checking, Rollers
    <3>2. QED BY <1>1, <2>1, <3>1, EndIsLast DEF InQueue
  <2>3. \A r \in InLine : place[r] <= end
    BY <2>1 DEF InQueue, EndsWithGrant
  <2>4. granted # {} => \E r \in granted : end <= place[r]
    BY <2>1 DEF InQueue, EndsWithGrant
  <2>5. QED BY <2>2, <2>3, <2>4 DEF QueueIsGrants
<1>2. QED BY <1>1, QueueInOrder, PTL

-----------------------------------------------------------------------------
(* The clock is set back                                                    *)

\* How far the readings of a call under way may lie from the clock.  Until the
\* clock is set back it only goes on; whoever is about to swap lastSystemTime
\* finds it as it was, or swapped by a call that is not much older.
TimedOf(r) ==
  /\ pc[r] \notin {"new", "done"} => cur[r] <= now + delay /\ now <= cur[r] + delay
  /\ pc[r] \notin {"new", "done"} /\ ~wasSetBack =>
       /\ cur[r] <= now
       /\ pc[r] = "casSystem" => cur[r] <= clockRead[r]
       /\ pc[r] \in {"readClock", "casSystem"} =>
            loaded[r] = lastSystemTime \/ cur[r] <= lastSystemTime + delay

Timed == \A r \in Requests : TimedOf(r)

LEMMA TimeTyped ==
  ASSUME TypeOK, NEW r \in Requests
  PROVE  /\ now \in Int /\ delay \in Nat /\ lastSystemTime \in Int /\ lastPassedTime \in Int
         /\ cur[r] \in Int /\ clockRead[r] \in Int /\ loaded[r] \in Int /\ interval[r] \in Nat
         /\ MaxQueueing \in Nat /\ Tolerance \in Nat /\ SetBack \in Nat
BY TimeAssumption DEF TypeOK

\* lastSystemTime is left alone, or becomes what a call under way has read.
LEMMA SystemTime ==
  ASSUME TypeOK, Timed, NEW r \in Requests, Move(r)
  PROVE  \/ lastSystemTime' = lastSystemTime
         \/ CasSystem(r) /\ (~wasSetBack => now <= lastSystemTime' + delay)
<1>1. CASE CasSystem(r) /\ lastSystemTime' = clockRead[r]
  <2>1. ~wasSetBack => cur[r] <= clockRead[r] /\ now <= cur[r] + delay
    BY <1>1 DEF CasSystem, Timed, TimedOf
  <2>2. ~wasSetBack => now <= clockRead[r] + delay
    BY <2>1, TimeTyped
  <2>3. QED BY <1>1, <2>2
<1>2. QED BY <1>1 DEF Move, shared, DoCheck, LoadLastPassed, LoadLastSystem, CasSkewed, CasExpected, CasPass,
             Estimate, Add, RollBack, LoadSystem, ReadClock, CasSystem

LEMMA OwnTimed ==
  ASSUME TypeOK, Timed, NEW r \in Requests, Move(r)
  PROVE  TimedOf(r)'
<1>1. now' = now /\ wasSetBack' = wasSetBack /\ delay' = delay
  BY ClockStays
<1>2. /\ now \in Int /\ delay \in Nat /\ lastSystemTime \in Int /\ cur[r] \in Int
      /\ TimedOf(r)
  BY TimeTyped DEF Timed
<1>3. CASE DoCheck(r)
  <2>1. cur'[r] = now /\ pc'[r] \in {"loadLastPassed", "loadSystem"}
    BY <1>3 DEF DoCheck, GoTo, TypeOK
  <2>2. QED BY <1>1, <1>2, <2>1 DEF TimedOf
<1>4. CASE LoadSystem(r)
  <2>1. pc[r] = "loadSystem" /\ pc'[r] = "readClock" /\ cur'[r] = cur[r]
        /\ loaded'[r] = lastSystemTime /\ lastSystemTime' = lastSystemTime
    BY <1>4 DEF LoadSystem, GoTo, TypeOK, shared
  <2>2. QED BY <1>1, <1>2, <2>1 DEF TimedOf
<1>5. CASE ReadClock(r)
  <2>1. pc[r] = "readClock" /\ pc'[r] = "casSystem" /\ cur'[r] = cur[r] /\ clockRead'[r] = now
        /\ loaded'[r] = loaded[r] /\ lastSystemTime' = lastSystemTime
    BY <1>5 DEF ReadClock, GoTo, TypeOK, shared
  <2>2. QED BY <1>1, <1>2, <2>1 DEF TimedOf
<1>6. CASE CasSystem(r)
  <2>1. pc'[r] = "done"
    BY <1>6 DEF CasSystem, GoTo, TypeOK
  <2>2. QED BY <2>1 DEF TimedOf
<1>7. CASE ~DoCheck(r) /\ ~LoadSystem(r) /\ ~ReadClock(r) /\ ~CasSystem(r)
  <2>1. pc[r] \notin {"new", "done"} /\ cur'[r] = cur[r]
    BY <1>7 DEF Move, locals, LoadLastPassed, LoadLastSystem, CasSkewed, CasExpected, CasPass, Estimate,
                Add, RollBack
  <2>2. pc'[r] \notin {"readClock", "casSystem"}
    BY <1>7 DEF Move, GoTo, TypeOK, Expected, LoadLastPassed, LoadLastSystem, CasSkewed, CasExpected, CasPass,
                Estimate, Add, RollBack
  <2>3. QED BY <1>1, <1>2, <2>1, <2>2 DEF TimedOf
<1>8. QED BY <1>3, <1>4, <1>5, <1>6, <1>7

LEMMA MoveTimed ==
  ASSUME TypeOK, Timed, NEW r \in Requests, Move(r)
  PROVE  Timed'
<1>1. now' = now /\ wasSetBack' = wasSetBack /\ delay' = delay
  BY ClockStays
<1>2. ASSUME NEW s \in Requests, s # r PROVE TimedOf(s)'
  <2>1. /\ pc'[s] = pc[s] /\ cur'[s] = cur[s] /\ loaded'[s] = loaded[s] /\ clockRead'[s] = clockRead[s]
        /\ TimedOf(s)
    BY <1>2, OthersStay DEF Timed
  <2>2. CASE lastSystemTime' = lastSystemTime
    BY <1>1, <2>1, <2>2 DEF TimedOf
  <2>3. CASE ~wasSetBack => now <= lastSystemTime' + delay
    <3>1. lastSystemTime' \in Int
      BY TimeTyped DEF TypeOK, Move, shared, DoCheck, LoadLastPassed, LoadLastSystem, CasSkewed, CasExpected,
             CasPass, Estimate, Add, RollBack, LoadSystem, ReadClock, CasSystem
    <3>2. ASSUME ~wasSetBack, cur[s] <= now PROVE cur[s] <= lastSystemTime' + delay
      BY <2>3, <3>1, <3>2, TimeTyped
    <3>3. QED BY <1>1, <2>1, <3>2 DEF TimedOf
  <2>4. QED BY <2>2, <2>3, SystemTime
<1>3. QED BY <1>2, OwnTimed DEF Timed

LEMMA ClockTimed ==
  ASSUME TypeOK, CanBeSetBack, Timed, Tick \/ SetClockBack
  PROVE  Timed'
<1>1. UNCHANGED <<pc, cur, loaded, clockRead, lastSystemTime>>
  BY DEF Tick, SetClockBack, shared, locals
<1>2. ASSUME NEW r \in Requests, pc[r] \notin {"new", "done"} PROVE TimedOf(r)'
  <2>1. r \in Checking /\ TimedOf(r)
    BY <1>2 DEF Checking, Timed
  <2>2. /\ now \in Int /\ delay \in Nat /\ lastSystemTime \in Int /\ cur[r] \in Int /\ SetBack \in Nat
    BY TimeTyped
  <2>0. PICK d \in Int : d = delay' /\ delay <= d
    <3>1. delay' \in 0..(MaxTime + SetBack) /\ delay <= delay'
      BY TickMoves, SetBackMoves
    <3>2. \A n \in 0..(MaxTime + SetBack) : n \in Int
      OBVIOUS
    <3>3. QED BY <3>1, <3>2, Zenon
  <2>10. delay <= d
    BY <2>0
  <2>3. cur[r] <= now + delay /\ now <= cur[r] + delay
    BY <1>2, <2>1 DEF TimedOf
  <2>4. CASE Tick
    <3>1. now' = now + 1 /\ wasSetBack' = wasSetBack /\ now' - cur[r] <= d
      BY <2>0, <2>1, <2>4, TickMoves
    <3>2. cur[r] <= now' + d /\ now' <= cur[r] + d
      BY <2>2, <2>3, <2>10, <3>1
    <3>3. ASSUME ~wasSetBack
          PROVE  /\ cur[r] <= now'
                 /\ pc[r] = "casSystem" => cur[r] <= clockRead[r]
                 /\ pc[r] \in {"readClock", "casSystem"} =>
                      loaded[r] = lastSystemTime \/ cur[r] <= lastSystemTime + d
      BY <1>2, <2>1, <2>2, <2>10, <3>1, <3>3 DEF TimedOf
    <3>4. QED BY <1>1, <2>0, <3>1, <3>2, <3>3 DEF TimedOf
  <2>5. CASE SetClockBack
    <3>1. now' = now - SetBack /\ ~wasSetBack /\ wasSetBack' /\ SetBack <= d
      BY <2>0, <2>1, <2>5, SetBackMoves
    <3>2. cur[r] <= now
      BY <1>2, <2>1, <3>1 DEF TimedOf
    <3>3. cur[r] <= now' + d /\ now' <= cur[r] + d
      BY <2>2, <2>3, <2>10, <3>1, <3>2
    <3>4. QED BY <1>1, <2>0, <3>1, <3>3 DEF TimedOf
  <2>6. QED BY <2>4, <2>5
<1>3. ASSUME NEW r \in Requests, pc[r] \in {"new", "done"} PROVE TimedOf(r)'
  BY <1>1, <1>3 DEF TimedOf
<1>4. QED BY <1>2, <1>3 DEF Timed

LEMMA InitTimed == Init => Timed
BY DEF Init, Timed, TimedOf

LEMMA StepTimed ==
  ASSUME TypeOK, CanBeSetBack, Timed, [Next]_vars
  PROVE  Timed'
<1>1. CASE UNCHANGED vars
  BY <1>1 DEF vars, clock, shared, locals, Timed, TimedOf
<1>2. QED BY <1>1, ClockTimed, MoveTimed, StepIsMove

-----------------------------------------------------------------------------
(* How far the queue reaches                                                *)

\* Requests that have been skipped, or are about to be.
Skipping == { r \in Requests : pc[r] \in Leaving /\ interval[r] = 0 }

\* The queue reaches no further than queueing, the tolerance and the duration
\* of the calls explain.
Bounded(end) == end <= now + MaxQueueing + Tolerance + delay

\* The queue reaches too far ahead, because the clock is back, and every request
\* that has come since will see it.
Seen(end) ==
  /\ lastSystemTime > now + Tolerance
  /\ end <= lastSystemTime + MaxQueueing + delay
  /\ wasSetBack
  /\ \A r \in Requests :
       /\ pc[r] \in {"new", "loadLastPassed", "loadLastSystem", "casSkewed", "done"}
       /\ pc[r] \notin {"new", "done"} => cur[r] <= now
       /\ pc[r] \in {"loadLastSystem", "casSkewed"} => loaded[r] = lastPassedTime

\* Before the clock is set back the queue is no longer than allowed, also seen
\* from the time the last request left, but for the duration of its call.
Refreshed(end) ==
  /\ end <= now + MaxQueueing
  /\ \/ end <= lastSystemTime + MaxQueueing + delay
     \/ \E r \in Requests :
          pc[r] \in {"loadSystem", "readClock", "casSystem"} /\ end <= cur[r] + MaxQueueing

Reach(end) ==
  /\ QueueEnd(end)
  /\ Bounded(end) \/ Seen(end)
  /\ ~wasSetBack => Refreshed(end)

Skew == Skipping = {} => \E end \in Int : Reach(end)

\* Whoever has been skipped stays skipped.
LEMMA SkippedStay ==
  ASSUME TypeOK, NEW r \in Requests, Move(r), Skipping' = {}
  PROVE  Skipping = {}
<1>1. SUFFICES ASSUME NEW s \in Requests, pc[s] \in Leaving, interval[s] = 0
               PROVE  FALSE
  BY DEF Skipping
<1>2. pc'[s] \in Leaving /\ interval'[s] = 0
  <2>1. CASE s # r
    BY <1>1, <2>1, OthersStay
  <2>2. CASE s = r
    <3>1. LoadSystem(r) \/ ReadClock(r) \/ CasSystem(r)
      BY <1>1, <2>2 DEF Leaving, Move, DoCheck, LoadLastPassed, LoadLastSystem, CasSkewed, CasExpected,
                        Estimate, Add, RollBack
    <3>2. QED BY <1>1, <2>2, <3>1 DEF Leaving, LoadSystem, ReadClock, CasSystem, GoTo, locals, TypeOK
  <2>3. QED BY <2>1, <2>2
<1>3. QED BY <1>2 DEF Skipping

\* A grant brings the queue within its bounds.
LEMMA GrantSkew ==
  ASSUME TypeOK, Timed, NEW r \in Requests, Move(r), NEW outdated, NEW newEnd \in Int,
         Granting(r, outdated, newEnd), newEnd <= cur[r] + MaxQueueing, pc[r] \notin {"new", "done"}
  PROVE  Skew'
<1>1. /\ now' = now /\ wasSetBack' = wasSetBack /\ delay' = delay
      /\ now \in Int /\ delay \in Nat /\ cur[r] \in Int /\ MaxQueueing \in Nat /\ Tolerance \in Nat
  BY ClockStays, TimeTyped
<1>2. cur[r] <= now + delay /\ (~wasSetBack => cur[r] <= now)
  BY DEF Timed, TimedOf
<1>3. Bounded(newEnd)'
  <2>1. newEnd <= now + MaxQueueing + Tolerance + delay
    BY <1>1, <1>2
  <2>2. QED BY <1>1, <2>1 DEF Bounded
<1>4. ~wasSetBack => Refreshed(newEnd)'
  <2>1. pc'[r] = "loadSystem" /\ cur'[r] = cur[r]
    BY DEF Granting
  <2>2. ~wasSetBack => newEnd <= now + MaxQueueing
    BY <1>1, <1>2
  <2>3. QED BY <1>1, <2>1, <2>2 DEF Refreshed
<1>5. QED BY <1>1, <1>3, <1>4 DEF Skew, Reach, Granting

LEMMA RefreshedStays ==
  ASSUME TypeOK, TypeOK', Timed, NEW r \in Requests, Move(r), ~wasSetBack, NEW end \in Int, Refreshed(end)
  PROVE  Refreshed(end)'
<1>0. now \in Int /\ delay \in Nat /\ MaxQueueing \in Nat
  BY TimeTyped
<1>1. /\ now' = now /\ delay' = delay /\ end <= now + MaxQueueing
      /\ now \in Int /\ delay \in Nat /\ lastSystemTime \in Int /\ MaxQueueing \in Nat
      /\ lastSystemTime' \in Int
  BY ClockStays, TimeTyped DEF Refreshed, TypeOK
\* A swap of lastSystemTime refreshes the queue.
<1>2. ASSUME lastSystemTime' # lastSystemTime PROVE Refreshed(end)'
  <2>1. PICK t \in Int : t = lastSystemTime'
    BY <1>1
  <2>2. now <= t + delay /\ end <= now + MaxQueueing
    BY <1>1, <1>2, <2>1, SystemTime
  <2>3. end <= t + MaxQueueing + delay
    BY <1>0, <2>2
  <2>4. QED BY <1>1, <2>1, <2>3 DEF Refreshed
<1>3. CASE lastSystemTime' = lastSystemTime /\ end <= lastSystemTime + MaxQueueing + delay
  BY <1>1, <1>3 DEF Refreshed
<1>4. ASSUME lastSystemTime' = lastSystemTime,
             NEW s \in Requests, pc[s] \in {"loadSystem", "readClock", "casSystem"},
             end <= cur[s] + MaxQueueing
      PROVE  Refreshed(end)'
  <2>1. CASE s # r
    <3>1. pc'[s] = pc[s] /\ cur'[s] = cur[s]
      BY <2>1, OthersStay
    <3>2. QED BY <1>1, <1>4, <3>1 DEF Refreshed
  <2>2. CASE s = r
    <3>1. LoadSystem(r) \/ ReadClock(r) \/ CasSystem(r)
      BY <1>4, <2>2 DEF Move, DoCheck, LoadLastPassed, LoadLastSystem, CasSkewed, CasExpected, Estimate,
                        Add, RollBack
    <3>2. CASE LoadSystem(r) \/ ReadClock(r)
      <4>1. pc'[r] \in {"readClock", "casSystem"} /\ cur'[r] = cur[r]
        BY <3>2 DEF LoadSystem, ReadClock, GoTo, TypeOK
      <4>2. QED BY <1>1, <1>4, <2>2, <4>1 DEF Refreshed
    <3>3. CASE CasSystem(r)
      <4>1. cur[r] <= clockRead[r] /\ (loaded[r] = lastSystemTime \/ cur[r] <= lastSystemTime + delay)
        BY <3>3 DEF CasSystem, Timed, TimedOf
      <4>2. loaded[r] = lastSystemTime => clockRead[r] = lastSystemTime
        BY <1>4, <3>3 DEF CasSystem
      <4>3. cur[r] <= lastSystemTime + delay /\ cur[r] \in Int
        BY <1>1, <4>1, <4>2, TimeTyped
      <4>4. end <= lastSystemTime + MaxQueueing + delay
        BY <1>1, <1>4, <2>2, <4>3
      <4>5. QED BY <1>1, <1>4, <4>4 DEF Refreshed
    <3>4. QED BY <3>1, <3>2, <3>3
  <2>3. QED BY <2>1, <2>2
<1>5. QED BY <1>2, <1>3, <1>4 DEF Refreshed

\* Until the skew is acted upon, every request that comes sees it.
LEMMA SeenStays ==
  ASSUME TypeOK, Known, NEW r \in Requests, Move(r), NEW end \in Int, Seen(end),
         Skipping' = {}, UNCHANGED answer
  PROVE  Seen(end)'
<1>0. now \in Int /\ lastSystemTime \in Int /\ Tolerance \in Nat /\ cur[r] \in Int
  BY TimeTyped
<1>1. /\ pc[r] \in {"new", "loadLastPassed", "loadLastSystem", "casSkewed", "done"}
      /\ pc[r] \notin {"new", "done"} => cur[r] <= now
      /\ pc[r] \in {"loadLastSystem", "casSkewed"} => loaded[r] = lastPassedTime
  BY DEF Seen
\* The swap of a request that sees the skew is one that grants.
<1>2. ~CasSkewed(r)
  <2>1. SUFFICES ASSUME CasSkewed(r) PROVE FALSE
    OBVIOUS
  <2>2. pc[r] = "casSkewed" /\ lastPassedTime = loaded[r]
    BY <1>1, <2>1 DEF CasSkewed
  <2>3. r \in granted'
    BY <2>1, <2>2 DEF CasSkewed, CasPass, Grant
  <2>4. r \notin granted
    BY <2>2 DEF Known, KnownOf, Leaving
  <2>5. QED BY <2>3, <2>4 DEF answer
<1>3. DoCheck(r) \/ LoadLastPassed(r) \/ LoadLastSystem(r)
  BY <1>1, <1>2 DEF Move, Estimate, Add, RollBack, LoadSystem, ReadClock, CasSystem, CasExpected
<1>4. /\ now' = now /\ wasSetBack' = wasSetBack /\ delay' = delay
      /\ lastSystemTime' = lastSystemTime /\ lastPassedTime' = lastPassedTime
  BY <1>3, ClockStays DEF DoCheck, LoadLastPassed, LoadLastSystem, shared
<1>5. /\ pc'[r] \in {"loadLastPassed", "loadLastSystem", "casSkewed"} /\ cur'[r] <= now
      /\ pc'[r] \in {"loadLastSystem", "casSkewed"} => loaded'[r] = lastPassedTime
  <2>1. CASE DoCheck(r)
    <3>1. pc[r] = "new" /\ interval[r] = 0 /\ cur'[r] = now
      BY <2>1 DEF DoCheck, Known, KnownOf, TypeOK
    <3>2. pc'[r] = "loadLastPassed" \/ (pc'[r] = "loadSystem" /\ interval' = interval)
      BY <2>1 DEF DoCheck, GoTo, TypeOK
    <3>3. ~(pc'[r] = "loadSystem" /\ interval' = interval)
      BY <3>1 DEF Skipping, Leaving
    <3>4. QED BY <1>0, <3>1, <3>2, <3>3
  <2>2. CASE LoadLastPassed(r)
    <3>1. pc[r] = "loadLastPassed" /\ pc'[r] = "loadLastSystem" /\ cur'[r] = cur[r]
          /\ loaded'[r] = lastPassedTime
      BY <2>2 DEF LoadLastPassed, GoTo, TypeOK
    <3>2. QED BY <1>1, <3>1
  <2>3. CASE LoadLastSystem(r)
    <3>1. pc[r] = "loadLastSystem" /\ cur'[r] = cur[r] /\ loaded'[r] = loaded[r]
      BY <2>3 DEF LoadLastSystem, locals
    <3>2. lastSystemTime > cur[r] + Tolerance
      BY <1>0, <1>1, <3>1 DEF Seen
    <3>3. pc'[r] = "casSkewed"
      BY <2>3, <3>2 DEF LoadLastSystem, GoTo, TypeOK
    <3>4. QED BY <1>1, <3>1, <3>3
  <2>4. QED BY <1>3, <2>1, <2>2, <2>3
<1>6. ASSUME NEW s \in Requests
      PROVE  /\ pc'[s] \in {"new", "loadLastPassed", "loadLastSystem", "casSkewed", "done"}
             /\ pc'[s] \notin {"new", "done"} => cur'[s] <= now
             /\ pc'[s] \in {"loadLastSystem", "casSkewed"} => loaded'[s] = lastPassedTime
  <2>1. CASE s = r
    BY <1>5, <2>1
  <2>2. CASE s # r
    <3>1. pc'[s] = pc[s] /\ cur'[s] = cur[s] /\ loaded'[s] = loaded[s]
      BY <2>2, OthersStay
    <3>2. QED BY <3>1 DEF Seen
  <2>3. QED BY <2>1, <2>2
<1>7. QED BY <1>4, <1>6 DEF Seen

LEMMA MoveSkew ==
  ASSUME TypeOK, TypeOK', Known, Timed, Skew, NEW r \in Requests, Move(r)
  PROVE  Skew'
<1>0. /\ now \in Int /\ lastPassedTime \in Int /\ cur[r] \in Int /\ interval[r] \in Nat /\ MaxQueueing \in Nat
      /\ now' = now /\ wasSetBack' = wasSetBack /\ delay' = delay
  BY TimeTyped, ClockStays
<1>1. SUFFICES ASSUME Skipping' = {} PROVE Skew'
  BY DEF Skew
<1>2. PICK end \in Int : Reach(end)
  BY <1>1, SkippedStay DEF Skew
<1>3. QueueEnd(end) /\ end <= lastPassedTime
  BY <1>2, EndIsLast DEF Reach
<1>4. CASE Quiet(r) \/ RollBack(r) \/ (Add(r) /\ lastPassedTime' - cur[r] > MaxQueueing)
  <2>1. NotGranting(end)
    BY <1>3, <1>4, QuietKeepsEnd, RollBackKeepsEnd, AddMovesEnd
  <2>2. ~wasSetBack' => Refreshed(end)'
    BY <1>0, <1>2, RefreshedStays DEF Reach
  <2>3. Bounded(end)' \/ Seen(end)'
    <3>1. CASE Bounded(end)
      BY <1>0, <3>1 DEF Bounded
    <3>2. CASE Seen(end)
      BY <1>1, <2>1, <3>2, SeenStays DEF NotGranting
    <3>3. QED BY <1>2, <3>1, <3>2 DEF Reach
  <2>4. QED BY <2>1, <2>2, <2>3 DEF Skew, Reach, NotGranting
<1>5. ASSUME NEW outdated, Swapping(r, outdated) PROVE Skew'
  <2>1. Granting(r, outdated, end + (cur[r] - lastPassedTime))
    BY <1>3, <1>5, PassMovesEnd
  <2>2. PICK newEnd \in Int : newEnd = end + (cur[r] - lastPassedTime)
    BY <1>0
  <2>3. newEnd <= cur[r] + MaxQueueing
    BY <1>0, <1>3, <2>2
  <2>4. pc[r] \in {"casSkewed", "casPass"}
    BY <1>5 DEF Swapping, CasSkewed, CasExpected
  <2>5. QED BY <2>1, <2>2, <2>3, <2>4, GrantSkew
<1>6. CASE Add(r) /\ ~(lastPassedTime' - cur[r] > MaxQueueing)
  <2>1. lastPassedTime' = lastPassedTime + interval[r] /\ Granting(r, {}, end + interval[r])
    BY <1>3, <1>6, AddMovesEnd
  <2>2. PICK newEnd \in Int : newEnd = end + interval[r]
    BY <1>0
  <2>3. newEnd <= cur[r] + MaxQueueing
    BY <1>0, <1>3, <1>6, <2>1, <2>2
  <2>4. pc[r] = "add"
    BY <1>6 DEF Add
  <2>5. QED BY <2>1, <2>2, <2>3, <2>4, GrantSkew
<1>7. QED BY <1>3, <1>4, <1>5, <1>6, MoveKinds

LEMMA InitSkew == Init => Skew
<1> SUFFICES ASSUME Init PROVE Skew
  OBVIOUS
<1>1. MaxQueueing \in Nat /\ SetBack \in Nat /\ Tolerance \in Nat
  BY TimeAssumption
<1>2. /\ Rollers = {} /\ lastPassedTime = 0 /\ lastSystemTime = 0 /\ now = MaxQueueing + SetBack
      /\ delay = 0
  BY DEF Init, Rollers
<1>3. QueueEnd(0)
  BY <1>2, StackedEmpty DEF QueueEnd
<1>4. Bounded(0)
  BY <1>1, <1>2 DEF Bounded
<1>5. Refreshed(0)
  BY <1>1, <1>2 DEF Refreshed
<1>6. QED BY <1>3, <1>4, <1>5 DEF Skew, Reach

\* The clock goes on, and the longest call with it.
LEMMA TickSkew ==
  ASSUME TypeOK, CanBeSetBack, Timed, Tick, NEW end \in Int, Reach(end)
  PROVE  (Bounded(end)' \/ Seen(end)') /\ (~wasSetBack' => Refreshed(end)')
<1>0. /\ now \in Int /\ delay \in Nat /\ lastSystemTime \in Int
      /\ MaxQueueing \in Nat /\ Tolerance \in Nat
  BY TimeAssumption DEF TypeOK
<1>1. PICK d \in Int : now' = now + 1 /\ wasSetBack' = wasSetBack /\ d = delay' /\ delay <= d
  BY TickMoves
<1>10. now' = now + 1 /\ delay <= d
  BY <1>1
<1>2. UNCHANGED <<lastSystemTime, lastPassedTime, pc, cur, loaded>>
  BY DEF Tick, shared, locals
<1>3. Bounded(end)' \/ Seen(end)'
  <2>1. CASE Bounded(end)
    <3>1. end <= now' + MaxQueueing + Tolerance + d
      BY <1>0, <1>10, <2>1 DEF Bounded
    <3>2. QED BY <1>1, <3>1 DEF Bounded
  <2>2. CASE Seen(end)
    <3>1. end <= lastSystemTime + MaxQueueing + delay
      BY <2>2 DEF Seen
    <3>2. CASE lastSystemTime > now' + Tolerance
      <4>1. ASSUME NEW r \in Requests, pc[r] \notin {"new", "done"} PROVE cur[r] <= now'
        <5>1. cur[r] <= now /\ cur[r] \in Int
          BY <2>2, <4>1, TimeTyped DEF Seen
        <5>2. QED BY <1>0, <1>10, <5>1
      <4>2. end <= lastSystemTime + MaxQueueing + d
        BY <1>0, <1>10, <3>1
      <4>3. QED BY <1>1, <1>2, <2>2, <3>2, <4>1, <4>2 DEF Seen
    <3>3. CASE ~(lastSystemTime > now' + Tolerance)
      <4>1. end <= now' + MaxQueueing + Tolerance + d
        BY <1>0, <1>10, <3>1, <3>3
      <4>2. QED BY <1>1, <4>1 DEF Bounded
    <3>4. QED BY <3>2, <3>3
  <2>3. QED BY <2>1, <2>2 DEF Reach
<1>4. ASSUME ~wasSetBack' PROVE Refreshed(end)'
  <2>1. Refreshed(end)
    BY <1>1, <1>4 DEF Reach
  <2>2. end <= now' + MaxQueueing
    BY <1>0, <1>10, <2>1 DEF Refreshed
  <2>3. end <= lastSystemTime + MaxQueueing + delay => end <= lastSystemTime + MaxQueueing + d
    BY <1>0, <1>10
  <2>4. QED BY <1>1, <1>2, <2>1, <2>2, <2>3 DEF Refreshed
<1>5. QED BY <1>3, <1>4

\* A call under way explains why the queue reaches so far; with none, the next
\* request will see that the clock is back, unless the queue is short enough.
LEMMA SetBackSkew ==
  ASSUME TypeOK, CanBeSetBack, SetClockBack, NEW end \in Int, Reach(end)
  PROVE  Bounded(end)' \/ Seen(end)'
<1>0. /\ now \in Int /\ delay \in Nat /\ lastSystemTime \in Int
      /\ MaxQueueing \in Nat /\ Tolerance \in Nat /\ SetBack \in Nat
  BY TimeAssumption DEF TypeOK
<1>1. PICK d \in Int :
        /\ now' = now - SetBack /\ ~wasSetBack /\ wasSetBack' /\ d = delay' /\ delay <= d
        /\ \A r \in Checking : SetBack <= d
  BY SetBackMoves
<1>10. now' = now - SetBack /\ delay <= d
  BY <1>1
<1>2. UNCHANGED <<lastSystemTime, lastPassedTime, pc, cur, loaded>>
  BY DEF SetClockBack, shared, locals
<1>3. Refreshed(end)
  BY <1>1 DEF Reach
<1>4. CASE Checking # {}
  <2>1. SetBack <= d
    BY <1>1, <1>4
  <2>2. end <= now + MaxQueueing
    BY <1>3 DEF Refreshed
  <2>3. end <= now' + MaxQueueing + Tolerance + d
    BY <1>0, <1>10, <2>1, <2>2
  <2>4. QED BY <1>1, <2>3 DEF Bounded
<1>5. CASE Checking = {}
  <2>1. \A r \in Requests : pc[r] \in {"new", "done"}
    BY <1>5 DEF Checking
  <2>2. end <= lastSystemTime + MaxQueueing + delay
    BY <1>3, <2>1 DEF Refreshed
  <2>3. end <= lastSystemTime + MaxQueueing + d
    BY <1>0, <1>10, <2>2
  <2>4. CASE lastSystemTime > now' + Tolerance
    BY <1>1, <1>2, <2>1, <2>3, <2>4 DEF Seen
  <2>5. CASE ~(lastSystemTime > now' + Tolerance)
    <3>1. end <= now' + MaxQueueing + Tolerance + d
      BY <1>0, <1>10, <2>3, <2>5
    <3>2. QED BY <1>1, <3>1 DEF Bounded
  <2>6. QED BY <2>4, <2>5
<1>6. QED BY <1>4, <1>5

LEMMA ClockSkew ==
  ASSUME TypeOK, CanBeSetBack, Timed, Skew, Tick \/ SetClockBack
  PROVE  Skew'
<1>1. UNCHANGED <<shared, pc, locals>>
  BY DEF Tick, SetClockBack
<1>2. SUFFICES ASSUME Skipping' = {} PROVE Skew'
  BY DEF Skew
<1>3. Skipping = {}
  BY <1>1, <1>2 DEF Skipping, locals
<1>4. PICK end \in Int : Reach(end)
  BY <1>3 DEF Skew
<1>5. QueueEnd(end)'
  BY <1>1, <1>4 DEF Reach, QueueEnd, Rollers, shared, locals
<1>6. CASE Tick
  BY <1>4, <1>5, <1>6, TickSkew DEF Skew, Reach
<1>7. CASE SetClockBack
  <2>1. wasSetBack'
    BY <1>7 DEF SetClockBack
  <2>2. QED BY <1>4, <1>5, <1>7, <2>1, SetBackSkew DEF Skew, Reach
<1>8. QED BY <1>6, <1>7

LEMMA StepSkew ==
  ASSUME TypeOK, TypeOK', CanBeSetBack, Known, Timed, Skew, [Next]_vars
  PROVE  Skew'
<1>1. CASE UNCHANGED vars
  BY <1>1 DEF vars, clock, shared, locals, Skew, Skipping, Reach, QueueEnd, Rollers, Bounded, Seen, Refreshed
<1>2. CASE Tick \/ SetClockBack
  BY <1>2, ClockSkew
<1>3. ASSUME NEW r \in Requests, Move(r) PROVE Skew'
  BY <1>3, MoveSkew
<1>4. QED BY <1>1, <1>2, <1>3, StepIsMove

\* After the clock has been set back, with nobody inside DoCheck and no request
\* skipped, the queue reaches no further ahead than queueing, the tolerance and
\* the longest call explain, or the next request will see the skew and start the
\* queue afresh.
THEOREM SkewStaysNoticed == Spec => []SkewNoticed
<1> DEFINE Inv == TypeOK /\ CanBeSetBack /\ Known /\ Timed /\ Skew
<1>1. Init => Inv
  BY InitTyped, InitKnown, InitTimed, InitSkew
<1>2. Inv /\ [Next]_vars => Inv'
  BY StepTyped, StepKnown, StepTimed, StepSkew
<1>3. Inv => SkewNoticed
  <2>1. SUFFICES ASSUME Inv, Checking = {}, Skipped = {}
                 PROVE  \/ lastPassedTime - now <= MaxQueueing + Tolerance + delay
                        \/ lastSystemTime > now + Tolerance
    BY DEF SkewNoticed
  <2>2. /\ now \in Int /\ lastPassedTime \in Int /\ delay \in Nat
        /\ MaxQueueing \in Nat /\ Tolerance \in Nat
    BY <2>1, TimeAssumption DEF TypeOK
  <2>3. Skipping = {} /\ Rollers = {}
    BY <2>1 DEF Checking, Skipped, Skipping, Leaving, Rollers
  <2>4. PICK end \in Int : Reach(end)
    BY <2>1, <2>3 DEF Skew
  <2>5. end = lastPassedTime
    BY <2>1, <2>3, <2>4, EndIsLast DEF Reach
  <2>6. CASE Bounded(end)
    BY <2>2, <2>5, <2>6 DEF Bounded
  <2>7. CASE Seen(end)
    BY <2>7 DEF Seen
  <2>8. QED BY <2>4, <2>6, <2>7 DEF Reach
<1>4. QED BY <1>1, <1>2, <1>3, PTL DEF Spec

=============================================================================
