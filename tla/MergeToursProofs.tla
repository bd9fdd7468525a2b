----------------------------- MODULE MergeToursProofs ---------------------------
(***********************************************************************************)
(* The merging of two tours keeps both of them tours, for every number of nodes,    *)
(* every cost function and every second tour.                                       *)
(*                                                                                  *)
(* What Shrink leaves of two tours is what is left of a cycle when only some of     *)
(* its nodes are kept.  The scan goes along both from one node; its numbers are     *)
(* the steps it has made and the least and largest rank it has met, so that it      *)
(* reports a stretch only if both tours go through the same nodes there and end     *)
(* at the same one.  Replacing such a stretch of one cycle by that of the other     *)
(* leaves one cycle.  Lengths of walks are compared by places on a tour, and ranks  *)
(* are places on the first one.                                                     *)
(***********************************************************************************)
EXTENDS MergeTours, FiniteSetTheorems, TLAPS

\* f goes round the set A and visits all of it.
OneCycle(A, f) ==
    /\ \A x \in A : f[x] \in A
    /\ \A x, y \in A : f[x] = f[y] => x = y
    /\ \A S \in SUBSET A : (S # {} /\ \A x \in S : f[x] \in S) => S = A

\* w begins with v and goes on by F, which is given the place and the value before.
Steps(w, v, F, n, V) ==
    w \in [0..n -> V] /\ w[0] = v /\ \A i \in 1..n : w[i] = F[<<i, w[i - 1]>>]

\* w is a walk of k steps of f.
WalkOf(w, f, x, k, S) ==
    /\ w \in [0..k -> S] /\ w[0] = x /\ \A i \in 1..k : w[i] = f[w[i - 1]]
    /\ \A j \in 0..k : Along(f, x, j) = w[j]

Walk(f, x, n) == [i \in 0..n |-> Along(f, x, i)]

\* q numbers the nodes of S from 0 to n - 1.
Numbering(S, n, q) ==
    /\ \A i \in 0..(n - 1) : q[i] \in S
    /\ \A y \in S : \E i \in 0..(n - 1) : q[i] = y
    /\ \A i, j \in 0..(n - 1) : q[i] = q[j] => i = j

\* g goes from each node of the numbering to the next one.
Turns(g, n, q) == \A i \in 0..(n - 1) : g[q[i]] = IF i = n - 1 THEN q[0] ELSE q[i + 1]

\* z is the walk of f once round S, from x to x.
RoundOf(z, S, f, x, n) ==
    /\ n \in Nat /\ n # 0 /\ Numbering(S, n, z)
    /\ z[0] = x /\ z[n] = x
    /\ \A i \in 0..n : z[i] \in S /\ z[i] = Along(f, x, i)
    /\ \A i \in 0..(n - 1) : z[i + 1] = f[z[i]]

\* The first k nodes of x and z are the same, in whatever order, and end at the same one.
SamePart(x, z, k) ==
    /\ \A i \in 0..(k - 1) : \E j \in 0..(k - 1) : z[i] = x[j]
    /\ \A i \in 0..(k - 1) : \E j \in 0..(k - 1) : x[i] = z[j]
    /\ x[k] = z[k]

\* g is f, but from the first k nodes of x on it is w.
Exchanged(g, S, f, w, x, k) ==
    \A y \in S : g[y] = IF \E i \in 0..(k - 1) : x[i] = y THEN w[y] ELSE f[y]

Backwards(h, S, f) == \A y \in S : h[y] \in S /\ f[h[y]] = y /\ h[f[y]] = y

\* Induction over the numbers, for a set.
LEMMA UpFromZero ==
    ASSUME NEW S, 0 \in S, \A n \in Nat : n \in S => n + 1 \in S
    PROVE  \A n \in Nat : n \in S
<1> SUFFICES ASSUME NEW m \in Nat, m \notin S PROVE FALSE
  OBVIOUS
<1> DEFINE B == {i \in 0..m : i \in S}
           f == [i \in B |-> i + 1]
<1>1. IsFiniteSet(B)
  <2>1. IsFiniteSet(0..m)
    BY FS_Interval
  <2> QED
    BY <2>1, FS_Subset
<1>2. \A i \in B : i \in Nat /\ i + 1 \in B
  OBVIOUS
<1>3. f \in [B -> B] /\ \A i, j \in B : f[i] = f[j] => i = j
  BY <1>2
<1>4. f \in Injection(B, B)
  BY <1>3 DEF Injection, IsInjective
<1>5. f \in Surjection(B, B)
  BY <1>1, <1>4, FS_Injection
<1>6. 0 \in B
  OBVIOUS
<1>7. \E i \in B : f[i] = 0
  BY <1>5, <1>6 DEF Surjection
<1> QED
  BY <1>2, <1>7

\* What is defined step by step from 0 up to n exists.
LEMMA StepByStep ==
    ASSUME NEW n \in Nat, NEW V, NEW v \in V, NEW F \in [(1..n) \X V -> V]
    PROVE  \E w : Steps(w, v, F, n, V)
<1> DEFINE Part(w, m) == /\ w \in [0..m -> V] /\ w[0] = v
                         /\ \A i \in 1..m : w[i] = F[<<i, w[i - 1]>>]
           E == {m \in Nat : m <= n => \E w : Part(w, m)}
<1>1. 0 \in E
  <2> DEFINE w == [i \in 0..0 |-> v]
  <2>1. Part(w, 0)
    OBVIOUS
  <2> QED
    BY <2>1
<1>2. ASSUME NEW m \in Nat, m \in E PROVE m + 1 \in E
  <2> SUFFICES ASSUME m + 1 <= n PROVE \E w : Part(w, m + 1)
    OBVIOUS
  <2>1. PICK w : Part(w, m)
    BY <1>2
  <2> DEFINE u == [i \in 0..(m + 1) |-> IF i <= m THEN w[i] ELSE F[<<m + 1, w[m]>>]]
  <2>2. w[m] \in V /\ <<m + 1, w[m]>> \in (1..n) \X V
    BY <2>1
  <2>3. F[<<m + 1, w[m]>>] \in V
    BY <2>2
  <2>4. u \in [0..(m + 1) -> V] /\ u[0] = v
    BY <2>1, <2>3
  <2>5. ASSUME NEW i \in 1..(m + 1) PROVE u[i] = F[<<i, u[i - 1]>>]
    <3>1. CASE i = m + 1
      <4>1. u[m + 1] = F[<<m + 1, w[m]>>] /\ u[(m + 1) - 1] = w[m]
        OBVIOUS
      <4> HIDE DEF u
      <4> QED
        BY <3>1, <4>1
    <3>2. CASE i # m + 1
      <4>1. i \in 1..m /\ i - 1 \in 0..m /\ i - 1 <= m /\ i <= m
        BY <3>2
      <4>2. u[i] = w[i] /\ u[i - 1] = w[i - 1]
        BY <4>1
      <4> QED
        BY <2>1, <4>1, <4>2
    <3> QED
      BY <3>1, <3>2
  <2> QED
    BY <2>4, <2>5
<1> HIDE DEF Part
<1>3. n \in E
  <2> HIDE DEF E
  <2> QED
    BY <1>1, <1>2, UpFromZero
<1>4. \E w : Part(w, n)
  BY <1>3
<1> QED
  BY <1>4 DEF Part, Steps

-----------------------------------------------------------------------------
(* Parts. *)

\* Along walks on from step to step and stays in a set that f does not leave.
LEMMA AlongWalk ==
    ASSUME NEW S, NEW f, \A y \in S : f[y] \in S, NEW x \in S, NEW k \in Nat
    PROVE  \E w : WalkOf(w, f, x, k, S)
<1> DEFINE F == [iv \in (1..k) \X S |-> f[iv[2]]]
<1>1. F \in [(1..k) \X S -> S]
  OBVIOUS
<1>2. PICK w \in [0..k -> S] : w[0] = x /\ \A i \in 1..k : w[i] = F[<<i, w[i - 1]>>]
  <2> HIDE DEF F
  <2>1. \E w : Steps(w, x, F, k, S)
    BY <1>1, StepByStep
  <2> QED
    BY <2>1 DEF Steps
<1>3. ASSUME NEW i \in 1..k PROVE w[i] = f[w[i - 1]]
  <2>1. <<i, w[i - 1]>> \in (1..k) \X S
    BY <1>2
  <2> QED
    BY <1>2, <2>1
<1>4. ASSUME NEW j \in 0..k PROVE Along(f, x, j) = w[j]
  <2> DEFINE Rec(u) == [i \in 0..j |-> IF i = 0 THEN x ELSE f[u[i - 1]]]
             v == CHOOSE u : u = Rec(u)
             W == [i \in 0..j |-> w[i]]
  <2>1. W = Rec(W)
    <3>1. ASSUME NEW i \in 0..j PROVE W[i] = Rec(W)[i]
      <4>1. CASE i = 0
        BY <1>2, <4>1
      <4>2. CASE i # 0
        <5>1. i \in 1..k /\ i - 1 \in 0..j
          BY <4>2
        <5> QED
          BY <1>3, <4>2, <5>1
      <4> QED
        BY <4>1, <4>2
    <3> QED
      BY <3>1
  <2>2. v = Rec(v)
    <3> HIDE DEF Rec, W
    <3>1. \E u : u = Rec(u)
      BY <2>1
    <3> QED
      BY <3>1
  <2>3. Along(f, x, j) = v[j]
    BY DEF Along
  <2> HIDE DEF v
  <2> DEFINE Eq == {m \in Nat : m <= j => v[m] = w[m]}
  <2>4. 0 \in Eq
    BY <1>2, <2>2
  <2>5. ASSUME NEW m \in Nat, m \in Eq PROVE m + 1 \in Eq
    <3> SUFFICES ASSUME m + 1 <= j PROVE v[m + 1] = w[m + 1]
      OBVIOUS
    <3>1. m + 1 \in 0..j /\ m + 1 # 0 /\ (m + 1) - 1 = m /\ m + 1 \in 1..k
      OBVIOUS
    <3>2. v[m + 1] = f[v[m]]
      BY <2>2, <3>1
    <3>3. w[m + 1] = f[w[m]]
      BY <1>3, <3>1
    <3> QED
      BY <2>5, <3>2, <3>3
  <2>6. j \in Eq
    <3> HIDE DEF Eq
    <3> QED
      BY <2>4, <2>5, UpFromZero
  <2> QED
    BY <2>3, <2>6
<1> QED
  BY <1>2, <1>3, <1>4 DEF WalkOf

LEMMA AlongIs ==
    ASSUME NEW S, NEW f, \A y \in S : f[y] \in S, NEW x \in S
    PROVE  /\ Along(f, x, 0) = x
           /\ \A k \in Nat : Along(f, x, k) \in S /\ Along(f, x, k + 1) = f[Along(f, x, k)]
<1>1. ASSUME NEW k \in Nat
      PROVE  /\ Along(f, x, 0) = x /\ Along(f, x, k) \in S
             /\ Along(f, x, k + 1) = f[Along(f, x, k)]
  <2>1. PICK w : WalkOf(w, f, x, k + 1, S)
    <3>1. k + 1 \in Nat
      OBVIOUS
    <3> QED
      BY <3>1, AlongWalk
  <2>2. k + 1 \in 1..(k + 1) /\ (k + 1) - 1 = k /\ {0, k, k + 1} \subseteq 0..(k + 1)
    OBVIOUS
  <2> QED
    BY <2>1, <2>2 DEF WalkOf
<1> QED
  BY <1>1

\* A step first or last is the same.
LEMMA AlongFirst ==
    ASSUME NEW S, NEW f, \A y \in S : f[y] \in S, NEW x \in S, NEW k \in Nat
    PROVE  Along(f, x, k + 1) = Along(f, f[x], k)
<1> DEFINE E == {m \in Nat : Along(f, x, m + 1) = Along(f, f[x], m)}
<1>1. f[x] \in S
  OBVIOUS
<1>2. 0 \in E
  <2>1. Along(f, x, 0 + 1) = f[Along(f, x, 0)] /\ Along(f, x, 0) = x
    BY AlongIs
  <2>2. Along(f, f[x], 0) = f[x]
    BY <1>1, AlongIs
  <2> QED
    BY <2>1, <2>2
<1>3. ASSUME NEW m \in Nat, m \in E PROVE m + 1 \in E
  <2>1. Along(f, x, (m + 1) + 1) = f[Along(f, x, m + 1)]
    BY AlongIs
  <2>2. Along(f, f[x], m + 1) = f[Along(f, f[x], m)]
    BY <1>1, AlongIs
  <2> QED
    BY <1>3, <2>1, <2>2
<1> HIDE DEF E
<1>4. k \in E
  BY <1>2, <1>3, UpFromZero
<1> QED
  BY <1>4 DEF E

\* Two walks that meet have met as many steps before.
LEMMA BackShift ==
    ASSUME NEW S, NEW f, OneCycle(S, f), NEW x \in S, NEW y \in S, NEW m \in Nat, NEW d \in Nat,
           Along(f, x, m) = Along(f, y, d + m)
    PROVE  x = Along(f, y, d)
<1> DEFINE E == {i \in Nat : Along(f, x, i) = Along(f, y, d + i) => x = Along(f, y, d)}
<1>1. \A i \in Nat : /\ Along(f, x, i) \in S /\ Along(f, x, i + 1) = f[Along(f, x, i)]
                     /\ Along(f, y, i) \in S /\ Along(f, y, i + 1) = f[Along(f, y, i)]
  BY AlongIs DEF OneCycle
<1>2. 0 \in E
  <2>1. Along(f, x, 0) = x
    BY AlongIs DEF OneCycle
  <2>2. d + 0 = d
    OBVIOUS
  <2> QED
    BY <2>1, <2>2
<1>3. ASSUME NEW i \in Nat, i \in E PROVE i + 1 \in E
  <2>1. d + i \in Nat /\ d + (i + 1) = (d + i) + 1
    OBVIOUS
  <2>2. /\ Along(f, x, i + 1) = f[Along(f, x, i)] /\ Along(f, x, i) \in S
        /\ Along(f, y, d + (i + 1)) = f[Along(f, y, d + i)] /\ Along(f, y, d + i) \in S
    BY <1>1, <2>1
  <2>3. Along(f, x, i + 1) = Along(f, y, d + (i + 1)) => Along(f, x, i) = Along(f, y, d + i)
    BY <2>2 DEF OneCycle
  <2> QED
    BY <1>3, <2>3
<1>4. m \in E
  <2> HIDE DEF E
  <2> QED
    BY <1>2, <1>3, UpFromZero
<1> QED
  BY <1>4

\* Round a cycle each node is met once, and then the first one again.
LEMMA Round ==
    ASSUME NEW S, IsFiniteSet(S), NEW f, OneCycle(S, f), NEW x \in S
    PROVE  RoundOf(Walk(f, x, Cardinality(S)), S, f, x, Cardinality(S))
<1> DEFINE n == Cardinality(S)
           a(i) == Along(f, x, i)
<1>1. n \in Nat /\ n # 0
  BY FS_CardinalityType, FS_EmptySet
<1>2. a(0) = x /\ \A k \in Nat : a(k) \in S /\ a(k + 1) = f[a(k)]
  BY AlongIs DEF OneCycle
<1> HIDE DEF n, a
<1>3. PICK i \in 0..n, j \in 0..n : i < j /\ a(i) = a(j)
  <2> DEFINE h == [m \in 0..n |-> a(m)]
  <2>1. h \in [0..n -> S]
    BY <1>1, <1>2
  <2>2. IsFiniteSet(0..n) /\ Cardinality(0..n) = n + 1
    BY <1>1, FS_Interval
  <2>3. n < Cardinality(0..n)
    BY <1>1, <2>2
  <2> HIDE DEF h
  <2>4. \E u, w \in 0..n : u # w /\ h[u] = h[w]
    BY <2>1, <2>2, <2>3, FS_PigeonHole DEF n
  <2>5. PICK u \in 0..n, w \in 0..n : u # w /\ a(u) = a(w)
    BY <2>4 DEF h
  <2>6. u < w \/ w < u
    BY <1>1, <2>5
  <2> QED
    BY <2>5, <2>6
<1> DEFINE d == j - i
<1>4. d \in 1..n /\ i \in Nat /\ j \in Nat
  BY <1>1, <1>3
<1>5. a(d) = x
  <2>1. d \in Nat /\ d + i = j
    BY <1>3, <1>4
  <2>2. Along(f, x, i) = Along(f, x, d + i)
    BY <1>3, <2>1 DEF a
  <2>3. x = Along(f, x, d)
    BY <1>4, <2>1, <2>2, BackShift
  <2> QED
    BY <2>3 DEF a
<1> DEFINE I == {a(m) : m \in 0..(d - 1)}
<1>6. I = S
  <2>1. I \in SUBSET S /\ x \in I
    BY <1>2, <1>4
  <2>2. ASSUME NEW y \in I PROVE f[y] \in I
    <3>1. PICK m \in 0..(d - 1) : y = a(m)
      OBVIOUS
    <3>2. f[y] = a(m + 1) /\ m \in Nat
      BY <1>2, <1>4, <3>1
    <3>3. CASE m = d - 1
      BY <1>4, <1>5, <2>1, <3>2, <3>3
    <3>4. CASE m # d - 1
      BY <1>4, <3>2, <3>4
    <3> QED
      BY <3>3, <3>4
  <2> HIDE DEF I
  <2>3. I # {} /\ \A y \in I : f[y] \in I
    BY <2>1, <2>2
  <2> QED
    BY <2>1, <2>3 DEF OneCycle
<1>7. d = n /\ \A u, v \in 0..(n - 1) : a(u) = a(v) => u = v
  <2> DEFINE h == [m \in 0..(d - 1) |-> a(m)]
  <2>1. h \in Surjection(0..(d - 1), S)
    <3>1. h \in [0..(d - 1) -> S]
      BY <1>2, <1>4
    <3>2. ASSUME NEW y \in S PROVE \E m \in 0..(d - 1) : h[m] = y
      BY <1>6, <3>2
    <3> QED
      BY <3>1, <3>2 DEF Surjection
  <2>2. IsFiniteSet(0..(d - 1)) /\ Cardinality(0..(d - 1)) = d
    <3>1. 0 \in Int /\ d - 1 \in Int /\ ~(0 > d - 1) /\ (d - 1) - 0 + 1 = d
      BY <1>1, <1>4
    <3> HIDE DEF d
    <3> QED
      BY <3>1, FS_Interval
  <2> HIDE DEF h
  <2>3. n <= d /\ (n = d => h \in Injection(0..(d - 1), S))
    BY <2>1, <2>2, FS_Surjection DEF n
  <2>4. d = n
    BY <1>1, <1>4, <2>3
  <2>5. \A u, v \in 0..(d - 1) : h[u] = h[v] => u = v
    BY <2>3, <2>4 DEF Injection, IsInjective
  <2>6. \A u, v \in 0..(d - 1) : a(u) = a(v) => u = v
    BY <2>5 DEF h
  <2> QED
    BY <2>4, <2>6
<1>8. \A y \in S : \E m \in 0..(n - 1) : a(m) = y
  BY <1>6, <1>7
<1>9. \A m \in 0..n : a(m) \in S
  BY <1>1, <1>2
<1> DEFINE z == Walk(f, x, n)
<1>10. \A m \in 0..n : z[m] = a(m)
  BY DEF Walk, a
<1>11. \A m \in 0..(n - 1) : m \in 0..n /\ m + 1 \in 0..n /\ m \in Nat
  BY <1>1
<1> HIDE DEF z
<1>12. Numbering(S, n, z)
  BY <1>7, <1>8, <1>9, <1>10, <1>11 DEF Numbering
<1>13. \A m \in 0..(n - 1) : z[m + 1] = f[z[m]]
  BY <1>2, <1>10, <1>11
<1>14. z[0] = x /\ z[n] = x
  BY <1>1, <1>2, <1>5, <1>7, <1>10
<1>15. RoundOf(z, S, f, x, n)
  BY <1>1, <1>9, <1>10, <1>12, <1>13, <1>14 DEF RoundOf, a
<1> QED
  BY <1>15 DEF z, n

\* A set of numbers has a least one.
LEMMA Least ==
    ASSUME NEW K \in SUBSET Nat, K # {}
    PROVE  \E m \in K : \A j \in K : m <= j
<1> SUFFICES ASSUME \A m \in K : \E j \in K : j < m PROVE FALSE
  OBVIOUS
<1> DEFINE E == {m \in Nat : \A j \in 0..m : j \notin K}
<1>1. 0 \in E
  OBVIOUS
<1>2. ASSUME NEW m \in Nat, m \in E PROVE m + 1 \in E
  <2>1. m + 1 \notin K
    <3> SUFFICES ASSUME m + 1 \in K PROVE FALSE
      OBVIOUS
    <3>1. PICK j \in K : j < m + 1
      OBVIOUS
    <3>2. j \in 0..m
      BY <3>1
    <3> QED
      BY <1>2, <3>2
  <2>2. \A j \in 0..(m + 1) : j = m + 1 \/ j \in 0..m
    OBVIOUS
  <2> QED
    BY <1>2, <2>1, <2>2
<1>3. \A m \in Nat : m \in E
  <2> HIDE DEF E
  <2> QED
    BY <1>1, <1>2, UpFromZero
<1>4. PICK m : m \in K
  OBVIOUS
<1>5. m \in Nat /\ m \in E
  BY <1>3, <1>4
<1>6. m \in 0..m
  BY <1>5
<1> QED
  BY <1>4, <1>5, <1>6

\* The inverse of a cycle.
LEMMA InverseOf ==
    ASSUME NEW S, IsFiniteSet(S), NEW f, OneCycle(S, f),
           NEW h, \A y \in S : h[y] = CHOOSE z \in S : f[z] = y
    PROVE  Backwards(h, S, f)
<1> DEFINE n == Cardinality(S)
<1>1. ASSUME NEW x \in S PROVE \E z \in S : f[z] = x
  <2>1. RoundOf(Walk(f, x, n), S, f, x, n)
    BY Round
  <2> DEFINE z == Walk(f, x, n)
  <2> HIDE DEF n, z
  <2>2. n - 1 \in 0..(n - 1) /\ n - 1 \in 0..n /\ (n - 1) + 1 = n
    BY <2>1 DEF RoundOf
  <2>3. z[n - 1] \in S /\ f[z[n - 1]] = x
    BY <2>1, <2>2 DEF RoundOf, z
  <2> QED
    BY <2>3
<1>2. ASSUME NEW x \in S PROVE h[x] \in S /\ f[h[x]] = x
  BY <1>1
<1>3. ASSUME NEW x \in S PROVE h[f[x]] = x
  <2>1. f[x] \in S
    BY DEF OneCycle
  <2>2. h[f[x]] \in S /\ f[h[f[x]]] = f[x]
    BY <1>2, <2>1
  <2> QED
    BY <2>2 DEF OneCycle
<1> QED
  BY <1>2, <1>3 DEF Backwards

LEMMA InverseCycle ==
    ASSUME NEW S, NEW f, OneCycle(S, f), NEW h, Backwards(h, S, f)
    PROVE  OneCycle(S, h) /\ Backwards(f, S, h)
<1>0. \A x \in S : h[x] \in S /\ f[x] \in S /\ f[h[x]] = x /\ h[f[x]] = x
  BY DEF Backwards, OneCycle
<1>1. \A x, y \in S : h[x] = h[y] => x = y
  BY <1>0
<1>2. ASSUME NEW T \in SUBSET S, T # {}, \A x \in T : h[x] \in T PROVE T = S
  <2>1. \A x \in S \ T : f[x] \in S \ T
    BY <1>0, <1>2
  <2>2. S \ T \in SUBSET S
    OBVIOUS
  <2>3. S \ T = {} \/ S \ T = S
    BY <2>1, <2>2 DEF OneCycle
  <2> QED
    BY <1>2, <2>3
<1> QED
  BY <1>0, <1>1, <1>2 DEF OneCycle, Backwards

\* A numbering of S that g follows makes g a cycle.
LEMMA ByPlaces ==
    ASSUME NEW S, NEW n \in Nat, n # 0, NEW q, NEW g,
           Numbering(S, n, q), Turns(g, n, q)
    PROVE  OneCycle(S, g)
<1>0. /\ \A i \in 0..(n - 1) : q[i] \in S
      /\ \A y \in S : \E i \in 0..(n - 1) : q[i] = y
      /\ \A i, j \in 0..(n - 1) : q[i] = q[j] => i = j
      /\ \A i \in 0..(n - 1) : g[q[i]] = IF i = n - 1 THEN q[0] ELSE q[i + 1]
  BY DEF Numbering, Turns
<1> DEFINE next_(i) == IF i = n - 1 THEN 0 ELSE i + 1
<1>1. \A i \in 0..(n - 1) : next_(i) \in 0..(n - 1) /\ g[q[i]] = q[next_(i)]
  BY <1>0
<1>2. \A i, j \in 0..(n - 1) : next_(i) = next_(j) => i = j
  OBVIOUS
<1>3. \A x \in S : g[x] \in S
  BY <1>0, <1>1
<1>4. \A x, y \in S : g[x] = g[y] => x = y
  <2> HIDE DEF next_
  <2> QED
    BY <1>0, <1>1, <1>2
<1>5. ASSUME NEW T \in SUBSET S, T # {}, \A x \in T : g[x] \in T PROVE T = S
  <2>1. PICK i \in 0..(n - 1) : q[i] \in T
    BY <1>0, <1>5
  <2>2. q[0] \in T
    <3> DEFINE E == {m \in Nat : i + m <= n - 1 => q[i + m] \in T}
    <3>1. 0 \in E
      BY <2>1
    <3>2. ASSUME NEW m \in Nat, m \in E PROVE m + 1 \in E
      <4> SUFFICES ASSUME i + (m + 1) <= n - 1 PROVE q[i + (m + 1)] \in T
        OBVIOUS
      <4>1. i + m \in 0..(n - 1) /\ i + m # n - 1 /\ i + (m + 1) = (i + m) + 1
        OBVIOUS
      <4>2. q[i + m] \in T
        BY <3>2, <4>1
      <4> QED
        BY <1>0, <1>5, <4>1, <4>2
    <3>3. (n - 1) - i \in E
      <4>1. (n - 1) - i \in Nat
        OBVIOUS
      <4> HIDE DEF E
      <4> QED
        BY <3>1, <3>2, <4>1, UpFromZero
    <3>4. i + ((n - 1) - i) = n - 1 /\ n - 1 \in 0..(n - 1)
      OBVIOUS
    <3>5. q[n - 1] \in T
      BY <3>3, <3>4
    <3>6. g[q[n - 1]] = q[0]
      BY <1>0, <3>4
    <3> QED
      BY <1>5, <3>5, <3>6
  <2>3. ASSUME NEW j \in 0..(n - 1) PROVE q[j] \in T
    <3> DEFINE E == {m \in Nat : m <= n - 1 => q[m] \in T}
    <3>1. 0 \in E
      BY <2>2
    <3>2. ASSUME NEW m \in Nat, m \in E PROVE m + 1 \in E
      <4> SUFFICES ASSUME m + 1 <= n - 1 PROVE q[m + 1] \in T
        OBVIOUS
      <4>1. m \in 0..(n - 1) /\ m # n - 1 /\ q[m] \in T
        BY <3>2
      <4> QED
        BY <1>0, <1>5, <4>1
    <3>3. j \in E
      <4> HIDE DEF E
      <4> QED
        BY <3>1, <3>2, UpFromZero
    <3> QED
      BY <3>3
  <2> QED
    BY <1>0, <2>3
<1> QED
  BY <1>3, <1>4, <1>5 DEF OneCycle

-----------------------------------------------------------------------------
(* Cycles made from cycles. *)

\* Where k nodes from a on are the same in two cycles and end at the same node, the
\* one may go through them in the order of the other.
LEMMA Exchange ==
    ASSUME NEW S, NEW n, NEW f, NEW w, NEW a, NEW x, NEW z, RoundOf(z, S, f, a, n),
           RoundOf(x, S, w, a, n), NEW k \in 1..(n - 1), SamePart(x, z, k),
           NEW g, Exchanged(g, S, f, w, x, k)
    PROVE  LET q == [i \in 0..(n - 1) |-> IF i < k THEN x[i] ELSE z[i]]
           IN  Numbering(S, n, q) /\ Turns(g, n, q) /\ OneCycle(S, g)
<1> DEFINE q == [i \in 0..(n - 1) |-> IF i < k THEN x[i] ELSE z[i]]
<1>1. /\ n \in Nat /\ n # 0 /\ z[n] = a /\ z[0] = a /\ x[0] = a
      /\ \A i \in 0..(n - 1) : z[i] \in S /\ x[i] \in S
      /\ \A y \in S : \E i \in 0..(n - 1) : z[i] = y
      /\ \A i, j \in 0..(n - 1) : (z[i] = z[j] => i = j) /\ (x[i] = x[j] => i = j)
      /\ \A i \in 0..(n - 1) : x[i + 1] = w[x[i]] /\ z[i + 1] = f[z[i]]
  BY DEF RoundOf, Numbering
<1>4. /\ \A i \in 0..(k - 1) : \E j \in 0..(k - 1) : z[i] = x[j]
      /\ \A i \in 0..(k - 1) : \E j \in 0..(k - 1) : x[i] = z[j]
      /\ x[k] = z[k] /\ k \in 1..(n - 1)
      /\ \A y \in S : g[y] = IF \E i \in 0..(k - 1) : x[i] = y THEN w[y] ELSE f[y]
  BY DEF SamePart, Exchanged
<1>5. \A i \in 0..(n - 1) : q[i] = IF i < k THEN x[i] ELSE z[i]
  OBVIOUS
<1> HIDE DEF q
<1>6. \A i \in 0..(n - 1) : i >= k => \A j \in 0..(k - 1) : z[i] # x[j]
  <2> SUFFICES ASSUME NEW i \in 0..(n - 1), i >= k, NEW j \in 0..(k - 1), z[i] = x[j] PROVE FALSE
    OBVIOUS
  <2>1. PICK l \in 0..(k - 1) : x[j] = z[l]
    BY <1>4
  <2>2. l \in 0..(n - 1) /\ i # l
    BY <1>1, <1>4
  <2> QED
    BY <1>1, <2>1, <2>2
<1>7. \A i \in 0..(n - 1) : q[i] \in S
  BY <1>1, <1>5
<1>8. ASSUME NEW y \in S PROVE \E i \in 0..(n - 1) : q[i] = y
  <2>1. PICK i \in 0..(n - 1) : z[i] = y
    BY <1>1
  <2>2. CASE i < k
    <3>1. i \in 0..(k - 1)
      BY <2>2
    <3>2. PICK j \in 0..(k - 1) : z[i] = x[j]
      BY <1>4, <3>1
    <3>3. j \in 0..(n - 1) /\ j < k
      BY <1>1, <1>4
    <3> QED
      BY <1>5, <2>1, <3>2, <3>3
  <2>3. CASE ~(i < k)
    BY <1>5, <2>1, <2>3
  <2> QED
    BY <2>2, <2>3
<1>9. ASSUME NEW i \in 0..(n - 1), NEW j \in 0..(n - 1), q[i] = q[j] PROVE i = j
  <2>0. /\ i \in Int /\ j \in Int /\ k \in Int
        /\ i < k => i \in 0..(k - 1)
        /\ j < k => j \in 0..(k - 1)
    BY <1>4
  <2>1. CASE i < k /\ j < k
    BY <1>1, <1>5, <1>9, <2>1
  <2>2. CASE i < k /\ ~(j < k)
    BY <2>0, <1>5, <1>6, <1>9, <2>2
  <2>3. CASE ~(i < k) /\ j < k
    BY <2>0, <1>5, <1>6, <1>9, <2>3
  <2>4. CASE ~(i < k) /\ ~(j < k)
    BY <1>1, <1>5, <1>9, <2>4
  <2> QED
    BY <2>1, <2>2, <2>3, <2>4
<1>10. ASSUME NEW i \in 0..(n - 1) PROVE g[q[i]] = IF i = n - 1 THEN q[0] ELSE q[i + 1]
  <2>1. i \in Nat /\ 0 \in 0..(n - 1) /\ 0 < k /\ q[0] = a /\ k <= n - 1 /\ q[i] \in S
    BY <1>1, <1>4, <1>5, <1>7
  <2>2. CASE i < k
    <3>1. i # n - 1 /\ i + 1 \in 0..(n - 1) /\ i \in 0..(k - 1)
      BY <1>1, <1>4, <2>1, <2>2
    <3>2. q[i] = x[i]
      BY <1>5, <2>2
    <3>3. g[q[i]] = x[i + 1]
      <4>1. \E j \in 0..(k - 1) : x[j] = q[i]
        BY <3>1, <3>2
      <4>2. g[q[i]] = w[q[i]]
        BY <1>4, <2>1, <4>1
      <4> QED
        BY <1>1, <3>2, <4>2
    <3>4. q[i + 1] = x[i + 1]
      <4>1. CASE i + 1 < k
        BY <1>5, <3>1, <4>1
      <4>2. CASE i + 1 = k
        <5>1. q[k] = z[k] /\ ~(k < k)
          BY <1>4, <1>5
        <5> QED
          BY <1>4, <4>2, <5>1
      <4>3. i + 1 < k \/ i + 1 = k
        BY <2>1, <2>2
      <4> QED
        BY <4>1, <4>2, <4>3
    <3> QED
      BY <3>1, <3>3, <3>4
  <2>3. CASE ~(i < k)
    <3>1. q[i] = z[i]
      BY <1>5, <2>3
    <3>2. \A j \in 0..(k - 1) : x[j] # q[i]
      <4>1. i >= k
        BY <1>4, <2>1, <2>3
      <4> QED
        BY <1>6, <3>1, <4>1
    <3>3. g[q[i]] = z[i + 1]
      <4>1. g[q[i]] = f[q[i]]
        BY <1>4, <2>1, <3>2
      <4> QED
        BY <1>1, <3>1, <4>1
    <3>4. CASE i = n - 1
      BY <1>1, <2>1, <3>3, <3>4
    <3>5. CASE i # n - 1
      <4>1. i + 1 \in 0..(n - 1) /\ ~(i + 1 < k)
        BY <1>1, <1>4, <2>3, <3>5
      <4> QED
        BY <1>5, <3>3, <3>5, <4>1
    <3> QED
      BY <3>4, <3>5
  <2> QED
    BY <2>2, <2>3
<1>11. Numbering(S, n, q) /\ Turns(g, n, q)
  BY <1>7, <1>8, <1>9, <1>10 DEF Numbering, Turns
<1>12. OneCycle(S, g)
  BY <1>1, <1>11, ByPlaces
<1> QED
  BY <1>11, <1>12 DEF q

\* The links in the other direction, where those of the part are set one by one.
LEMMA ExchangeBack ==
    ASSUME NEW S, NEW n, NEW f, NEW w, NEW a, NEW x, NEW z, RoundOf(z, S, f, a, n),
           RoundOf(x, S, w, a, n), NEW k \in 1..(n - 1), SamePart(x, z, k),
           NEW g, Exchanged(g, S, f, w, x, k), NEW b, Backwards(b, S, f),
           NEW h, \A y \in S : h[y] = IF \E i \in 1..k : x[i] = y
                                      THEN x[(CHOOSE i \in 0..k : x[i] = y) - 1] ELSE b[y]
    PROVE  Backwards(h, S, g)
<1> DEFINE q == [i \in 0..(n - 1) |-> IF i < k THEN x[i] ELSE z[i]]
           At(y) == CHOOSE i \in 0..k : x[i] = y
<1>1. /\ n \in Nat /\ n # 0 /\ z[n] = a /\ z[0] = a /\ x[0] = a
      /\ \A i \in 0..n : z[i] \in S /\ x[i] \in S
      /\ \A i, j \in 0..(n - 1) : x[i] = x[j] => i = j
      /\ \A i \in 0..(n - 1) : z[i + 1] = f[z[i]]
  BY DEF RoundOf, Numbering
<1>2. Numbering(S, n, q) /\ Turns(g, n, q) /\ OneCycle(S, g)
  BY Exchange
<1>4. /\ \A i \in 0..(n - 1) : q[i] \in S
      /\ \A i \in 0..(n - 1) : g[q[i]] = IF i = n - 1 THEN q[0] ELSE q[i + 1]
      /\ \A y \in S : \E i \in 0..(n - 1) : q[i] = y
      /\ \A i, j \in 0..(n - 1) : q[i] = q[j] => i = j
  <2> HIDE DEF q
  <2> QED
    BY <1>2 DEF Numbering, Turns
<1>5. /\ x[k] = z[k] /\ k \in 1..(n - 1)
      /\ \A y \in S : h[y] = IF \E i \in 1..k : x[i] = y THEN x[At(y) - 1] ELSE b[y]
      /\ \A i \in 0..(n - 1) : q[i] = IF i < k THEN x[i] ELSE z[i]
  BY DEF SamePart
<1> HIDE DEF q
<1>6. \A i \in 0..k : At(x[i]) = i
  <2> SUFFICES ASSUME NEW i \in 0..k PROVE At(x[i]) = i
    OBVIOUS
  <2>1. At(x[i]) \in 0..k /\ x[At(x[i])] = x[i]
    OBVIOUS
  <2> HIDE DEF At
  <2> QED
    BY <1>5, <1>1, <2>1
<1> HIDE DEF At
<1>7. \A i \in 0..k : q[i] = x[i]
  <2> SUFFICES ASSUME NEW i \in 0..k PROVE q[i] = x[i]
    OBVIOUS
  <2>1. i \in 0..(n - 1) /\ (i < k \/ i = k)
    BY <1>1, <1>5
  <2> QED
    BY <1>5, <2>1
<1>8. ASSUME NEW i \in 0..(n - 1) PROVE h[g[q[i]]] = q[i]
  <2>1. CASE i < k
    <3>1. /\ i + 1 \in 1..k /\ i \in 0..k /\ i + 1 \in 0..k /\ i # n - 1 /\ i + 1 \in 0..(n - 1)
          /\ (i + 1) - 1 = i
      BY <1>1, <1>5, <2>1
    <3>2. g[q[i]] = x[i + 1]
      BY <1>4, <1>7, <3>1
    <3>3. x[i + 1] \in S
      BY <1>1, <3>1
    <3>4. h[x[i + 1]] = x[At(x[i + 1]) - 1]
      BY <1>5, <3>1, <3>3
    <3>5. At(x[i + 1]) = i + 1
      BY <1>6, <3>1
    <3> QED
      BY <1>7, <3>1, <3>2, <3>4, <3>5
  <2>2. CASE ~(i < k)
    <3>1. q[i] = z[i] /\ i \in Nat /\ z[i + 1] = f[q[i]] /\ q[i] \in S
      BY <1>1, <1>4, <1>5, <2>2
    <3>2. g[q[i]] = z[i + 1] /\ \A j \in 1..k : x[j] # g[q[i]]
      <4>1. CASE i = n - 1
        <5>1. g[q[i]] = q[0] /\ z[i + 1] = a /\ q[0] = x[0] /\ x[0] = a
          BY <1>1, <1>4, <1>5, <1>7, <4>1
        <5>2. \A j \in 1..k : j \in 0..(n - 1) /\ 0 \in 0..(n - 1) /\ j # 0
          BY <1>1, <1>5
        <5> QED
          BY <1>1, <5>1, <5>2
      <4>2. CASE i # n - 1
        <5>1. i + 1 \in 0..(n - 1) /\ ~(i + 1 < k) /\ i + 1 > k
          BY <1>1, <1>5, <2>2, <4>2
        <5>2. g[q[i]] = q[i + 1] /\ q[i + 1] = z[i + 1]
          BY <1>4, <1>5, <4>2, <5>1
        <5>3. \A j \in 1..k : j \in 0..(n - 1) /\ j \in 0..k /\ j # i + 1
          BY <1>1, <1>5, <5>1
        <5>4. \A j \in 1..k : q[j] = x[j]
          BY <1>7, <5>3
        <5> QED
          BY <1>4, <5>1, <5>2, <5>3, <5>4
      <4> QED
        BY <4>1, <4>2
    <3>3. g[q[i]] \in S
      BY <1>2, <3>1 DEF OneCycle
    <3>4. h[g[q[i]]] = b[g[q[i]]]
      BY <1>5, <3>2, <3>3
    <3>5. b[f[q[i]]] = q[i]
      BY <3>1 DEF Backwards
    <3> QED
      BY <3>1, <3>2, <3>4, <3>5
  <2> QED
    BY <2>1, <2>2
<1>9. ASSUME NEW y \in S PROVE h[g[y]] = y
  BY <1>4, <1>8
<1>10. ASSUME NEW y \in S PROVE h[y] \in S /\ g[h[y]] = y
  <2>1. PICK i \in 0..(n - 1) : q[i] = y
    BY <1>4
  <2>2. PICK j \in 0..(n - 1) : g[q[j]] = y
    <3>1. CASE i = 0
      <4>1. n - 1 \in 0..(n - 1)
        BY <1>1
      <4> QED
        BY <1>4, <2>1, <3>1, <4>1
    <3>2. CASE i # 0
      <4>1. i - 1 \in 0..(n - 1) /\ i - 1 # n - 1 /\ (i - 1) + 1 = i
        BY <1>1, <3>2
      <4>2. g[q[i - 1]] = q[(i - 1) + 1]
        BY <1>4, <4>1
      <4> QED
        BY <2>1, <4>1, <4>2
    <3> QED
      BY <3>1, <3>2
  <2> QED
    BY <1>4, <1>9, <2>2
<1> QED
  BY <1>9, <1>10 DEF Backwards

-----------------------------------------------------------------------------
(* The nodes that are not taken out. *)

LEMMA NodesCounted == IsFiniteSet(Node) /\ Cardinality(Node) = N /\ N \in Nat /\ N >= 5
<1>1. N \in Nat /\ N >= 5
  BY MergeAssumption
<1>2. IsFiniteSet(1..N) /\ Cardinality(1..N) = N
  <2>1. 1 \in Int /\ N \in Int /\ ~(1 > N) /\ N - 1 + 1 = N
    BY <1>1
  <2> QED
    BY <2>1, FS_Interval
<1> QED
  BY <1>1, <1>2 DEF Node

\* The k-th node after x on f is the first one that is in A.
FirstIn(k, f, A, x) ==
    k \in 1..N /\ Along(f, x, k) \in A /\ \A j \in 1..(k - 1) : Along(f, x, j) \notin A

LEMMA NextActiveIs ==
    ASSUME NEW f, OneCycle(Node, f), NEW A \in SUBSET Node, A # {}, NEW x \in Node
    PROVE  \E k \in 1..N : FirstIn(k, f, A, x) /\ NextActive(f, A, x) = Along(f, x, k)
<1> DEFINE K == {k \in 1..N : Along(f, x, k) \in A}
<1>1. RoundOf(Walk(f, x, N), Node, f, x, N)
  BY NodesCounted, Round
<1>2. /\ \A i \in 0..N : Walk(f, x, N)[i] = Along(f, x, i)
      /\ \A y \in Node : \E i \in 0..(N - 1) : Walk(f, x, N)[i] = y
      /\ Walk(f, x, N)[0] = x /\ Walk(f, x, N)[N] = x
  BY <1>1 DEF RoundOf, Numbering
<1>3. N \in Nat /\ N >= 5
  BY NodesCounted
<1>4. K # {}
  <2>1. PICK y \in A : y \in Node
    OBVIOUS
  <2>2. PICK i \in 0..(N - 1) : Along(f, x, i) = y
    BY <1>2, <1>3, <2>1
  <2>3. CASE i = 0
    <3>1. Along(f, x, N) = y /\ N \in 1..N
      BY <1>2, <1>3, <2>2, <2>3
    <3> QED
      BY <2>1, <3>1
  <2>4. CASE i # 0
    <3>1. i \in 1..N
      BY <1>3, <2>4
    <3> QED
      BY <2>1, <2>2, <3>1
  <2> QED
    BY <2>3, <2>4
<1>5. K \in SUBSET Nat
  BY <1>3
<1>6. PICK m \in K : \A j \in K : m <= j
  <2> HIDE DEF K
  <2> QED
    BY <1>4, <1>5, Least
<1>7. m \in 1..N /\ Along(f, x, m) \in A /\ \A j \in 1..(m - 1) : Along(f, x, j) \notin A
  <2>1. m \in 1..N /\ Along(f, x, m) \in A
    BY <1>6
  <2>2. ASSUME NEW j \in 1..(m - 1), Along(f, x, j) \in A PROVE FALSE
    <3>1. j \in 1..N /\ j < m
      BY <1>3, <2>1
    <3>2. j \in K /\ j \in Int /\ m \in Int
      BY <1>3, <2>1, <2>2, <3>1
    <3> HIDE DEF K
    <3> QED
      BY <1>6, <3>1, <3>2
  <2> QED
    BY <2>1, <2>2
<1> DEFINE l == CHOOSE k \in 1..N : /\ Along(f, x, k) \in A
                                    /\ \A j \in 1..(k - 1) : Along(f, x, j) \notin A
<1>8. /\ l \in 1..N /\ Along(f, x, l) \in A /\ \A j \in 1..(l - 1) : Along(f, x, j) \notin A
  BY <1>7
<1>9. NextActive(f, A, x) = Along(f, x, l)
  BY DEF NextActive
<1> HIDE DEF l
<1> QED
  BY <1>8, <1>9 DEF FirstIn

\* Two first nodes are the same.
LEMMA OneFirst ==
    ASSUME NEW f, NEW A, NEW x, NEW k, NEW l, FirstIn(k, f, A, x), FirstIn(l, f, A, x)
    PROVE  k = l
<1>1. k \in 1..N /\ l \in 1..N /\ N \in Nat
  BY NodesCounted DEF FirstIn
<1>2. ~(k < l)
  <2> SUFFICES ASSUME k < l PROVE FALSE
    OBVIOUS
  <2>1. k \in 1..(l - 1)
    BY <1>1
  <2> QED
    BY <2>1 DEF FirstIn
<1>3. ~(l < k)
  <2> SUFFICES ASSUME l < k PROVE FALSE
    OBVIOUS
  <2>1. l \in 1..(k - 1)
    BY <1>1
  <2> QED
    BY <2>1 DEF FirstIn
<1> QED
  BY <1>1, <1>2, <1>3

LEMMA NextActiveStep ==
    ASSUME NEW f, OneCycle(Node, f), NEW A \in SUBSET Node, A # {}, NEW x \in Node
    PROVE  NextActive(f, A, x) = IF f[x] \in A THEN f[x] ELSE NextActive(f, A, f[x])
<1>1. f[x] \in Node /\ N \in Nat /\ N >= 5
  BY NodesCounted DEF OneCycle
<1>2. PICK k \in 1..N : FirstIn(k, f, A, x) /\ NextActive(f, A, x) = Along(f, x, k)
  BY NextActiveIs
<1>3. PICK l \in 1..N : FirstIn(l, f, A, f[x]) /\ NextActive(f, A, f[x]) = Along(f, f[x], l)
  BY <1>1, NextActiveIs
<1>4. \A j \in Nat : Along(f, x, j + 1) = Along(f, f[x], j)
  BY AlongFirst DEF OneCycle
<1>5. Along(f, x, 1) = f[x]
  <2>1. Along(f, x, 0 + 1) = f[Along(f, x, 0)] /\ Along(f, x, 0) = x
    BY AlongIs DEF OneCycle
  <2> QED
    BY <2>1
<1>6. CASE f[x] \in A
  <2>1. k = 1
    <3> SUFFICES ASSUME k # 1 PROVE FALSE
      OBVIOUS
    <3>1. 1 \in 1..(k - 1)
      BY <1>1
    <3> QED
      BY <1>2, <1>5, <1>6, <3>1 DEF FirstIn
  <2> QED
    BY <1>2, <1>5, <1>6, <2>1
<1>7. CASE f[x] \notin A
  <2>1. k # 1
    BY <1>2, <1>5, <1>7 DEF FirstIn
  <2>2. k - 1 \in Nat /\ (k - 1) + 1 = k /\ k - 1 \in 1..N
    BY <1>1, <2>1
  <2>3. Along(f, f[x], k - 1) = Along(f, x, k)
    BY <1>4, <2>2
  <2>4. \A j \in 1..((k - 1) - 1) : Along(f, f[x], j) \notin A
    <3> TAKE j \in 1..((k - 1) - 1)
    <3>1. j \in Nat /\ j + 1 \in 1..(k - 1)
      BY <1>1
    <3> QED
      BY <1>2, <1>4, <3>1 DEF FirstIn
  <2>5. FirstIn(k - 1, f, A, f[x])
    BY <1>2, <2>2, <2>3, <2>4 DEF FirstIn
  <2>6. k - 1 = l
    BY <1>3, <2>5, OneFirst
  <2> QED
    BY <1>2, <1>3, <1>7, <2>3, <2>6
<1> QED
  BY <1>6, <1>7

\* The cycle that is left of f when only the nodes of A are kept.
LEMMA Shortcut ==
    ASSUME NEW f, OneCycle(Node, f), NEW A \in SUBSET Node, A # {},
           NEW g, \A x \in A : g[x] = NextActive(f, A, x)
    PROVE  OneCycle(A, g)
<1>1. N \in Nat /\ N >= 5
  BY NodesCounted
<1>2. ASSUME NEW x \in A PROVE \E k \in 1..N : FirstIn(k, f, A, x) /\ g[x] = Along(f, x, k)
  BY NextActiveIs
<1>3. \A x \in A : g[x] \in A
  BY <1>2 DEF FirstIn
<1>4. ASSUME NEW x \in A, NEW y \in A, NEW k \in 1..N, NEW l \in 1..N, k <= l,
             FirstIn(k, f, A, x), FirstIn(l, f, A, y), Along(f, x, k) = Along(f, y, l)
      PROVE  x = y
  <2>1. x \in Node /\ y \in Node /\ k \in Nat /\ l - k \in Nat /\ (l - k) + k = l
    BY <1>1, <1>4
  <2>2. x = Along(f, y, l - k)
    BY <1>4, <2>1, BackShift
  <2>3. CASE l = k
    <3>1. Along(f, y, 0) = y
      BY <2>1, AlongIs DEF OneCycle
    <3>2. l - k = 0
      BY <1>1, <2>3
    <3> QED
      BY <2>2, <3>1, <3>2
  <2>4. CASE l # k
    <3>1. l - k \in 1..(l - 1)
      BY <1>1, <1>4, <2>4
    <3> QED
      BY <1>4, <2>2, <3>1 DEF FirstIn
  <2> QED
    BY <2>3, <2>4
<1>5. ASSUME NEW x \in A, NEW y \in A, g[x] = g[y] PROVE x = y
  <2>1. PICK k \in 1..N : FirstIn(k, f, A, x) /\ g[x] = Along(f, x, k)
    BY <1>2
  <2>2. PICK l \in 1..N : FirstIn(l, f, A, y) /\ g[y] = Along(f, y, l)
    BY <1>2
  <2>3. k <= l \/ l <= k
    BY <1>1
  <2> QED
    BY <1>4, <1>5, <2>1, <2>2, <2>3
<1>6. ASSUME NEW T \in SUBSET A, T # {}, \A x \in T : g[x] \in T PROVE T = A
  <2> DEFINE U == {y \in Node : (IF y \in A THEN y ELSE NextActive(f, A, y)) \in T}
  <2>1. U \in SUBSET Node /\ U # {}
    BY <1>6
  <2>2. ASSUME NEW y \in U PROVE f[y] \in U
    <3>1. f[y] \in Node /\ y \in Node
      BY DEF OneCycle
    <3>2. NextActive(f, A, y) = IF f[y] \in A THEN f[y] ELSE NextActive(f, A, f[y])
      BY <3>1, NextActiveStep
    <3>3. NextActive(f, A, y) \in T
      BY <1>6
    <3> QED
      BY <3>1, <3>2, <3>3
  <2>3. U = Node
    <3> HIDE DEF U
    <3> QED
      BY <2>1, <2>2 DEF OneCycle
  <2> QED
    BY <2>3
<1> QED
  BY <1>3, <1>5, <1>6 DEF OneCycle

-----------------------------------------------------------------------------
(* Ranks. *)

\* A number below 2 n modulo n.
LEMMA ModSmall ==
    ASSUME NEW n \in Nat, n # 0, NEW a \in Nat, a < n + n
    PROVE  a % n = IF a < n THEN a ELSE a - n
<1>1. CASE a < n
  BY <1>1
<1>2. CASE ~(a < n)
  <2>1. a % n = (a - n) % n
    BY <1>2
  <2> QED
    BY <1>2, <2>1
<1> QED
  BY <1>1, <1>2

\* r counts the nodes of S along f, from 1 to n, and begins again.
Ranked(r, S, f, n) == \A x \in S : r[x] \in 1..n /\ r[f[x]] = (r[x] % n) + 1

\* T1 at the call.
FirstTour == [x \in Node |-> (x % N) + 1]

LEMMA FirstTourIs ==
    /\ OneCycle(Node, FirstTour)
    /\ \A x \in Node : FirstTour[x] = IF x = N THEN 1 ELSE x + 1
<1>1. N \in Nat /\ N >= 5
  BY NodesCounted
<1>2. ASSUME NEW x \in Node PROVE FirstTour[x] = IF x = N THEN 1 ELSE x + 1
  <2>1. x \in Nat /\ N # 0 /\ x < N + N /\ x <= N
    BY <1>1 DEF Node
  <2>2. x % N = IF x < N THEN x ELSE x - N
    BY <1>1, <2>1, ModSmall
  <2> QED
    BY <1>1, <2>1, <2>2 DEF FirstTour
<1> DEFINE q == [i \in 0..(N - 1) |-> i + 1]
<1>3. Numbering(Node, N, q)
  <2>1. \A i \in 0..(N - 1) : q[i] \in Node /\ q[i] = i + 1
    BY <1>1 DEF Node
  <2>2. ASSUME NEW y \in Node PROVE \E i \in 0..(N - 1) : q[i] = y
    <3>1. y - 1 \in 0..(N - 1) /\ (y - 1) + 1 = y
      BY <1>1 DEF Node
    <3> QED
      BY <2>1, <3>1
  <2> QED
    BY <2>1, <2>2 DEF Numbering
<1>4. Turns(FirstTour, N, q)
  <2> SUFFICES ASSUME NEW i \in 0..(N - 1)
               PROVE  FirstTour[q[i]] = IF i = N - 1 THEN q[0] ELSE q[i + 1]
    BY DEF Turns
  <2>1. q[i] = i + 1 /\ i + 1 \in Node /\ q[0] = 1 /\ (i # N - 1 => q[i + 1] = (i + 1) + 1)
    BY <1>1 DEF Node
  <2> HIDE DEF q
  <2> QED
    BY <1>1, <1>2, <2>1
<1>5. OneCycle(Node, FirstTour)
  <2> HIDE DEF q
  <2> QED
    BY <1>1, <1>3, <1>4, ByPlaces
<1> QED
  BY <1>2, <1>5

LEMMA AlongFirstTour ==
    ASSUME NEW x \in Node
    PROVE  \A k \in 0..N : Along(FirstTour, x, k) = IF x + k <= N THEN x + k ELSE x + k - N
<1> DEFINE E == {k \in Nat : k <= N =>
                     Along(FirstTour, x, k) = IF x + k <= N THEN x + k ELSE x + k - N}
<1>1. N \in Nat /\ N >= 5 /\ x \in 1..N
  BY NodesCounted DEF Node
<1>2. /\ Along(FirstTour, x, 0) = x
      /\ \A k \in Nat : /\ Along(FirstTour, x, k) \in Node
                        /\ Along(FirstTour, x, k + 1) = FirstTour[Along(FirstTour, x, k)]
  BY FirstTourIs, AlongIs DEF OneCycle
<1>3. 0 \in E
  BY <1>1, <1>2
<1>4. ASSUME NEW k \in Nat, k \in E PROVE k + 1 \in E
  <2>1. k + 1 <= N => Along(FirstTour, x, k) = IF x + k <= N THEN x + k ELSE x + k - N
    BY <1>1, <1>4
  <2>2. Along(FirstTour, x, k + 1) = IF Along(FirstTour, x, k) = N THEN 1
                                     ELSE Along(FirstTour, x, k) + 1
    BY <1>2, FirstTourIs
  <2> QED
    BY <1>1, <2>1, <2>2
<1> HIDE DEF E
<1>5. \A k \in Nat : k \in E
  BY <1>3, <1>4, UpFromZero
<1>6. \A k \in 0..N : k \in Nat /\ k <= N
  BY <1>1
<1> QED
  BY <1>5, <1>6 DEF E

\* On T1 the active node after another is the next larger one, after the largest the
\* smallest.
LEMMA NextLarger ==
    ASSUME NEW A \in SUBSET Node, NEW top \in A, \A y \in A : y <= top, NEW x \in A,
           NEW s, s = NextActive(FirstTour, A, x)
    PROVE  /\ s \in A
           /\ x # top => x < s /\ \A y \in A : y <= x \/ s <= y
           /\ x = top => \A y \in A : s <= y
<1>1. N \in Nat /\ N >= 5 /\ x \in 1..N /\ top \in 1..N /\ x <= top /\ A # {} /\ x \in Node
  BY NodesCounted DEF Node
<1>2. PICK k \in 1..N : FirstIn(k, FirstTour, A, x) /\ s = Along(FirstTour, x, k)
  BY <1>1, NextActiveIs, FirstTourIs
<1> DEFINE a(i) == IF x + i <= N THEN x + i ELSE x + i - N
<1>3. k \in 1..N /\ s = a(k) /\ s \in A /\ \A j \in 1..(k - 1) : a(j) \notin A
  <2>1. \A j \in 0..N : Along(FirstTour, x, j) = a(j)
    BY <1>1, AlongFirstTour
  <2>2. \A j \in 1..(k - 1) : j \in 0..N
    BY <1>1
  <2>3. k \in 0..N
    BY <1>1
  <2> HIDE DEF a
  <2> QED
    BY <1>2, <2>1, <2>2, <2>3 DEF FirstIn
<1>4. CASE x # top
  <2>1. k <= top - x
    <3> SUFFICES ASSUME ~(k <= top - x) PROVE FALSE
      OBVIOUS
    <3>1. top - x \in 1..(k - 1) /\ a(top - x) = top
      BY <1>1, <1>4
    <3> QED
      BY <1>3, <3>1
  <2>2. s = x + k
    BY <1>1, <1>3, <2>1
  <2>3. ASSUME NEW y \in A, ~(y <= x), ~(s <= y) PROVE FALSE
    <3>1. y \in 1..N
      BY DEF Node
    <3>2. y - x \in 1..(k - 1) /\ a(y - x) = y
      BY <1>1, <2>2, <2>3, <3>1
    <3> QED
      BY <1>3, <3>2
  <2>4. x < s
    BY <1>1, <2>2
  <2> QED
    BY <1>3, <1>4, <2>3, <2>4
<1>5. CASE x = top
  <2>1. k > N - top
    <3> SUFFICES ASSUME ~(k > N - top) PROVE FALSE
      OBVIOUS
    <3>1. s = x + k /\ s > top
      BY <1>1, <1>3, <1>5
    <3> QED
      BY <1>1, <1>3, <3>1
  <2>2. s = x + k - N
    BY <1>1, <1>3, <1>5, <2>1
  <2>3. ASSUME NEW y \in A, ~(s <= y) PROVE FALSE
    <3>1. y \in 1..N
      BY DEF Node
    <3>2. y + N - top \in 1..(k - 1) /\ a(y + N - top) = y
      BY <1>1, <1>5, <2>2, <2>3, <3>1
    <3> QED
      BY <1>3, <3>2
  <2> QED
    BY <1>3, <1>5, <2>3
<1> QED
  BY <1>4, <1>5

\* The ranks that Shrink sets.
LEMMA RanksCount ==
    ASSUME NEW A \in SUBSET Node, NEW top \in A, \A y \in A : y <= top,
           NEW f, \A x \in A : f[x] = NextActive(FirstTour, A, x),
           NEW r, \A x \in A : r[x] = 1 + Cardinality({y \in A : y <= x /\ x # top})
    PROVE  Ranked(r, A, f, Cardinality(A))
<1> DEFINE n == Cardinality(A)
           up(x) == {y \in A : y <= x}
<1>1. IsFiniteSet(A) /\ n \in Nat /\ n # 0 /\ \A x \in A : x \in Nat
  <2>1. IsFiniteSet(A)
    BY NodesCounted, FS_Subset
  <2>2. A # {} /\ \A x \in A : x \in Nat
    BY DEF Node
  <2> QED
    BY <2>1, <2>2, FS_CardinalityType, FS_EmptySet
<1>2. \A x \in A : IsFiniteSet(up(x)) /\ Cardinality(up(x)) \in Nat /\ Cardinality(up(x)) <= n
  <2> SUFFICES ASSUME NEW x \in A
               PROVE  IsFiniteSet(up(x)) /\ Cardinality(up(x)) \in Nat /\ Cardinality(up(x)) <= n
    OBVIOUS
  <2>1. up(x) \in SUBSET A
    OBVIOUS
  <2> QED
    BY <1>1, <2>1, FS_Subset, FS_CardinalityType
<1>3. up(top) = A
  OBVIOUS
<1>4. \A x \in A : x # top => r[x] = 1 + Cardinality(up(x))
  <2> SUFFICES ASSUME NEW x \in A, x # top PROVE r[x] = 1 + Cardinality(up(x))
    OBVIOUS
  <2>1. {y \in A : y <= x /\ x # top} = up(x)
    OBVIOUS
  <2> QED
    BY <2>1
<1>5. r[top] = 1
  <2>1. {y \in A : y <= top /\ top # top} = {}
    OBVIOUS
  <2> QED
    BY <2>1, FS_EmptySet
<1>6. ASSUME NEW x \in A, x # top
      PROVE  /\ f[x] \in A /\ Cardinality(up(f[x])) = Cardinality(up(x)) + 1
             /\ Cardinality(up(x)) < n
  <2>1. f[x] \in A /\ x < f[x] /\ \A y \in A : y <= x \/ f[x] <= y
    BY <1>6, NextLarger
  <2>2. up(f[x]) = up(x) \cup {f[x]} /\ f[x] \notin up(x)
    BY <1>1, <2>1
  <2>3. Cardinality(up(f[x])) = Cardinality(up(x)) + 1
    BY <1>2, <2>2, FS_AddElement
  <2>4. Cardinality(up(f[x])) <= n
    BY <1>2, <2>1
  <2> HIDE DEF n, up
  <2> QED
    BY <1>1, <1>2, <2>1, <2>3, <2>4
<1>7. f[top] \in A /\ up(f[top]) = {f[top]}
  <2>1. f[top] \in A /\ \A y \in A : f[top] <= y
    BY NextLarger
  <2> QED
    BY <1>1, <2>1
<1>8. Cardinality(up(f[top])) = 1
  BY <1>7, FS_Singleton
<1>9. ASSUME NEW x \in A PROVE r[x] \in 1..n
  <2>1. CASE x = top
    BY <1>1, <1>5, <2>1
  <2>2. CASE x # top
    <3>1. Cardinality(up(x)) \in Nat /\ Cardinality(up(x)) < n /\ r[x] = 1 + Cardinality(up(x))
      BY <1>2, <1>4, <1>6, <2>2
    <3> HIDE DEF n, up
    <3> QED
      BY <1>1, <3>1
  <2> QED
    BY <2>1, <2>2
<1>10. ASSUME NEW x \in A PROVE r[f[x]] = (r[x] % n) + 1
  <2>1. r[x] \in Nat /\ r[x] < n + n /\ r[x] <= n /\ r[x] >= 1
    <3> HIDE DEF n
    <3> QED
      BY <1>1, <1>9
  <2>2. r[x] % n = IF r[x] < n THEN r[x] ELSE r[x] - n
    BY <1>1, <2>1, ModSmall
  <2>3. CASE x = top
    <3>1. CASE f[top] = top
      <4>1. n = 1
        BY <1>3, <1>8, <3>1
      <4> QED
        BY <1>5, <2>2, <2>3, <3>1, <4>1
    <3>2. CASE f[top] # top
      <4>1. r[f[top]] = 2
        BY <1>4, <1>7, <1>8, <3>2
      <4>2. n # 1
        <5>1. {top, f[top]} \in SUBSET A
          BY <1>7
        <5> QED
          BY <1>1, <1>7, <3>2, FS_Singleton
      <4> HIDE DEF n
      <4> QED
        BY <1>1, <1>5, <2>2, <2>3, <4>1, <4>2
    <3> QED
      BY <3>1, <3>2
  <2>4. CASE x # top
    <3>1. /\ f[x] \in A /\ Cardinality(up(f[x])) = r[x] /\ r[x] = Cardinality(up(x)) + 1
      <4>1. Cardinality(up(x)) \in Nat
        BY <1>2
      <4>2. r[x] = 1 + Cardinality(up(x))
        BY <1>4, <2>4
      <4>3. f[x] \in A /\ Cardinality(up(f[x])) = Cardinality(up(x)) + 1
        BY <1>6, <2>4
      <4> HIDE DEF up
      <4> QED
        BY <4>1, <4>2, <4>3
    <3>2. CASE f[x] = top
      <4>1. r[x] = n
        BY <1>3, <3>1, <3>2
      <4> HIDE DEF n
      <4> QED
        BY <1>1, <1>5, <2>2, <3>2, <4>1
    <3>3. CASE f[x] # top
      <4>1. r[f[x]] = 1 + r[x] /\ r[f[x]] \in 1..n
        BY <1>4, <1>9, <3>1, <3>3
      <4> HIDE DEF n
      <4> QED
        BY <1>1, <2>1, <2>2, <4>1
    <3> QED
      BY <3>2, <3>3
  <2> QED
    BY <2>3, <2>4
<1> QED
  BY <1>9, <1>10 DEF Ranked

\* Ranks along a walk round the tour; their differences are the steps.
LEMMA RanksAlong ==
    ASSUME NEW S, NEW n, NEW f, NEW a, NEW z, RoundOf(z, S, f, a, n), NEW r, Ranked(r, S, f, n)
    PROVE  \A i \in 0..(n - 1) : /\ r[z[i]] = IF r[a] + i <= n THEN r[a] + i ELSE r[a] + i - n
                                 /\ (r[z[i]] - r[a] + n) % n = i
<1>1. /\ n \in Nat /\ n # 0 /\ z[0] = a
      /\ \A i \in 0..n : z[i] \in S
      /\ \A i \in 0..(n - 1) : z[i + 1] = f[z[i]]
  BY DEF RoundOf
<1>2. \A x \in S : r[x] \in 1..n /\ r[f[x]] = IF r[x] = n THEN 1 ELSE r[x] + 1
  <2> SUFFICES ASSUME NEW x \in S
               PROVE  r[x] \in 1..n /\ r[f[x]] = IF r[x] = n THEN 1 ELSE r[x] + 1
    OBVIOUS
  <2>1. r[x] \in 1..n /\ r[f[x]] = (r[x] % n) + 1
    BY DEF Ranked
  <2>2. r[x] \in Nat /\ r[x] < n + n /\ r[x] <= n
    BY <1>1, <2>1
  <2>3. r[x] % n = IF r[x] < n THEN r[x] ELSE r[x] - n
    BY <1>1, <2>2, ModSmall
  <2> QED
    BY <1>1, <2>1, <2>2, <2>3
<1> DEFINE E == {i \in Nat : i < n => r[z[i]] = IF r[a] + i <= n THEN r[a] + i ELSE r[a] + i - n}
<1>3. a \in S /\ r[a] \in 1..n
  BY <1>1, <1>2
<1>4. 0 \in E
  BY <1>1, <1>3
<1>5. ASSUME NEW i \in Nat, i \in E PROVE i + 1 \in E
  <2> SUFFICES ASSUME i + 1 < n
               PROVE  r[z[i + 1]] = IF r[a] + (i + 1) <= n THEN r[a] + (i + 1) ELSE r[a] + (i + 1) - n
    OBVIOUS
  <2>1. i \in 0..(n - 1) /\ i \in 0..n
    BY <1>1
  <2>2. r[z[i]] = IF r[a] + i <= n THEN r[a] + i ELSE r[a] + i - n
    BY <1>1, <1>5, <2>1
  <2>3. r[z[i + 1]] = IF r[z[i]] = n THEN 1 ELSE r[z[i]] + 1
    BY <1>1, <1>2, <2>1
  <2> QED
    BY <1>1, <1>3, <2>1, <2>2, <2>3
<1>6. ASSUME NEW i \in 0..(n - 1)
      PROVE  r[z[i]] = IF r[a] + i <= n THEN r[a] + i ELSE r[a] + i - n
  <2>1. i \in Nat /\ i < n
    BY <1>1
  <2>2. i \in E
    <3> HIDE DEF E
    <3> QED
      BY <1>4, <1>5, <2>1, UpFromZero
  <2> QED
    BY <2>1, <2>2
<1>7. ASSUME NEW i \in 0..(n - 1) PROVE (r[z[i]] - r[a] + n) % n = i
  <2> DEFINE d == r[z[i]] - r[a] + n
  <2>1. d \in Nat /\ d < n + n /\ (d = i + n \/ (d = i))
    BY <1>1, <1>3, <1>6
  <2> HIDE DEF d
  <2>2. d % n = IF d < n THEN d ELSE d - n
    BY <1>1, <2>1, ModSmall
  <2>3. d % n = i
    BY <1>1, <2>1, <2>2
  <2> QED
    BY <2>3 DEF d
<1> QED
  BY <1>6, <1>7

-----------------------------------------------------------------------------
(* What the scan finds. *)

\* The two tours while they are merged.
Merging ==
    /\ active \in SUBSET Node /\ active # {}
    /\ OneCycle(active, oldSuc) /\ Backwards(oldPrd, active, oldSuc)
    /\ OneCycle(active, next) /\ Backwards(prev, active, next)
    /\ Ranked(rank, active, oldSuc, Size)
    /\ first \in active

\* A stretch to be replaced.
Stretch(b) ==
    /\ b.n1 \in active /\ b.forward \in BOOLEAN
    /\ b.k \in 1..(Size - 1)
    /\ Ahead(b.n1, b.forward, b.k) = b.k
    /\ \A j \in 1..(b.k - 1) : Ahead(b.n1, b.forward, j) < b.k

\* What the scan holds.
Scanned ==
    {b \in [k : 0..Size, n1 : {0} \cup active, forward : BOOLEAN, over : BOOLEAN] :
        b.n1 = 0 \/ Stretch(b)}

LEMMA ScanFinds ==
    ASSUME Merging, Scan.n1 # 0
    PROVE  Stretch(Scan)
<1> DEFINE start == [k |-> Size \div 2, n1 |-> 0, forward |-> TRUE, over |-> FALSE]
           Found(n1, forward, best) ==
               LET ks == SubSizes(n1, forward, best.k)
               IN  IF ks = {} THEN best
                   ELSE LET k == CHOOSE k \in ks : TRUE
                        IN  [k |-> k, n1 |-> n1, forward |-> forward, over |-> FALSE]
           At(i) == Along(oldSuc, first, i - 1)
           step(i, best) ==
               LET n1 == At(i)
                   found == Found(n1, FALSE, Found(n1, TRUE, best))
               IN  IF best.over \/ oldSuc[n1] \in {next[n1], prev[n1]} THEN best
                   ELSE [found EXCEPT !.over = (found.k = BestMinSubSize)]
           Rec(w) == [i \in 0..Size |-> IF i = 0 THEN start ELSE step(i, w[i - 1])]
<1>1. Size \in Nat /\ Size # 0
  BY NodesCounted, FS_Subset, FS_CardinalityType, FS_EmptySet DEF Merging, Size
<1>2. Scan = (CHOOSE w : w = Rec(w))[Size]
  BY DEF Scan
<1>3. start \in Scanned
  <2>1. Size \div 2 \in 0..Size
    BY <1>1
  <2> QED
    BY <2>1 DEF Scanned
<1>4. ASSUME NEW n1 \in active, NEW forward \in BOOLEAN, NEW best \in Scanned
      PROVE  Found(n1, forward, best) \in Scanned
  <2> DEFINE ks == SubSizes(n1, forward, best.k)
             k == CHOOSE k \in ks : TRUE
  <2>1. CASE ks = {}
    BY <1>4, <2>1
  <2>2. CASE ks # {}
    <3>1. k \in ks
      BY <2>2
    <3>2. best.k \in 0..Size
      BY <1>4 DEF Scanned
    <3> DEFINE b == [k |-> k, n1 |-> n1, forward |-> forward, over |-> FALSE]
    <3>3. Found(n1, forward, best) = b
      BY <2>2
    <3> HIDE DEF k, ks
    <3>4. /\ k \in 1..(best.k - 1) /\ Ahead(n1, forward, k) = k
          /\ \A j \in 1..(k - 1) : Ahead(n1, forward, j) < k
      BY <3>1 DEF ks, SubSizes
    <3>5. k \in 1..(Size - 1) /\ k \in 0..Size
      BY <1>1, <3>2, <3>4
    <3>6. Stretch(b)
      BY <3>4, <3>5 DEF Stretch
    <3>7. b \in Scanned
      BY <3>5, <3>6 DEF Scanned
    <3> HIDE DEF b, Found
    <3> QED
      BY <3>3, <3>7
  <2> QED
    BY <2>1, <2>2
<1>5. ASSUME NEW i \in 1..Size PROVE At(i) \in active
  <2>1. i - 1 \in Nat
    BY <1>1
  <2> QED
    BY <2>1, AlongIs DEF Merging, OneCycle
<1>6. ASSUME NEW i \in 1..Size, NEW best \in Scanned PROVE step(i, best) \in Scanned
  <2> DEFINE n1 == At(i)
             found == Found(n1, FALSE, Found(n1, TRUE, best))
             over == (found.k = BestMinSubSize)
  <2>1. n1 \in active
    BY <1>5
  <2> HIDE DEF n1
  <2>2. found \in Scanned
    <3> HIDE DEF Found
    <3> QED
      BY <1>4, <1>6, <2>1
  <2> HIDE DEF found
  <2>3. [found EXCEPT !.over = over] \in Scanned
    BY <2>2 DEF Scanned, Stretch
  <2>4. step(i, best) = IF best.over \/ oldSuc[n1] \in {next[n1], prev[n1]} THEN best
                        ELSE [found EXCEPT !.over = over]
    BY DEF n1, found
  <2> HIDE DEF step
  <2> QED
    BY <1>6, <2>3, <2>4
<1> HIDE DEF start, step
<1> DEFINE F == [ib \in (1..Size) \X Scanned |-> step(ib[1], ib[2])]
<1>7. F \in [(1..Size) \X Scanned -> Scanned]
  BY <1>6
<1>8. PICK w : Steps(w, start, F, Size, Scanned)
  <2> HIDE DEF F
  <2> QED
    BY <1>1, <1>3, <1>7, StepByStep
<1>9. w = Rec(w)
  <2>1. w \in [0..Size -> Scanned] /\ w[0] = start
    BY <1>8 DEF Steps
  <2>2. ASSUME NEW i \in 1..Size PROVE w[i] = step(i, w[i - 1])
    <3>1. <<i, w[i - 1]>> \in (1..Size) \X Scanned
      BY <1>1, <2>1
    <3> QED
      BY <1>8, <3>1 DEF Steps
  <2>3. ASSUME NEW i \in 0..Size PROVE w[i] = Rec(w)[i]
    <3>1. i = 0 \/ i \in 1..Size
      BY <1>1
    <3> QED
      BY <2>1, <2>2, <3>1
  <2> QED
    BY <2>1, <2>3
<1> DEFINE v == CHOOSE u : u = Rec(u)
<1>10. v = Rec(v)
  <2> HIDE DEF Rec
  <2>1. \E u : u = Rec(u)
    BY <1>9
  <2> QED
    BY <2>1
<1> HIDE DEF v
<1> DEFINE E == {i \in Nat : i <= Size => v[i] \in Scanned}
<1>11. 0 \in E
  BY <1>1, <1>3, <1>10
<1>12. ASSUME NEW i \in Nat, i \in E PROVE i + 1 \in E
  <2> SUFFICES ASSUME i + 1 <= Size PROVE v[i + 1] \in Scanned
    OBVIOUS
  <2>1. v[i] \in Scanned /\ i + 1 \in 1..Size /\ (i + 1) - 1 = i /\ i + 1 # 0 /\ i + 1 \in 0..Size
    BY <1>1, <1>12
  <2>2. v[i + 1] = step(i + 1, v[i])
    BY <1>10, <2>1
  <2> QED
    BY <1>6, <2>1, <2>2
<1>13. Scan \in Scanned
  <2>1. Size \in E
    <3> HIDE DEF E
    <3> QED
      BY <1>1, <1>11, <1>12, UpFromZero
  <2> QED
    BY <1>1, <1>2, <2>1 DEF v
<1> QED
  BY <1>13 DEF Scanned

\* The stretch has the same nodes in both tours and ends at the same one.
LEMMA StretchIsSame ==
    ASSUME Merging, NEW b, Stretch(b)
    PROVE  /\ RoundOf(Walk(oldSuc, b.n1, Size), active, oldSuc, b.n1, Size)
           /\ RoundOf(Walk(Way(b.forward), b.n1, Size), active, Way(b.forward), b.n1, Size)
           /\ SamePart(Walk(Way(b.forward), b.n1, Size), Walk(oldSuc, b.n1, Size), b.k)
<1> DEFINE n == Size
           a == b.n1
           k == b.k
           w == Way(b.forward)
           x == Walk(w, a, n)
           z == Walk(oldSuc, a, n)
<1>1. IsFiniteSet(active) /\ OneCycle(active, oldSuc) /\ OneCycle(active, w) /\ a \in active
  <2>1. OneCycle(active, prev)
    BY InverseCycle DEF Merging
  <2>2. IsFiniteSet(active)
    BY NodesCounted, FS_Subset DEF Merging
  <2> QED
    BY <2>1, <2>2 DEF Merging, Way, Stretch
<1>2. RoundOf(z, active, oldSuc, a, n) /\ RoundOf(x, active, w, a, n)
  BY <1>1, Round DEF Size
<1>3. /\ k \in 1..(n - 1) /\ Ahead(a, b.forward, k) = k
      /\ \A j \in 1..(k - 1) : Ahead(a, b.forward, j) < k
  BY DEF Stretch
<1>4. \A j \in 0..n : Ahead(a, b.forward, j) = (rank[x[j]] - rank[a] + n) % n
  BY DEF Ahead, Walk
<1>5. Ranked(rank, active, oldSuc, n)
  BY DEF Merging
<1> HIDE DEF n, a, k, w, x, z
<1>6. \A i \in 0..(n - 1) : (rank[z[i]] - rank[a] + n) % n = i
  BY <1>2, <1>5, RanksAlong
<1>7. /\ n \in Nat /\ n # 0 /\ z[0] = a /\ x[0] = a
      /\ \A y \in active : \E i \in 0..(n - 1) : z[i] = y
      /\ \A i \in 0..(n - 1) : x[i] \in active
      /\ \A i, j \in 0..(n - 1) : x[i] = x[j] => i = j
  BY <1>2 DEF RoundOf, Numbering
<1>8. ASSUME NEW j \in 0..(n - 1)
      PROVE  Ahead(a, b.forward, j) \in 0..(n - 1) /\ z[Ahead(a, b.forward, j)] = x[j]
  <2>1. PICK i \in 0..(n - 1) : z[i] = x[j]
    BY <1>7
  <2>2. j \in 0..n
    BY <1>7
  <2>3. Ahead(a, b.forward, j) = i
    BY <1>4, <1>6, <2>1, <2>2
  <2> QED
    BY <2>1, <2>3
<1>9. x[k] = z[k]
  <2>1. k \in 0..(n - 1)
    BY <1>3, <1>7
  <2> QED
    BY <1>3, <1>8, <2>1
<1> DEFINE h == [j \in 0..(k - 1) |-> Ahead(a, b.forward, j)]
<1>10. \A j \in 0..(k - 1) : h[j] \in 0..(k - 1) /\ x[j] = z[h[j]]
  <2> SUFFICES ASSUME NEW j \in 0..(k - 1) PROVE h[j] \in 0..(k - 1) /\ x[j] = z[h[j]]
    OBVIOUS
  <2>1. j \in 0..(n - 1) /\ 0 \in 0..(n - 1) /\ (j = 0 \/ j \in 1..(k - 1)) /\ k \in Nat /\ k >= 1
    BY <1>3, <1>7
  <2>2. Ahead(a, b.forward, j) \in 0..(n - 1) /\ z[Ahead(a, b.forward, j)] = x[j]
    BY <1>8, <2>1
  <2>3. CASE j = 0
    <3>1. Ahead(a, b.forward, 0) = 0
      <4>1. Ahead(a, b.forward, 0) = (rank[x[0]] - rank[a] + n) % n
        BY <1>4, <1>7
      <4> QED
        BY <1>6, <1>7, <2>1, <4>1
    <3> QED
      BY <2>1, <2>2, <2>3, <3>1
  <2>4. CASE j \in 1..(k - 1)
    <3>1. Ahead(a, b.forward, j) < k
      BY <1>3, <2>4
    <3> QED
      BY <1>7, <2>1, <2>2, <3>1
  <2> QED
    BY <2>1, <2>3, <2>4
<1>11. h \in Injection(0..(k - 1), 0..(k - 1))
  <2>1. h \in [0..(k - 1) -> 0..(k - 1)]
    BY <1>10
  <2>2. ASSUME NEW i \in 0..(k - 1), NEW j \in 0..(k - 1), h[i] = h[j] PROVE i = j
    <3>1. x[i] = x[j]
      <4> HIDE DEF h
      <4> QED
        BY <1>10, <2>2
    <3>2. i \in 0..(n - 1) /\ j \in 0..(n - 1)
      BY <1>3, <1>7
    <3> QED
      BY <1>7, <3>1, <3>2
  <2> QED
    BY <2>1, <2>2 DEF Injection, IsInjective
<1> HIDE DEF h
<1>12. h \in Surjection(0..(k - 1), 0..(k - 1))
  <2>1. IsFiniteSet(0..(k - 1))
    <3>1. 0 \in Int /\ k - 1 \in Int
      BY <1>3, <1>7
    <3> QED
      BY <3>1, FS_Interval
  <2> QED
    BY <1>11, <2>1, FS_Injection
<1>13. \A i \in 0..(k - 1) : \E j \in 0..(k - 1) : z[i] = x[j]
  <2> SUFFICES ASSUME NEW i \in 0..(k - 1) PROVE \E j \in 0..(k - 1) : z[i] = x[j]
    OBVIOUS
  <2>1. PICK j \in 0..(k - 1) : h[j] = i
    BY <1>12 DEF Surjection
  <2> QED
    BY <1>10, <2>1
<1>14. SamePart(x, z, k)
  BY <1>9, <1>10, <1>13 DEF SamePart
<1> QED
  BY <1>2, <1>14 DEF n, a, k, w, x, z

-----------------------------------------------------------------------------
(* The steps. *)

\* Numbers along the numbering that begin with m and go up to n and on from 1.
LEMMA RankedByPlaces ==
    ASSUME NEW S, NEW n \in Nat, n # 0, NEW q, NEW g, Numbering(S, n, q), Turns(g, n, q),
           NEW m \in 1..n, NEW r,
           \A i \in 0..(n - 1) : r[q[i]] = IF m + i <= n THEN m + i ELSE m + i - n
    PROVE  Ranked(r, S, g, n)
<1> SUFFICES ASSUME NEW y \in S PROVE r[y] \in 1..n /\ r[g[y]] = (r[y] % n) + 1
  BY DEF Ranked
<1>1. PICK i \in 0..(n - 1) : q[i] = y
  BY DEF Numbering
<1>2. r[y] = IF m + i <= n THEN m + i ELSE m + i - n
  BY <1>1
<1>3. r[y] \in 1..n /\ r[y] \in Nat /\ r[y] < n + n
  BY <1>2
<1>4. r[y] % n = IF r[y] < n THEN r[y] ELSE r[y] - n
  BY <1>3, ModSmall
<1>5. CASE i = n - 1
  <2>1. g[y] = q[0] /\ 0 \in 0..(n - 1)
    BY <1>1, <1>5 DEF Turns
  <2>2. r[g[y]] = m
    BY <2>1
  <2> QED
    BY <1>2, <1>3, <1>4, <1>5, <2>2
<1>6. CASE i # n - 1
  <2>1. g[y] = q[i + 1] /\ i + 1 \in 0..(n - 1)
    BY <1>1, <1>6 DEF Turns
  <2>2. r[g[y]] = IF m + (i + 1) <= n THEN m + (i + 1) ELSE m + (i + 1) - n
    BY <2>1
  <2> QED
    BY <1>2, <1>3, <1>4, <1>6, <2>2
<1> QED
  BY <1>5, <1>6

LEMMA ImproveT1Keeps ==
    ASSUME Merging, NEW b, Stretch(b), ImproveT1(b.n1, b.forward, b.k),
           active' = active, first' \in active
    PROVE  Merging'
<1> DEFINE n == Size
           a == b.n1
           k == b.k
           w == Way(b.forward)
           x == Walk(w, a, n)
           z == Walk(oldSuc, a, n)
           q == [i \in 0..(n - 1) |-> IF i < k THEN x[i] ELSE z[i]]
           At(y) == CHOOSE i \in 0..k : x[i] = y
<1>1. /\ RoundOf(z, active, oldSuc, a, n) /\ RoundOf(x, active, w, a, n) /\ SamePart(x, z, k)
  BY StretchIsSame
<1>2. k \in 1..(n - 1) /\ n \in Nat /\ n # 0 /\ a \in active
  BY <1>1 DEF Stretch, RoundOf
<1>3. \A i \in 0..n : x[i] = Along(w, a, i)
  BY <1>1 DEF RoundOf
<1>4. \A i \in 0..k : i \in 0..n
  BY <1>2
<1>5. \A y : (CHOOSE i \in 0..k : Along(w, a, i) = y) = At(y)
  BY <1>3, <1>4
<1>6. /\ oldSuc' = [y \in Node |-> IF y \in {Along(w, a, i) : i \in 0..(k - 1)} THEN w[y] ELSE oldSuc[y]]
      /\ oldPrd' = [y \in Node |-> IF \E i \in 1..k : Along(w, a, i) = y
                                   THEN Along(w, a, (CHOOSE i \in 0..k : Along(w, a, i) = y) - 1)
                                   ELSE oldPrd[y]]
      /\ rank' = [y \in Node |->
                     IF y \in {Along(w, a, i) : i \in 0..(k - 1)}
                     THEN ((rank[a] + (CHOOSE i \in 0..k : Along(w, a, i) = y) - 1) % n) + 1
                     ELSE rank[y]]
      /\ next' = next /\ prev' = prev
  BY DEF ImproveT1
<1>7. /\ active \in SUBSET Node /\ Backwards(oldPrd, active, oldSuc)
      /\ Ranked(rank, active, oldSuc, n)
  BY DEF Merging
<1> HIDE DEF n, a, k, w, x, z, At
<1>8. \A i \in 0..k : At(x[i]) = i
  <2> SUFFICES ASSUME NEW i \in 0..k PROVE At(x[i]) = i
    OBVIOUS
  <2>1. At(x[i]) \in 0..k /\ x[At(x[i])] = x[i]
    BY DEF At
  <2>2. \A u, v \in 0..(n - 1) : x[u] = x[v] => u = v
    BY <1>1 DEF RoundOf, Numbering
  <2> QED
    BY <1>2, <2>1, <2>2
<1>9. Exchanged(oldSuc', active, oldSuc, w, x, k)
  <2> SUFFICES ASSUME NEW y \in active
               PROVE  oldSuc'[y] = IF \E i \in 0..(k - 1) : x[i] = y THEN w[y] ELSE oldSuc[y]
    BY DEF Exchanged
  <2>1. \A i \in 0..(k - 1) : x[i] = Along(w, a, i)
    BY <1>2, <1>3
  <2>2. y \in Node
    BY <1>7
  <2> QED
    BY <1>6, <2>1, <2>2
<1>10. Numbering(active, n, q) /\ Turns(oldSuc', n, q) /\ OneCycle(active, oldSuc')
  BY <1>1, <1>2, <1>9, Exchange
<1>11. Backwards(oldPrd', active, oldSuc')
  <2>1. \A y \in active : oldPrd'[y] = IF \E i \in 1..k : x[i] = y THEN x[At(y) - 1] ELSE oldPrd[y]
    <3> SUFFICES ASSUME NEW y \in active
                 PROVE  oldPrd'[y] = IF \E i \in 1..k : x[i] = y THEN x[At(y) - 1] ELSE oldPrd[y]
      OBVIOUS
    <3>1. y \in Node
      BY <1>7
    <3>2. \A i \in 1..k : i \in 0..k /\ i - 1 \in 0..n /\ x[i] = Along(w, a, i)
      BY <1>2, <1>3
    <3>3. CASE \E i \in 1..k : x[i] = y
      <4>1. PICK i \in 1..k : x[i] = y
        BY <3>3
      <4>2. At(y) = i /\ oldPrd'[y] = Along(w, a, At(y) - 1)
        BY <1>5, <1>6, <1>8, <3>1, <3>2, <4>1
      <4> QED
        BY <1>3, <3>2, <3>3, <4>2
    <3>4. CASE ~\E i \in 1..k : x[i] = y
      BY <1>6, <3>1, <3>2, <3>4
    <3> QED
      BY <3>3, <3>4
  <2> QED
    BY <1>1, <1>2, <1>7, <1>9, <2>1, ExchangeBack DEF At
<1>12. Ranked(rank', active, oldSuc', n)
  <2>1. rank[a] \in 1..n
    BY <1>2, <1>7 DEF Ranked
  <2>2. ASSUME NEW i \in 0..(n - 1)
        PROVE  rank'[q[i]] = IF rank[a] + i <= n THEN rank[a] + i ELSE rank[a] + i - n
    <3>1. q[i] = IF i < k THEN x[i] ELSE z[i]
      OBVIOUS
    <3>2. x[i] \in active /\ z[i] \in active
      BY <1>1 DEF RoundOf, Numbering
    <3>3. x[i] \in Node /\ z[i] \in Node
      BY <1>7, <3>2
    <3>4. CASE i < k
      <4>1. i \in 0..(k - 1) /\ i \in 0..k /\ i \in 0..n
        BY <1>2, <3>4
      <4>2. rank'[x[i]] = ((rank[a] + At(x[i]) - 1) % n) + 1
        BY <1>3, <1>5, <1>6, <3>3, <4>1
      <4>3. rank'[x[i]] = ((rank[a] + i - 1) % n) + 1
        BY <1>8, <4>1, <4>2
      <4> DEFINE d == rank[a] + i - 1
      <4>4. d \in Nat /\ d < n + n
        BY <1>2, <2>1
      <4> HIDE DEF d
      <4>5. d % n = IF d < n THEN d ELSE d - n
        BY <1>2, <4>4, ModSmall
      <4>6. rank'[x[i]] = (IF d < n THEN d ELSE d - n) + 1
        BY <4>3, <4>5 DEF d
      <4> QED
        BY <1>2, <2>1, <3>1, <3>4, <4>6 DEF d
    <3>5. CASE ~(i < k)
      <4>1. \A j \in 0..(k - 1) : Along(w, a, j) # z[i]
        <5> SUFFICES ASSUME NEW j \in 0..(k - 1), Along(w, a, j) = z[i] PROVE FALSE
          OBVIOUS
        <5>1. j \in 0..n /\ j \in 0..(n - 1) /\ j < k /\ j # i
          BY <1>2, <3>5
        <5>2. q[j] = q[i]
          BY <1>3, <3>1, <3>5, <5>1
        <5> HIDE DEF q
        <5> QED
          BY <1>10, <5>1, <5>2 DEF Numbering
      <4>2. rank'[z[i]] = rank[z[i]]
        BY <1>6, <3>3, <4>1
      <4>3. rank[z[i]] = IF rank[a] + i <= n THEN rank[a] + i ELSE rank[a] + i - n
        BY <1>1, <1>7, RanksAlong
      <4> QED
        BY <3>1, <3>5, <4>2, <4>3
    <3> QED
      BY <3>4, <3>5
  <2> HIDE DEF q
  <2> QED
    BY <1>2, <1>10, <2>1, <2>2, RankedByPlaces
<1>13. Size' = n
  BY DEF Size, n
<1> QED
  BY <1>6, <1>10, <1>11, <1>12, <1>13 DEF Merging

LEMMA ImproveT2Keeps ==
    ASSUME Merging, NEW b, Stretch(b), ImproveT2(b.n1, b.forward, b.k),
           active' = active, first' \in active
    PROVE  Merging'
<1> DEFINE n == Size
           a == b.n1
           k == b.k
           f == Way(b.forward)
           g == Way(~b.forward)
           z == Walk(f, a, n)
           x == Walk(oldSuc, a, n)
           path == {Along(oldSuc, a, i) : i \in 0..(k - 1)}
           after == {Along(oldSuc, a, i) : i \in 1..k}
           succ == [y \in Node |-> IF y \in path THEN oldSuc[y]
                                   ELSE IF b.forward THEN next[y] ELSE prev[y]]
           pred == [y \in Node |-> IF y \in after
                                   THEN Along(oldSuc, a, (CHOOSE i \in 0..k : Along(oldSuc, a, i) = y) - 1)
                                   ELSE IF b.forward THEN prev[y] ELSE next[y]]
           At(y) == CHOOSE i \in 0..k : x[i] = y
<1>1. /\ RoundOf(z, active, f, a, n) /\ RoundOf(x, active, oldSuc, a, n) /\ SamePart(z, x, k)
  BY StretchIsSame
<1>2. SamePart(x, z, k)
  BY <1>1 DEF SamePart
<1>3. k \in 1..(n - 1) /\ n \in Nat /\ n # 0 /\ a \in active
  BY <1>1 DEF Stretch, RoundOf
<1>4. \A i \in 0..n : x[i] = Along(oldSuc, a, i)
  BY <1>1 DEF RoundOf
<1>5. \A i \in 0..k : i \in 0..n
  BY <1>3
<1>6. \A y : (CHOOSE i \in 0..k : Along(oldSuc, a, i) = y) = At(y)
  BY <1>4, <1>5
<1>7. /\ next' = IF b.forward THEN succ ELSE pred
      /\ prev' = IF b.forward THEN pred ELSE succ
      /\ UNCHANGED <<oldSuc, oldPrd, rank>>
  BY DEF ImproveT2
<1>8. active \in SUBSET Node /\ Backwards(g, active, f)
  <2>1. OneCycle(active, next) /\ Backwards(prev, active, next) /\ active \in SUBSET Node
    BY DEF Merging
  <2>2. Backwards(next, active, prev)
    BY <2>1, InverseCycle
  <2>3. b.forward \in BOOLEAN
    BY DEF Stretch
  <2> QED
    BY <2>1, <2>2, <2>3 DEF Way
<1>9. /\ \A y \in Node : succ[y] = IF y \in path THEN oldSuc[y] ELSE f[y]
      /\ \A y \in Node : pred[y] = IF y \in after THEN Along(oldSuc, a, At(y) - 1) ELSE g[y]
  <2>1. /\ \A y : f[y] = IF b.forward THEN next[y] ELSE prev[y]
        /\ \A y : g[y] = IF b.forward THEN prev[y] ELSE next[y]
    BY DEF Way
  <2> HIDE DEF f, g, At, path, after
  <2>2. \A y \in Node : succ[y] = IF y \in path THEN oldSuc[y] ELSE f[y]
    BY <2>1
  <2>3. ASSUME NEW y \in Node
        PROVE  pred[y] = IF y \in after THEN Along(oldSuc, a, At(y) - 1) ELSE g[y]
    <3>1. pred[y] = IF y \in after
                    THEN Along(oldSuc, a, (CHOOSE i \in 0..k : Along(oldSuc, a, i) = y) - 1)
                    ELSE IF b.forward THEN prev[y] ELSE next[y]
      OBVIOUS
    <3> HIDE DEF pred
    <3> QED
      BY <1>6, <2>1, <3>1
  <2> QED
    BY <2>2, <2>3
<1> HIDE DEF n, a, k, f, g, x, z, At, succ, pred
<1>10. \A i \in 0..k : At(x[i]) = i
  <2> SUFFICES ASSUME NEW i \in 0..k PROVE At(x[i]) = i
    OBVIOUS
  <2>1. At(x[i]) \in 0..k /\ x[At(x[i])] = x[i]
    BY DEF At
  <2>2. \A u, v \in 0..(n - 1) : x[u] = x[v] => u = v
    BY <1>1 DEF RoundOf, Numbering
  <2> QED
    BY <1>3, <2>1, <2>2
<1>11. Exchanged(succ, active, f, oldSuc, x, k)
  <2> SUFFICES ASSUME NEW y \in active
               PROVE  succ[y] = IF \E i \in 0..(k - 1) : x[i] = y THEN oldSuc[y] ELSE f[y]
    BY DEF Exchanged
  <2>1. \A i \in 0..(k - 1) : x[i] = Along(oldSuc, a, i)
    BY <1>3, <1>4
  <2>2. y \in Node
    BY <1>8
  <2> QED
    BY <1>9, <2>1, <2>2
<1>12. OneCycle(active, succ)
  BY <1>1, <1>2, <1>3, <1>11, Exchange
<1>13. Backwards(pred, active, succ)
  <2>1. \A y \in active : pred[y] = IF \E i \in 1..k : x[i] = y THEN x[At(y) - 1] ELSE g[y]
    <3> SUFFICES ASSUME NEW y \in active
                 PROVE  pred[y] = IF \E i \in 1..k : x[i] = y THEN x[At(y) - 1] ELSE g[y]
      OBVIOUS
    <3>1. y \in Node
      BY <1>8
    <3>2. \A i \in 1..k : i \in 0..k /\ i - 1 \in 0..n /\ x[i] = Along(oldSuc, a, i)
      BY <1>3, <1>4
    <3>3. CASE \E i \in 1..k : x[i] = y
      <4>1. PICK i \in 1..k : x[i] = y
        BY <3>3
      <4>2. At(y) = i /\ pred[y] = Along(oldSuc, a, At(y) - 1)
        BY <1>9, <1>10, <3>1, <3>2, <4>1
      <4> QED
        BY <1>4, <3>2, <3>3, <4>2
    <3>4. CASE ~\E i \in 1..k : x[i] = y
      BY <1>9, <3>1, <3>2, <3>4
    <3> QED
      BY <3>3, <3>4
  <2> QED
    BY <1>1, <1>2, <1>3, <1>8, <1>11, <2>1, ExchangeBack DEF At
<1>14. OneCycle(active, pred) /\ Backwards(succ, active, pred)
  BY <1>12, <1>13, InverseCycle
<1>15. OneCycle(active, next') /\ Backwards(prev', active, next')
  BY <1>7, <1>12, <1>13, <1>14
<1>16. Size' = Size
  BY DEF Size
<1> QED
  BY <1>7, <1>15, <1>16 DEF Merging

LEMMA MergeKeeps ==
    ASSUME Merging, Merge
    PROVE  Merging'
<1> DEFINE b == Scan
           gain == GainOf(b.n1, b.forward, b.k)
<1>1. /\ b.n1 # 0 /\ active' = active
      /\ ImproveT1(b.n1, b.forward, b.k) \/ ImproveT2(b.n1, b.forward, b.k)
      /\ first' = IF b.forward THEN Along(oldSuc, b.n1, b.k) ELSE b.n1
  BY DEF Merge, fields
<1>2. Stretch(b)
  BY <1>1, ScanFinds
<1> HIDE DEF b
<1>3. first' \in active
  <2>1. b.n1 \in active /\ b.k \in Nat
    BY <1>2 DEF Stretch
  <2>2. Along(oldSuc, b.n1, b.k) \in active
    BY <2>1, AlongIs DEF Merging, OneCycle
  <2> QED
    BY <1>1, <2>1, <2>2
<1> QED
  BY <1>1, <1>2, <1>3, ImproveT1Keeps, ImproveT2Keeps

\* The largest of some nodes.
LEMMA MaxIs ==
    ASSUME NEW A \in SUBSET Node, A # {}
    PROVE  Max(A) \in A /\ \A y \in A : y <= Max(A)
<1>1. N \in Nat /\ \A y \in A : y \in 1..N
  BY NodesCounted DEF Node
<1> DEFINE K == {N - y : y \in A}
<1>2. K \in SUBSET Nat /\ K # {}
  BY <1>1
<1>3. PICK m \in K : \A j \in K : m <= j
  <2> HIDE DEF K
  <2> QED
    BY <1>2, Least
<1>4. PICK t \in A : m = N - t
  BY <1>3
<1>5. \A y \in A : t >= y
  <2> SUFFICES ASSUME NEW y \in A PROVE t >= y
    OBVIOUS
  <2>1. N - y \in K
    OBVIOUS
  <2>2. m <= N - y
    BY <1>3, <2>1
  <2> QED
    BY <1>1, <1>4, <2>2
<1>6. Max(A) \in A /\ \A y \in A : Max(A) >= y
  BY <1>5 DEF Max
<1> QED
  BY <1>1, <1>6

LEMMA ShrinkKeeps ==
    ASSUME suc = FirstTour, OneCycle(Node, next), Shrink, pc' = "merge"
    PROVE  Merging'
<1> DEFINE A == active'
           top == Max(A)
           s1 == [x \in Node |-> IF x \in A THEN NextActive(suc, A, x) ELSE suc[x]]
           s2 == [x \in Node |-> IF x \in A THEN NextActive(next, A, x) ELSE next[x]]
<1>1. /\ A = Differs /\ A # {}
      /\ oldSuc' = s1 /\ next' = s2
      /\ oldPrd' = [x \in Node |-> IF x \in A THEN CHOOSE y \in A : s1[y] = x ELSE prd[x]]
      /\ prev' = [x \in Node |-> IF x \in A THEN CHOOSE y \in A : s2[y] = x ELSE prev[x]]
      /\ first' = top
      /\ rank' = [x \in Node |-> IF x \notin A THEN rank[x]
                                 ELSE 1 + Cardinality({y \in A : y <= x /\ x # top})]
  BY DEF Shrink
<1>2. A \in SUBSET Node
  BY <1>1 DEF Differs
<1>3. IsFiniteSet(A)
  BY <1>2, NodesCounted, FS_Subset
<1>4. top \in A /\ \A y \in A : y <= top
  BY <1>1, <1>2, MaxIs
<1>5. /\ \A x \in A : oldSuc'[x] = NextActive(FirstTour, A, x)
      /\ \A x \in A : next'[x] = NextActive(next, A, x)
      /\ \A x \in A : oldPrd'[x] = CHOOSE y \in A : oldSuc'[y] = x
      /\ \A x \in A : prev'[x] = CHOOSE y \in A : next'[y] = x
      /\ \A x \in A : rank'[x] = 1 + Cardinality({y \in A : y <= x /\ x # top})
  <2> HIDE DEF top
  <2> QED
    BY <1>1, <1>2
<1> HIDE DEF A, top
<1>6. OneCycle(A, oldSuc') /\ OneCycle(A, next')
  BY <1>1, <1>2, <1>5, FirstTourIs, Shortcut
<1>7. Backwards(oldPrd', A, oldSuc') /\ Backwards(prev', A, next')
  BY <1>3, <1>5, <1>6, InverseOf
<1>8. Ranked(rank', A, oldSuc', Cardinality(A))
  BY <1>2, <1>4, <1>5, RanksCount
<1> QED
  BY <1>1, <1>2, <1>4, <1>6, <1>7, <1>8 DEF Merging, Size, A, top

-----------------------------------------------------------------------------
(* The invariant. *)

IInv ==
    /\ pc = "shrink" => suc = FirstTour /\ OneCycle(Node, next)
    /\ pc = "merge" => Merging

LEMMA InitInv == Init => IInv
<1> SUFFICES ASSUME Init PROVE IInv
  OBVIOUS
<1>1. suc = FirstTour /\ pc = "shrink" /\ next \in Nodes!Tours
  BY MergeAssumption DEF Init, FirstTour
<1>2. OneCycle(Node, next)
  BY <1>1 DEF Nodes!Tours, Nodes!IsTour, Nodes!Injective, Nodes!SingleCycle, OneCycle
<1> QED
  BY <1>1, <1>2 DEF IInv

LEMMA StepInv == IInv /\ [Next]_vars => IInv'
<1> SUFFICES ASSUME IInv, [Next]_vars PROVE IInv'
  OBVIOUS
<1>1. CASE Shrink
  <2>1. pc = "shrink" /\ pc' \in {"done", "merge"}
    BY <1>1 DEF Shrink
  <2>2. pc' = "merge" => Merging'
    BY <1>1, <2>1, ShrinkKeeps DEF IInv
  <2> QED
    BY <2>1, <2>2 DEF IInv
<1>2. CASE Merge
  <2>1. pc = "merge" /\ pc' = "merge"
    BY <1>2 DEF Merge
  <2>2. Merging'
    BY <1>2, <2>1, MergeKeeps DEF IInv
  <2> QED
    BY <2>1, <2>2 DEF IInv
<1>3. CASE Return
  <2>1. pc' = "done"
    BY <1>3 DEF Return
  <2> QED
    BY <2>1 DEF IInv
<1>4. CASE UNCHANGED vars
  <2>1. UNCHANGED <<suc, next, prev, active, oldSuc, oldPrd, rank, first, pc>>
    BY <1>4 DEF vars, fields
  <2> QED
    BY <2>1 DEF IInv, Merging, Size
<1> QED
  BY <1>1, <1>2, <1>3, <1>4 DEF Next

LEMMA InvImplies == IInv => ShrunkenToursAreTours
<1> SUFFICES ASSUME IInv, pc = "merge"
             PROVE  /\ Shrunken!SingleCycle(oldSuc) /\ Shrunken!Inverses(oldSuc, oldPrd)
                    /\ Shrunken!SingleCycle(next) /\ Shrunken!Inverses(next, prev)
                    /\ \A x \in active : rank[oldSuc[x]] = (rank[x] % Size) + 1
  BY DEF ShrunkenToursAreTours
<1>1. Merging
  BY DEF IInv
<1>2. Shrunken!SingleCycle(oldSuc) /\ Shrunken!SingleCycle(next)
  BY <1>1 DEF Merging, OneCycle, Shrunken!SingleCycle
<1>3. Shrunken!Inverses(oldSuc, oldPrd) /\ Shrunken!Inverses(next, prev)
  BY <1>1 DEF Merging, Backwards, Shrunken!Inverses
<1>4. \A x \in active : rank[oldSuc[x]] = (rank[x] % Size) + 1
  BY <1>1 DEF Merging, Ranked
<1> QED
  BY <1>2, <1>3, <1>4

\* While two tours are merged, each is one cycle through the nodes that are not in the
\* same place in both, forwards and backwards, and ranks count those of the first.
THEOREM MergedAreTours == Spec => []ShrunkenToursAreTours
<1>1. Init => IInv
  BY InitInv
<1>2. IInv /\ [Next]_vars => IInv'
  BY StepInv
<1>3. IInv => ShrunkenToursAreTours
  BY InvImplies
<1> QED
  BY <1>1, <1>2, <1>3, PTL DEF Spec

=============================================================================
