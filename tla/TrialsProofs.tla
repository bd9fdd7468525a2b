----------------------------- MODULE TrialsProofs -----------------------------
(***************************************************************************)
(* Trials for every number of nodes, every set of problems with integer    *)
(* costs, every number of runs and trials: the hash table, which is shared *)
(* by all of them and cleared only when a tour is recorded, never ends a   *)
(* search at a tour better than the best one.                              *)
(*                                                                         *)
(* The inductive invariant says of each cost in the table that it is not   *)
(* below the best one, or is of this search and above Cost: every tour     *)
(* that a search inserts is one that it leaves for a better one or ends    *)
(* with, and one that it ends with is recorded or worse than the best.     *)
(* All that is needed of the moves is that they gain.                      *)
(***************************************************************************)
EXTENDS Trials, FiniteSetTheorems, TLAPS

\* The cost of the best tour of all runs that the program knows of.
Known == Min({bestCost, better})

Searching == pc \in {"pop", "side", "move"}

TableInv ==
    /\ p \in Instances
    /\ cost \in Int /\ better \in Int /\ bestCost \in Int
    /\ sides \subseteq Node
    /\ pc = "move" /\ t1 \in Node => G0 \in Int
    /\ hit \in BOOLEAN /\ (Searching => ~hit)
    /\ pc = "end" /\ hit => cost >= Known
    /\ \A e \in table : /\ e[2] \in Int
                        /\ \/ e[2] >= Known
                           \/ Searching /\ e[2] > cost
                           \/ pc = "end" /\ ~hit /\ e[2] >= cost

-----------------------------------------------------------------------------
(* Costs are integers. *)

\* Induction over the numbers, for a set.
LEMMA UpFromZero ==
    ASSUME NEW S, 0 \in S, \A n \in Nat : n \in S => n + 1 \in S
    PROVE  \A n \in Nat : n \in S
<1> SUFFICES ASSUME NEW m \in Nat, m \notin S PROVE FALSE
  OBVIOUS
<1> DEFINE A == {i \in 0..m : i \in S}
           f == [i \in A |-> i + 1]
<1>1. IsFiniteSet(A)
  <2>1. IsFiniteSet(0..m)
    BY FS_Interval
  <2> QED
    BY <2>1, FS_Subset
<1>2. \A i \in A : i \in Nat /\ i + 1 \in A
  OBVIOUS
<1>3. f \in [A -> A] /\ \A i, j \in A : f[i] = f[j] => i = j
  BY <1>2
<1>4. f \in Injection(A, A)
  BY <1>3 DEF Injection, IsInjective
<1>5. f \in Surjection(A, A)
  BY <1>1, <1>4, FS_Injection
<1>6. 0 \in A
  OBVIOUS
<1>7. \E i \in A : f[i] = 0
  BY <1>5, <1>6 DEF Surjection
<1> QED
  BY <1>2, <1>7

\* The sum of the costs of finitely many edges.
LEMMA SumIsInteger ==
    ASSUME NEW T, IsFiniteSet(T), \A e \in T : EdgeCost(e) \in Int
    PROVE  TourCost(T) \in Int
<1> DEFINE one(s) == CHOOSE x \in s : TRUE
           Sum(g) == [s \in SUBSET T |-> IF s = {} THEN 0 ELSE EdgeCost(one(s)) + g[s \ {one(s)}]]
           iter == CHOOSE iter : iter = Sum(iter)
<1>1. TourCost(T) = iter[T]
  BY DEF TourCost, MapThenSumSet, MapThenFoldSet
<1>2. ASSUME NEW s \in SUBSET T, s # {}
      PROVE  /\ one(s) \in s /\ EdgeCost(one(s)) \in Int /\ s \ {one(s)} \in SUBSET T
             /\ Cardinality(s) \in Nat /\ Cardinality(s \ {one(s)}) = Cardinality(s) - 1
             /\ Cardinality(s) # 0
  <2>1. one(s) \in s
    BY <1>2
  <2> HIDE DEF one
  <2>2. IsFiniteSet(s)
    BY FS_Subset
  <2>3. Cardinality(s \ {one(s)}) = Cardinality(s) - 1
    BY <2>1, <2>2, FS_RemoveElement
  <2>4. Cardinality(s) \in Nat /\ Cardinality(s) # 0
    BY <1>2, <2>2, FS_CardinalityType, FS_EmptySet
  <2> QED
    BY <2>1, <2>3, <2>4
<1>3. \A s \in SUBSET T : Cardinality(s) \in Nat /\ Cardinality(s) <= Cardinality(T)
  BY FS_Subset, FS_CardinalityType
<1> HIDE DEF one
<1> DEFINE Upto == {n \in Nat : \E g \in [SUBSET T -> Int] :
                                    \A s \in SUBSET T : Cardinality(s) <= n => g[s] = Sum(g)[s]}
<1>4. 0 \in Upto
  <2> DEFINE g == [s \in SUBSET T |-> 0]
  <2>1. ASSUME NEW s \in SUBSET T, Cardinality(s) <= 0 PROVE s = {}
    <3>1. s # {} => Cardinality(s) # 0
      BY <1>2
    <3> QED
      BY <1>3, <2>1, <3>1
  <2>2. g \in [SUBSET T -> Int] /\ \A s \in SUBSET T : Cardinality(s) <= 0 => g[s] = Sum(g)[s]
    BY <2>1
  <2> QED
    BY <2>2
<1>5. ASSUME NEW n \in Nat, n \in Upto PROVE n + 1 \in Upto
  <2>1. PICK g \in [SUBSET T -> Int] : \A s \in SUBSET T : Cardinality(s) <= n => g[s] = Sum(g)[s]
    BY <1>5
  <2>2. Sum(g) \in [SUBSET T -> Int]
    <3>1. ASSUME NEW s \in SUBSET T
          PROVE  (IF s = {} THEN 0 ELSE EdgeCost(one(s)) + g[s \ {one(s)}]) \in Int
      <4>1. CASE s = {}
        BY <4>1
      <4>2. CASE s # {}
        <5>1. EdgeCost(one(s)) \in Int /\ s \ {one(s)} \in SUBSET T
          BY <1>2, <4>2
        <5>2. g[s \ {one(s)}] \in Int
          BY <5>1
        <5> QED
          BY <4>2, <5>1, <5>2
      <4> QED
        BY <4>1, <4>2
    <3> QED
      BY <3>1
  <2>3. ASSUME NEW s \in SUBSET T, Cardinality(s) <= n + 1 PROVE Sum(g)[s] = Sum(Sum(g))[s]
    <3>1. CASE s = {}
      BY <3>1
    <3>2. CASE s # {}
      <4> DEFINE r == s \ {one(s)}
      <4>1. r \in SUBSET T /\ Cardinality(r) <= n
        BY <1>2, <2>3, <3>2
      <4>2. g[r] = Sum(g)[r]
        BY <2>1, <4>1
      <4>3. Sum(g)[s] = EdgeCost(one(s)) + g[r]
        BY <3>2
      <4> HIDE DEF r
      <4>4. Sum(Sum(g))[s] = EdgeCost(one(s)) + Sum(g)[r]
        <5> DEFINE h == Sum(g)
        <5> HIDE DEF h
        <5>1. Sum(h)[s] = EdgeCost(one(s)) + h[r]
          BY <3>2 DEF r
        <5> QED
          BY <5>1 DEF h
      <4> QED
        BY <4>2, <4>3, <4>4
    <3> QED
      BY <3>1, <3>2
  <2> DEFINE h == Sum(g)
  <2>4. h \in [SUBSET T -> Int] /\ \A s \in SUBSET T : Cardinality(s) <= n + 1 => h[s] = Sum(h)[s]
    BY <2>2, <2>3
  <2> HIDE DEF h, Sum
  <2> QED
    BY <2>4
<1>6. \E g : g = Sum(g)
  <2> HIDE DEF Upto
  <2>1. \A n \in Nat : n \in Upto
    BY <1>4, <1>5, UpFromZero
  <2>2. Cardinality(T) \in Upto
    BY <1>3, <2>1
  <2>3. PICK g \in [SUBSET T -> Int] : \A s \in SUBSET T : g[s] = Sum(g)[s]
    BY <1>3, <2>2 DEF Upto
  <2>4. g = [s \in SUBSET T |-> g[s]] /\ Sum(g) = [s \in SUBSET T |-> Sum(g)[s]]
    OBVIOUS
  <2> HIDE DEF Sum
  <2>5. g = Sum(g)
    BY <2>3, <2>4
  <2> QED
    BY <2>5
<1>7. iter = Sum(iter)
  <2> HIDE DEF Sum
  <2> QED
    BY <1>6
<1> HIDE DEF iter, Upto
<1>8. \A s \in SUBSET T : iter[s] = IF s = {} THEN 0 ELSE EdgeCost(one(s)) + iter[s \ {one(s)}]
  BY <1>7
<1> HIDE DEF Sum
<1> DEFINE Good == {n \in Nat : \A s \in SUBSET T : Cardinality(s) = n => iter[s] \in Int}
<1>9. 0 \in Good
  <2>1. ASSUME NEW s \in SUBSET T, Cardinality(s) = 0 PROVE iter[s] \in Int
    <3>1. s # {} => Cardinality(s) # 0
      BY <1>2
    <3>2. s = {}
      BY <2>1, <3>1
    <3>3. iter[s] = 0
      BY <1>8, <3>2
    <3> QED
      BY <3>3
  <2> QED
    BY <2>1
<1>10. ASSUME NEW n \in Nat, n \in Good PROVE n + 1 \in Good
  <2> SUFFICES ASSUME NEW s \in SUBSET T, Cardinality(s) = n + 1 PROVE iter[s] \in Int
    OBVIOUS
  <2>1. s # {}
    BY FS_EmptySet
  <2>2. Cardinality(s \ {one(s)}) = n /\ s \ {one(s)} \in SUBSET T /\ EdgeCost(one(s)) \in Int
    BY <1>2, <2>1
  <2>3. iter[s \ {one(s)}] \in Int
    BY <1>10, <2>2
  <2>4. iter[s] = EdgeCost(one(s)) + iter[s \ {one(s)}]
    BY <1>8, <2>1
  <2> QED
    BY <2>2, <2>3, <2>4
<1>11. iter[T] \in Int
  <2> HIDE DEF Good
  <2>1. \A n \in Nat : n \in Good
    BY <1>9, <1>10, UpFromZero
  <2>2. Cardinality(T) \in Good
    BY <1>3, <2>1
  <2> QED
    BY <2>2 DEF Good
<1> QED
  BY <1>1, <1>11

\* Any order of the nodes.
LEMMA OrderCost ==
    ASSUME p \in Instances, NEW s \in Orders
    PROVE  TourCost(EdgesOf(s)) \in Int
<1>1. N \in Nat /\ N >= 5 /\ Node = 1..N /\ IsFiniteSet(Node)
  BY LocalSearchAssumption, FS_Interval DEF Node
<1>2. s \in [Node -> Node] /\ s \in Surjection(Node, Node)
  BY DEF Orders, Surjection
<1>3. \A i, j \in Node : s[i] = s[j] => i = j
  <2>1. s \in Injection(Node, Node)
    BY <1>1, <1>2, FS_Surjection
  <2> QED
    BY <2>1 DEF Injection, IsInjective
<1>4. \A i \in Node : (i % N) + 1 \in Node /\ (i % N) + 1 # i
  BY <1>1
<1>5. \A e \in EdgesOf(s) : \E x, y \in Node : e = {x, y} /\ x # y
  BY <1>2, <1>3, <1>4 DEF EdgesOf
<1>6. \A e \in EdgesOf(s) : EdgeCost(e) \in Int
  <2> SUFFICES ASSUME NEW a \in Node, NEW b \in Node, a # b PROVE EdgeCost({a, b}) \in Int
    BY <1>5
  <2> DEFINE x == CHOOSE x \in {a, b} : TRUE
             y == CHOOSE y \in {a, b} : y # x
  <2>1. x \in {a, b}
    OBVIOUS
  <2> HIDE DEF x
  <2>2. y \in {a, b}
    BY <2>1
  <2> HIDE DEF y
  <2>3. p.c[x][y] \in Int
    BY <2>1, <2>2, <1>1, LocalSearchAssumption
  <2>4. EdgeCost({a, b}) = p.c[x][y]
    BY DEF EdgeCost, C, x, y
  <2> QED
    BY <2>3, <2>4
<1>7. IsFiniteSet(EdgesOf(s))
  <2> DEFINE f == [i \in Node |-> {s[i], s[(i % N) + 1]}]
  <2>1. f \in Surjection(Node, EdgesOf(s))
    BY DEF Surjection, EdgesOf
  <2> HIDE DEF f
  <2> QED
    BY <1>1, <2>1, FS_Surjection
<1> QED
  BY <1>6, <1>7, SumIsInteger

-----------------------------------------------------------------------------
(* Gains are integers. *)

\* The ends of the edges of a move that are chosen are nodes, counted from t2.
LEMMA EndsAreNodes ==
    ASSUME p.opt \in 2..5, NEW s, NEW k, NEW u \in Seq(Node), Len(u) \in {3, 5, 7, 9},
           NEW e \in M(s, k)!Ends(u)
    PROVE  e[1] \in Node
<1>1. ASSUME NEW x \in Node, NEW b PROVE M(s, k)!Side(x, b) \in Node
  BY LocalSearchAssumption DEF M!Side, M!SUC, M!PRD, Node
<1>2. \A i \in 1..Len(u) : u[i] \in Node
  OBVIOUS
<1>3. CASE Len(u) = 3
  <2>1. u[3] \in Node
    <3>1. 3 \in 1..Len(u)
      BY <1>3
    <3> QED
      BY <1>2, <3>1
  <2>2. M(s, k)!Ends(u) = M(s, k)!Ends4(u)
    BY <1>3 DEF M!Ends
  <2>3. \E b : e[1] = M(s, k)!Side(u[3], b)
    BY <2>2 DEF M!Ends4
  <2> QED
    BY <1>1, <2>1, <2>3
<1>4. CASE Len(u) = 5
  <2>1. u[5] \in Node
    <3>1. 5 \in 1..Len(u)
      BY <1>4
    <3> QED
      BY <1>2, <3>1
  <2>2. M(s, k)!Ends(u) = M(s, k)!Ends6(u)
    BY <1>4 DEF M!Ends
  <2>3. \E b : e[1] = M(s, k)!Side(u[5], b)
    BY <2>2 DEF M!Ends6, M!End6
  <2> QED
    BY <1>1, <2>1, <2>3
<1>5. CASE Len(u) = 7
  <2>1. u[7] \in Node
    <3>1. 7 \in 1..Len(u)
      BY <1>5
    <3> QED
      BY <1>2, <3>1
  <2>2. M(s, k)!Ends(u) = M(s, k)!Ends8(u, k)
    BY <1>5 DEF M!Ends
  <2>3. \E b : e[1] = M(s, k)!Side(u[7], b)
    BY <2>2 DEF M!Ends8, M!End8
  <2> QED
    BY <1>1, <2>1, <2>3
<1>6. CASE Len(u) = 9
  <2>1. u[9] \in Node
    <3>1. 9 \in 1..Len(u)
      BY <1>6
    <3> QED
      BY <1>2, <3>1
  <2>2. M(s, k)!Ends(u) = M(s, k)!Ends10(u, k)
    BY <1>6 DEF M!Ends
  <2>3. \E b : e[1] = M(s, k)!Side(u[9], b)
    BY <2>2 DEF M!Ends10
  <2> QED
    BY <1>1, <2>1, <2>3
<1> QED
  BY <1>3, <1>4, <1>5, <1>6

\* Moves of k pairs of nodes, with integers as gains.
Chosen(S, k) == \A m \in S : m.s \in Seq(Node) /\ Len(m.s) = 2 * k /\ m.g \in Int

\* Another pair.
LEMMA ExtensionsAreMoves ==
    ASSUME p \in Instances, NEW o \in [Node -> Node], NEW k \in 1..4, NEW S, Chosen(S, k)
    PROVE  Chosen(UNION {Extensions(m, o) : m \in S}, k + 1)
<1> SUFFICES ASSUME NEW m \in S, NEW n \in Extensions(m, o)
             PROVE  n.s \in Seq(Node) /\ Len(n.s) = 2 * (k + 1) /\ n.g \in Int
  BY DEF Chosen
<1> DEFINE x2 == o[m.s[Len(m.s)]]
<1>1. m.s \in Seq(Node) /\ Len(m.s) = 2 * k /\ m.g \in Int
  BY DEF Chosen
<1>2. x2 \in Node
  BY <1>1
<1> DEFINE I == {i \in M(m.s, m.case)!Candidates(m.s) :
                    o[i] \in cand[x2] /\ m.g - C(x2, o[i]) > 0}
           More(i) == {[s |-> Append(Append(m.s, i), e[1]), case |-> e[2],
                        g |-> m.g - C(x2, o[i]) + C(o[i], o[e[1]])] :
                          e \in M(Append(m.s, i), m.case)!Ends(Append(m.s, i))}
<1>3. PICK i \in M(m.s, m.case)!Candidates(m.s) : n \in More(i)
  <2>1. Extensions(m, o) = UNION {More(i) : i \in I}
    BY DEF Extensions
  <2> HIDE DEF More
  <2> QED
    BY <2>1
<1>4. PICK e \in M(Append(m.s, i), m.case)!Ends(Append(m.s, i)) :
          n = [s |-> Append(Append(m.s, i), e[1]), case |-> e[2],
               g |-> m.g - C(x2, o[i]) + C(o[i], o[e[1]])]
  BY <1>3
<1>5. i \in Node
  BY <1>3 DEF M!Candidates, M!Fresh, M!Node, Node
<1>6. Append(m.s, i) \in Seq(Node) /\ Len(Append(m.s, i)) \in {3, 5, 7, 9} /\ p.opt \in 2..5
      /\ Len(Append(m.s, i)) = 2 * k + 1
  <2>1. p.opt \in 2..5
    BY LocalSearchAssumption
  <2> QED
    BY <1>1, <1>5, <2>1
<1>7. e[1] \in Node
  BY <1>4, <1>6, EndsAreNodes
<1>8. \A x, y \in Node : C(x, y) \in Int
  BY LocalSearchAssumption DEF C, Node
<1> HIDE DEF x2
<1>9. o[i] \in Node /\ o[e[1]] \in Node
  BY <1>5, <1>7
<1>10. n.g = m.g - C(x2, o[i]) + C(o[i], o[e[1]]) /\ n.s = Append(Append(m.s, i), e[1])
  BY <1>4
<1>11. n.g \in Int
  <2>1. C(x2, o[i]) \in Int /\ C(o[i], o[e[1]]) \in Int
    BY <1>2, <1>8, <1>9
  <2> QED
    BY <1>1, <1>10, <2>1
<1>12. n.s \in Seq(Node) /\ Len(n.s) = 2 * k + 2
  BY <1>6, <1>7, <1>10
<1> QED
  BY <1>11, <1>12

\* All that BestMove considers.
LEMMA ConsideredAreMoves ==
    ASSUME p \in Instances, NEW o \in [Node -> Node], NEW g \in Int, NEW k \in 2..p.opt
    PROVE  Chosen(Considered(o, g)[k], k)
<1> DEFINE First == {[s |-> <<N, 1>>, case |-> 0, g |-> g]}
           More(S) == UNION {Extensions(m, o) : m \in S}
           Rec(L) == [i \in 1..p.opt |-> IF i = 1 THEN First ELSE More(L[i - 1])]
           W == [i \in 1..p.opt |->
                    IF i = 1 THEN First ELSE IF i = 2 THEN More(First)
                    ELSE IF i = 3 THEN More(More(First)) ELSE IF i = 4 THEN More(More(More(First)))
                    ELSE More(More(More(More(First))))]
           L == CHOOSE L : L = Rec(L)
<1>1. p.opt \in 2..5 /\ N \in Node /\ 1 \in Node
  <2>1. p.opt \in MoveTypes /\ MoveTypes \subseteq 2..5 /\ N \in Nat /\ N >= 5
    BY LocalSearchAssumption
  <2>2. p.opt \in 2..5
    BY <2>1
  <2>3. N \in Node /\ 1 \in Node
    BY <2>1 DEF Node
  <2> QED
    BY <2>2, <2>3
<1>2. Considered(o, g)[k] = L[k]
  BY DEF Considered
<1> HIDE DEF First, More
<1>3. L = Rec(L)
  <2>1. W = Rec(W)
    BY <1>1
  <2> HIDE DEF W, Rec
  <2> QED
    BY <2>1
<1> HIDE DEF L
<1>4. \A i \in 1..p.opt : L[i] = IF i = 1 THEN First ELSE More(L[i - 1])
  BY <1>3
<1>5. Chosen(First, 1)
  <2>1. <<N, 1>> \in Seq(Node) /\ Len(<<N, 1>>) = 2 * 1
    BY <1>1
  <2> SUFFICES ASSUME NEW m \in First
               PROVE  m.s \in Seq(Node) /\ Len(m.s) = 2 * 1 /\ m.g \in Int
    BY DEF Chosen
  <2>2. m.s = <<N, 1>> /\ m.g = g
    BY DEF First
  <2> QED
    BY <2>1, <2>2
<1>6. \A i \in 1..4 : \A S : Chosen(S, i) => Chosen(More(S), i + 1)
  BY ExtensionsAreMoves DEF More
<1>7. Chosen(L[1], 1) /\ Chosen(L[2], 2)
  BY <1>1, <1>4, <1>5, <1>6
<1>8. 3 <= p.opt => Chosen(L[3], 3)
  BY <1>1, <1>4, <1>6, <1>7
<1>9. 4 <= p.opt => Chosen(L[4], 4)
  BY <1>1, <1>4, <1>6, <1>8
<1>10. 5 <= p.opt => Chosen(L[5], 5)
  BY <1>1, <1>4, <1>6, <1>9
<1> QED
  BY <1>1, <1>2, <1>7, <1>8, <1>9, <1>10

\* From the edge (t1,t2).
LEMMA WalkFacts ==
    ASSUME TableInv, pc = "move", NEW o \in Walks(tour, t1, t2)
    PROVE  o \in [Node -> Node] /\ G0 \in Int
<1>1. o \in [Node -> Node] /\ o[N] = t1
  BY DEF Walks, Orders
<1>2. t1 \in Node
  BY <1>1, LocalSearchAssumption DEF Node
<1> QED
  BY <1>1, <1>2 DEF TableInv

\* An improving move gains.
LEMMA GainIsPositive ==
    ASSUME TableInv, pc = "move", NEW o \in Walks(tour, t1, t2), NEW m \in Improving(o, G0)
    PROVE  Gain(m, o) \in Int /\ Gain(m, o) > 0
<1>1. o \in [Node -> Node] /\ G0 \in Int /\ p \in Instances
  BY WalkFacts DEF TableInv
<1>2. PICK k \in 2..p.opt : m \in Considered(o, G0)[k]
  BY DEF Improving
<1>3. m.s \in Seq(Node) /\ Len(m.s) = 2 * k /\ m.g \in Int
  BY <1>1, <1>2, ConsideredAreMoves DEF Chosen
<1>4. k \in Nat /\ k >= 2
  BY <1>2
<1>5. m.s[Len(m.s)] \in Node /\ N \in Node
  <2>1. Len(m.s) \in 1..Len(m.s)
    BY <1>3, <1>4
  <2>2. N \in Node
    BY LocalSearchAssumption DEF Node
  <2> QED
    BY <1>3, <2>1, <2>2
<1>6. C(o[m.s[Len(m.s)]], o[N]) \in Int
  <2>1. o[m.s[Len(m.s)]] \in Node /\ o[N] \in Node
    BY <1>1, <1>5
  <2> QED
    BY <1>1, <2>1, LocalSearchAssumption DEF C, Node
<1>7. Gain(m, o) > 0
  BY DEF Improving
<1> QED
  BY <1>3, <1>6, <1>7 DEF Gain

-----------------------------------------------------------------------------
(* The invariant. *)

LEMMA MinIs ==
    ASSUME NEW a \in Int, NEW b \in Int
    PROVE  Min({a, b}) = IF a <= b THEN a ELSE b
<1>1. CASE a <= b
  <2>1. \A x \in {a, b} : (\A y \in {a, b} : x <= y) <=> x = a
    BY <1>1
  <2> QED
    BY <1>1, <2>1 DEF Min
<1>2. CASE ~(a <= b)
  <2>1. \A x \in {a, b} : (\A y \in {a, b} : x <= y) <=> x = b
    BY <1>2
  <2> QED
    BY <1>2, <2>1 DEF Min
<1> QED
  BY <1>1, <1>2

LEMMA InitTable == Init => TableInv
<1> SUFFICES ASSUME Init PROVE TableInv
  OBVIOUS
<1>1. /\ p \in Instances /\ cost = 0 /\ better = Infinity /\ bestCost = Infinity
      /\ sides = {} /\ G0 = 0 /\ hit = FALSE /\ table = {} /\ pc = "trial"
  BY DEF Init
<1>2. Infinity \in Int
  BY DEF Infinity
<1>3. ~Searching /\ pc # "move" /\ pc # "end"
  BY <1>1 DEF Searching
<1>4. sides \subseteq Node /\ hit \in BOOLEAN /\ \A e \in table : FALSE
  BY <1>1
<1> QED
  BY <1>1, <1>2, <1>3, <1>4 DEF TableInv

\* Steps of a search that leave the tour that counts as it is.
LEMMA SameCost ==
    ASSUME TableInv, Searching, p' = p, UNCHANGED <<cost, better, bestCost, hit, table>>,
           sides' \subseteq Node, pc' = "move" /\ t1' \in Node => G0' \in Int,
           Searching' \/ pc' = "end"
    PROVE  TableInv'
<1>1. Known' = Known /\ ~hit /\ pc # "end"
  BY DEF Known, TableInv, Searching
<1>2. \A e \in table : e[2] \in Int /\ (e[2] >= Known \/ e[2] > cost) /\ cost \in Int
  BY <1>1 DEF TableInv
<1>3. \A e \in table' : /\ e[2] \in Int
                        /\ \/ e[2] >= Known'
                           \/ Searching' /\ e[2] > cost'
                           \/ pc' = "end" /\ ~hit' /\ e[2] >= cost'
  BY <1>1, <1>2
<1> QED
  BY <1>1, <1>3 DEF TableInv

\* An improvement, which the search may be cut at.
LEMMA BetterCost ==
    ASSUME TableInv, Searching, p' = p, UNCHANGED <<better, bestCost>>, sides' \subseteq Node,
           cost' \in Int, cost' < cost, \E T : hit' = (<<T, cost'>> \in table'),
           table' = table \/ \E T : table' = table \cup {<<T, cost>>},
           pc' = "end" \/ (pc' = "pop" /\ ~hit')
    PROVE  TableInv'
<1>1. Known' = Known /\ ~hit /\ pc # "end" /\ Known \in Int /\ cost \in Int /\ p \in Instances
      /\ better \in Int /\ bestCost \in Int
  BY MinIs DEF Known, TableInv, Searching
<1>2. \A e \in table' : e[2] \in Int /\ (e[2] >= Known \/ e[2] >= cost)
  BY <1>1 DEF TableInv
<1>3. hit' \in BOOLEAN /\ (hit' => \E e \in table' : e[2] = cost')
  <2>1. PICK T : hit' = (<<T, cost'>> \in table')
    OBVIOUS
  <2>2. hit' \in BOOLEAN
    BY <2>1
  <2>3. ASSUME hit' PROVE \E e \in table' : e[2] = cost'
    <3>1. <<T, cost'>> \in table'
      BY <2>1, <2>3
    <3>2. <<T, cost'>>[2] = cost'
      OBVIOUS
    <3> QED
      BY <3>1, <3>2
  <2> QED
    BY <2>2, <2>3
<1>4. hit' => cost' >= Known
  BY <1>1, <1>2, <1>3
<1>5. \A e \in table' : e[2] \in Int /\ (e[2] >= Known \/ e[2] > cost')
  BY <1>1, <1>2
<1>6. Searching' <=> pc' = "pop"
  BY DEF Searching
<1>7. \A e \in table' : /\ e[2] \in Int
                        /\ \/ e[2] >= Known'
                           \/ Searching' /\ e[2] > cost'
                           \/ pc' = "end" /\ ~hit' /\ e[2] >= cost'
  <2>1. CASE pc' = "pop"
    BY <1>1, <1>5, <1>6, <2>1
  <2>2. CASE pc' = "end" /\ ~hit'
    BY <1>1, <1>5, <2>2
  <2>3. CASE pc' = "end" /\ hit'
    <3>1. \A e \in table' : e[2] > cost' => e[2] >= Known
      BY <1>1, <1>4, <1>5, <2>3
    <3> QED
      BY <1>1, <1>5, <3>1
  <2> QED
    BY <2>1, <2>2, <2>3
<1>8. cost' \in Int /\ better' \in Int /\ bestCost' \in Int /\ p' \in Instances
  BY <1>1
<1>9. Searching' => ~hit'
  BY <1>6
<1> QED
  BY <1>1, <1>3, <1>4, <1>6, <1>7, <1>8, <1>9 DEF TableInv

LEMMA SearchKeeps ==
    ASSUME TableInv, Search
    PROVE  TableInv'
<1>1. p' = p /\ UNCHANGED <<better, bestCost>> /\ LinKernighan
  BY DEF Search, LinKernighan
<1>2. \A T, x : Nbrs(T, x) \subseteq Node
  BY DEF Nbrs
<1>3. sides \subseteq Node /\ cost \in Int /\ p \in Instances
  BY DEF TableInv
<1>4. CASE Pop
  <2>1. Searching /\ UNCHANGED <<cost, hit, table>> /\ sides' \subseteq Node /\ pc' = "side"
    BY <1>2, <1>4 DEF Pop, Searching
  <2> QED
    BY <1>1, <2>1, SameCost DEF Searching
<1>5. CASE GiveUp
  <2>1. Searching /\ UNCHANGED <<cost, hit, table>> /\ sides' = sides /\ pc' = "end"
    BY <1>5 DEF GiveUp, Searching
  <2> QED
    BY <1>1, <1>3, <2>1, SameCost
<1>6. CASE ChooseT2
  <2>1. Searching /\ UNCHANGED <<cost, hit, table>> /\ pc = "side"
    BY <1>6 DEF ChooseT2, Searching
  <2>2. CASE sides = {} /\ pc' = "pop" /\ sides' = sides
    <3>1. Searching'
      BY <2>2 DEF Searching
    <3> QED
      BY <1>1, <1>3, <2>1, <2>2, <3>1, SameCost
  <2>3. CASE \E y \in sides : sides' = sides \ {y} /\ pc' = pc
    <3>1. Searching' /\ pc' # "move"
      BY <2>1, <2>3 DEF Searching
    <3> QED
      BY <1>1, <1>3, <2>1, <2>3, <3>1, SameCost
  <2>4. CASE \E y \in sides : sides' = sides \ {y} /\ G0' = C(t1, y) /\ t1' = t1 /\ pc' = "move"
    <3>1. Searching'
      BY <2>4 DEF Searching
    <3>2. t1' \in Node => G0' \in Int
      BY <1>3, <2>4, LocalSearchAssumption DEF C, Node
    <3> QED
      BY <1>1, <1>3, <2>1, <2>4, <3>1, <3>2, SameCost
  <2> QED
    BY <1>6, <2>2, <2>3, <2>4 DEF ChooseT2
<1>7. CASE Improve
  <2>1. pc = "move" /\ Searching /\ sides' = {} /\ table' = table
    BY <1>7 DEF Improve, Searching
  <2>2. PICK o \in Walks(tour, t1, t2) : \E m \in Improving(o, G0) : \E T :
            /\ cost' = cost - Gain(m, o)
            /\ hit' = (<<T, cost'>> \in table)
            /\ pc' = IF hit' THEN "end" ELSE "pop"
    BY <1>7 DEF Improve
  <2>6. PICK m \in Improving(o, G0) : \E T :
            /\ cost' = cost - Gain(m, o)
            /\ hit' = (<<T, cost'>> \in table)
            /\ pc' = IF hit' THEN "end" ELSE "pop"
    BY <2>2
  <2>7. PICK T :
            /\ hit' = (<<T, cost'>> \in table)
            /\ pc' = IF hit' THEN "end" ELSE "pop"
    BY <2>6
  <2>3. Gain(m, o) \in Int /\ Gain(m, o) > 0
    BY <2>1, GainIsPositive
  <2>4. cost' \in Int /\ cost' < cost
    BY <1>3, <2>3, <2>6
  <2>5. hit' = (<<T, cost'>> \in table') /\ (pc' = "end" \/ (pc' = "pop" /\ ~hit'))
    BY <2>1, <2>7
  <2> QED
    BY <1>1, <2>1, <2>4, <2>5, BetterCost
<1>8. CASE Advance
  <2>1. pc = "move" /\ Searching /\ UNCHANGED <<cost, sides, table, pc, hit>>
    BY <1>8 DEF Advance, Searching
  <2>2. PICK o \in Walks(tour, t1, t2) : \E m \in BestMoves(o, G0) : G0' = m.g
    BY <1>8 DEF Advance
  <2>8. PICK m \in BestMoves(o, G0) : G0' = m.g
    BY <2>2
  <2>3. o \in [Node -> Node] /\ G0 \in Int
    BY <2>1, WalkFacts
  <2>4. p.opt \in 2..p.opt
    <3>1. p.opt \in MoveTypes /\ MoveTypes \subseteq 2..5
      BY <1>3, LocalSearchAssumption
    <3>2. p.opt \in 2..5
      BY <3>1
    <3> QED
      BY <3>2
  <2>5. m \in Considered(o, G0)[p.opt]
    BY DEF BestMoves
  <2>6. G0' \in Int
    BY <1>3, <2>3, <2>4, <2>5, <2>8, ConsideredAreMoves DEF Chosen
  <2>7. Searching'
    BY <2>1 DEF Searching
  <2> QED
    BY <1>1, <1>3, <2>1, <2>6, <2>7, SameCost
<1>9. CASE Fail
  <2>1. Searching /\ UNCHANGED <<cost, hit, table, sides>> /\ pc' = "side"
    BY <1>9 DEF Fail, Searching
  <2> QED
    BY <1>1, <1>3, <2>1, SameCost DEF Searching
<1>10. CASE Local
  <2>1. pc = "pop" /\ Searching /\ sides' = sides
    BY <1>10 DEF Local, Searching
  <2>2. CASE <<tour, cost>> \in table /\ hit' = TRUE /\ pc' = "end" /\ UNCHANGED <<cost, table>>
    <3>1. Known' = Known /\ ~Searching'
      BY <1>1, <2>2 DEF Known, Searching
    <3>2. ~hit /\ pc # "end"
      BY <2>1 DEF TableInv
    <3>3. <<tour, cost>>[2] = cost
      OBVIOUS
    <3>4. cost >= Known
      BY <1>3, <2>2, <3>2, <3>3 DEF TableInv
    <3>5. \A e \in table : e[2] \in Int /\ (e[2] >= Known \/ e[2] > cost)
      BY <3>2 DEF TableInv
    <3>6. Known \in Int
      BY MinIs DEF Known, TableInv
    <3>7. \A e \in table : e[2] \in Int /\ e[2] >= Known
      BY <1>3, <3>4, <3>5, <3>6
    <3> QED
      BY <1>1, <1>3, <2>1, <2>2, <3>1, <3>4, <3>7 DEF TableInv
  <2>3. CASE table' = table \cup {<<tour, cost>>} /\ pc' = "end" /\ UNCHANGED <<cost, hit>>
    <3>1. Known' = Known /\ ~Searching'
      BY <1>1, <2>3 DEF Known, Searching
    <3>2. ~hit /\ pc # "end"
      BY <2>1 DEF TableInv
    <3>3. \A e \in table : e[2] \in Int /\ (e[2] >= Known \/ e[2] > cost)
      BY <3>2 DEF TableInv
    <3>4. \A e \in table' : e[2] \in Int /\ (e[2] >= Known \/ e[2] >= cost)
      BY <1>3, <2>3, <3>3
    <3> QED
      BY <1>1, <1>3, <2>1, <2>3, <3>1, <3>2, <3>4 DEF TableInv
  <2>4. CASE /\ table' = table \cup {<<tour, cost>>}
             /\ \E T \in Gain23 : /\ cost' = TourCost(T)
                                  /\ hit' = (<<T, cost'>> \in table')
                                  /\ pc' = IF hit' \/ stop THEN "end" ELSE "pop"
    <3>1. PICK T \in Gain23 : /\ cost' = TourCost(T)
                              /\ hit' = (<<T, cost'>> \in table')
                              /\ pc' = IF hit' \/ stop THEN "end" ELSE "pop"
      BY <2>4
    <3>2. TourCost(T) \in Int /\ TourCost(T) < cost
      <4>1. PICK s \in Orders : T = EdgesOf(s)
        BY <3>1 DEF Gain23, Tours
      <4> QED
        BY <1>3, <3>1, <4>1, OrderCost DEF Gain23
    <3> QED
      BY <1>1, <1>3, <2>1, <2>4, <3>1, <3>2, BetterCost
  <2> QED
    BY <1>10, <2>2, <2>3, <2>4 DEF Local
<1> QED
  BY <1>1, <1>4, <1>5, <1>6, <1>7, <1>8, <1>9, <1>10 DEF LinKernighan

LEMMA BeginTrialKeeps ==
    ASSUME TableInv, BeginTrial
    PROVE  TableInv'
<1>1. /\ pc = "trial" /\ pc' = "pop" /\ hit' = FALSE
      /\ UNCHANGED <<p, better, bestCost, table, sides>>
  BY DEF BeginTrial, StartSearch
<1>2. PICK T \in InitialTours : cost' = TourCost(T)
  BY DEF BeginTrial, StartSearch
<1>3. PICK s \in Orders : T = EdgesOf(s)
  BY <1>2 DEF InitialTours
<1>4. p \in Instances /\ sides \subseteq Node /\ better \in Int /\ bestCost \in Int
  BY DEF TableInv
<1>5. cost' \in Int
  BY <1>2, <1>3, <1>4, OrderCost
<1>6. Known' = Known /\ ~Searching /\ pc # "end"
  BY <1>1 DEF Known, Searching
<1>7. \A e \in table : e[2] \in Int /\ e[2] >= Known
  BY <1>6 DEF TableInv
<1> QED
  BY <1>1, <1>4, <1>5, <1>6, <1>7 DEF TableInv

\* Merging makes no tour worse.
LEMMA MergedIsBetter ==
    ASSUME p \in Instances, NEW m, m.cost \in Int, NEW T2, NEW n \in Merged(m, T2)
    PROVE  n.cost \in Int /\ n.cost <= m.cost
<1>1. CASE n = m
  BY <1>1
<1>2. CASE n # m
  <2>1. PICK T \in Tours : n = [tour |-> T, cost |-> TourCost(T)] /\ TourCost(T) < m.cost
    BY <1>2 DEF Merged
  <2>2. PICK s \in Orders : T = EdgesOf(s)
    BY DEF Tours
  <2>3. TourCost(T) \in Int
    BY <2>2, OrderCost
  <2>4. n.cost = TourCost(T)
    BY <2>1
  <2> QED
    BY <2>1, <2>3, <2>4
<1> QED
  BY <1>1, <1>2

LEMMA EndTrialKeeps ==
    ASSUME TableInv, EndTrial
    PROVE  TableInv'
<1>1. pc = "end" /\ pc' = "trial" /\ UNCHANGED <<p, bestCost, hit>> /\ sides' = {}
  BY DEF EndTrial, Forget
<1>2. /\ p \in Instances /\ cost \in Int /\ better \in Int /\ bestCost \in Int /\ hit \in BOOLEAN
      /\ ~Searching /\ ~Searching'
  BY <1>1 DEF TableInv, Searching
<1>3. PICK m \in IF late THEN {[tour |-> tour, cost |-> cost]} ELSE MergeTrial :
          /\ cost' = m.cost
          /\ IF m.cost < better
             THEN better' = m.cost /\ table' = {<<m.tour, m.cost>>}
             ELSE better' = better /\ table' = table
  BY <1>1 DEF EndTrial
<1>4. m.cost \in Int /\ m.cost <= cost
  <2> DEFINE found == [tour |-> tour, cost |-> cost]
  <2>1. found.cost = cost
    OBVIOUS
  <2>2. CASE late
    BY <1>2, <1>3, <2>1, <2>2
  <2>3. CASE ~late
    <3>1. PICK n \in IF best = {} THEN {found} ELSE Merged(found, best) :
              m = n \/ m \in Merged(n, OrdinalTour)
      BY <1>3, <2>3 DEF MergeTrial
    <3>2. n = found \/ n \in Merged(found, best)
      BY <3>1
    <3> HIDE DEF found
    <3>3. n.cost \in Int /\ n.cost <= cost
      BY <1>2, <2>1, <3>2, MergedIsBetter
    <3>4. CASE m = n
      BY <3>3, <3>4
    <3>5. CASE m \in Merged(n, OrdinalTour)
      <4>1. m.cost \in Int /\ m.cost <= n.cost
        BY <1>2, <3>3, <3>5, MergedIsBetter
      <4> QED
        BY <1>2, <3>3, <4>1
    <3> QED
      BY <3>1, <3>4, <3>5
  <2> QED
    BY <2>2, <2>3
<1>5. Known = (IF bestCost <= better THEN bestCost ELSE better)
  BY <1>2, MinIs DEF Known
<1>6. better' \in Int /\ Known' = IF bestCost <= better' THEN bestCost ELSE better'
  <2>1. better' \in Int
    BY <1>2, <1>3, <1>4
  <2> QED
    BY <1>1, <1>2, <2>1, MinIs DEF Known
<1>7. \A e \in table' : e[2] \in Int /\ e[2] >= Known'
  <2>1. CASE m.cost < better
    <3>1. better' = m.cost /\ \A e \in table' : e[2] = m.cost
      BY <1>3, <2>1
    <3> QED
      BY <1>2, <1>4, <1>6, <3>1
  <2>2. CASE ~(m.cost < better)
    <3>1. table' = table /\ Known' = Known /\ cost >= better
      BY <1>2, <1>3, <1>4, <1>5, <1>6, <2>2
    <3>2. \A e \in table : e[2] \in Int /\ (e[2] >= Known \/ e[2] >= cost)
      BY <1>2 DEF TableInv
    <3> QED
      BY <1>2, <1>5, <3>1, <3>2
  <2> QED
    BY <2>1, <2>2
<1> QED
  BY <1>1, <1>2, <1>3, <1>4, <1>6, <1>7 DEF TableInv

LEMMA EndRunKeeps ==
    ASSUME TableInv, EndRun
    PROVE  TableInv'
<1>1. /\ pc = "trial" /\ pc' \in {"trial", "done"} /\ UNCHANGED <<p, cost, sides, table, hit>>
      /\ bestCost' = Min({bestCost, better}) /\ (better' = better \/ better' = Infinity)
  BY DEF EndRun
<1>2. /\ p \in Instances /\ cost \in Int /\ better \in Int /\ bestCost \in Int /\ hit \in BOOLEAN
      /\ sides \subseteq Node /\ ~Searching /\ ~Searching'
      /\ pc # "end" /\ pc' \notin {"end", "move"}
  BY <1>1 DEF TableInv, Searching
<1>3. Known \in Int /\ bestCost' = Known /\ better' \in Int
  BY <1>1, <1>2, MinIs DEF Known, Infinity
<1>4. Known' = IF Known <= better' THEN Known ELSE better'
  BY <1>3, MinIs DEF Known
<1>5. Known' \in Int /\ Known' <= Known
  BY <1>3, <1>4
<1>6. \A e \in table : e[2] \in Int /\ e[2] >= Known
  BY <1>2 DEF TableInv
<1>7. \A e \in table' : e[2] \in Int /\ e[2] >= Known'
  BY <1>1, <1>3, <1>5, <1>6
<1> QED
  BY <1>1, <1>2, <1>3, <1>7 DEF TableInv

LEMMA StepTable == TableInv /\ [Next]_vars => TableInv'
<1> SUFFICES ASSUME TableInv, [Next]_vars PROVE TableInv'
  OBVIOUS
<1>1. ASSUME UNCHANGED <<p, better, bestCost, lkVars>> PROVE TableInv'
  <2>1. UNCHANGED <<p, better, bestCost, cost, sides, pc, t1, G0, hit, table>>
    BY <1>1 DEF lkVars
  <2> QED
    BY <2>1 DEF TableInv, Known, Searching
<1>2. CASE BeginTrial
  BY <1>2, BeginTrialKeeps
<1>3. CASE Search
  BY <1>3, SearchKeeps
<1>4. CASE EndTrial
  BY <1>4, EndTrialKeeps
<1>5. CASE EndRun
  BY <1>5, EndRunKeeps
<1>6. CASE TimeOut
  BY <1>1, <1>6 DEF TimeOut
<1>7. CASE Stop
  BY <1>1, <1>7 DEF Stop
<1>8. CASE UNCHANGED vars
  BY <1>1, <1>8 DEF vars
<1> QED
  BY <1>2, <1>3, <1>4, <1>5, <1>6, <1>7, <1>8 DEF Next, FindTour, Done

\* No cost in the hash table is below the best one but those of the search that is
\* under way, and of these none is below Cost.
THEOREM TableBounded == Spec => []TableInv
  BY InitTable, StepTable, PTL DEF Spec

\* A search that the hash table cuts was not on its way to a better tour than the
\* best: it ends with one that is not better.
THEOREM HitIsHarmless == Spec => []HitLosesNothing
<1>1. TableInv => HitLosesNothing
  BY DEF TableInv, HitLosesNothing, Known
<1> QED
  BY <1>1, TableBounded, PTL

=============================================================================
