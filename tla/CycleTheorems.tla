---------------------------- MODULE CycleTheorems ----------------------------
(***************************************************************************)
(* What a 2-opt move does to a Hamiltonian cycle, for every set of nodes.  *)
(*                                                                         *)
(* The cycle f goes  t1 -> t2 --> t4 -> t3 --> t1.  D is the set of nodes  *)
(* on t3 --> t1; a 2-opt move keeps f outside D, turns D around, and joins *)
(* t3 to t2 and t4 to t1.                                                  *)
(***************************************************************************)
EXTENDS Cycles, TLAPS

\* D is the segment t3 --> t1 of the tour f, whose predecessors are g.
SideOf(f, g, D, t1, t2, t3, t4) ==
    /\ IsTour(f)
    /\ g \in [Node -> Node]
    /\ Inverses(f, g)
    /\ {t1, t2, t3, t4} \subseteq Node
    /\ f[t1] = t2 /\ f[t4] = t3
    /\ D \subseteq Node
    /\ t1 \in D /\ t3 \in D /\ t2 \notin D /\ t4 \notin D
    /\ \A x \in D \ {t1} : f[x] \in D
    /\ \A x \in D \ {t3} : g[x] \in D

\* The links after the move.
NewSuc(f, g, D, t1, t2, t3, t4) ==
    [x \in Node |-> IF x = t3 THEN t2 ELSE IF x = t4 THEN t1
                    ELSE IF x \in D THEN g[x] ELSE f[x]]

NewPrd(f, g, D, t1, t2, t3, t4) ==
    [x \in Node |-> IF x = t2 THEN t3 ELSE IF x = t1 THEN t4
                    ELSE IF x \in D THEN f[x] ELSE g[x]]

-----------------------------------------------------------------------------

\* A tour run backwards is a tour: SUC and PRD are interchangeable.
LEMMA InverseIsTour ==
    ASSUME NEW f, NEW g, IsTour(f), g \in [Node -> Node], Inverses(f, g)
    PROVE  IsTour(g) /\ Inverses(g, f)
<1>1. Inverses(g, f)
  BY DEF Inverses
<1>2. Injective(g)
  BY DEF Inverses, Injective
<1>3. SingleCycle(g)
  <2> SUFFICES ASSUME NEW S \in SUBSET Node, S # {}, \A x \in S : g[x] \in S
               PROVE  S = Node
    BY DEF SingleCycle
  <2> DEFINE R == Node \ S
  <2>1. \A x \in R : f[x] \in R
    BY DEF Inverses, IsTour
  <2>2. R = {} \/ R = Node
    BY <2>1 DEF IsTour, SingleCycle
  <2> QED
    BY <2>2
<1> QED
  BY <1>1, <1>2, <1>3 DEF IsTour

\* Both directions of a tour have the same edges.
LEMMA InverseEdges ==
    ASSUME NEW f, NEW g, f \in [Node -> Node], g \in [Node -> Node],
           Inverses(f, g)
    PROVE  Edges(g) = Edges(f)
<1>1. ASSUME NEW x \in Node PROVE {x, g[x]} \in Edges(f)
  <2>1. g[x] \in Node /\ f[g[x]] = x
    BY DEF Inverses
  <2>2. {x, g[x]} = {g[x], f[g[x]]}
    BY <2>1
  <2> QED
    BY <2>1, <2>2 DEF Edges
<1>2. ASSUME NEW x \in Node PROVE {x, f[x]} \in Edges(g)
  <2>1. f[x] \in Node /\ g[f[x]] = x
    BY DEF Inverses
  <2>2. {x, f[x]} = {f[x], g[f[x]]}
    BY <2>1
  <2> QED
    BY <2>1, <2>2 DEF Edges
<1> QED
  BY <1>1, <1>2 DEF Edges

\* A tour with the edges of another is this one or its reverse, and this one if it
\* goes on from one node as this one does.
LEMMA SameEdges ==
    ASSUME NEW f, NEW g, IsTour(f), g \in [Node -> Node], Inverses(f, g), NEW h, IsTour(h), Edges(h) = Edges(f)
    PROVE  /\ h = f \/ h = g
           /\ (\E x \in Node : h[x] = f[x]) => h = f
<1>1. /\ f \in [Node -> Node] /\ g \in [Node -> Node] /\ h \in [Node -> Node]
      /\ SingleCycle(f) /\ Injective(h) /\ Inverses(f, g)
  BY DEF IsTour
<1>2. ASSUME NEW x \in Node PROVE h[x] = f[x] \/ h[x] = g[x]
  <2>1. {x, h[x]} \in Edges(f)
    BY DEF Edges
  <2>2. PICK y \in Node : {x, h[x]} = {y, f[y]}
    BY <2>1 DEF Edges
  <2>3. (x = y /\ h[x] = f[y]) \/ (x = f[y] /\ h[x] = y)
    BY <2>2
  <2> QED
    BY <1>1, <2>3 DEF Inverses
<1>3. ASSUME NEW x \in Node PROVE f[x] = h[x] \/ h[f[x]] = x
  <2>1. {x, f[x]} \in Edges(h)
    BY DEF Edges
  <2>2. PICK y \in Node : {x, f[x]} = {y, h[y]}
    BY <2>1 DEF Edges
  <2>3. (x = y /\ f[x] = h[y]) \/ (x = h[y] /\ f[x] = y)
    BY <2>2
  <2> QED
    BY <2>3
<1> DEFINE S == {x \in Node : h[x] = f[x]}
<1>4. ASSUME NEW x \in S PROVE f[x] \in S
  <2>1. f[x] \in Node /\ h[x] = f[x]
    BY <1>1
  <2>2. h[f[x]] = f[f[x]] \/ h[f[x]] = x
    BY <1>1, <1>2, <2>1 DEF Inverses
  <2>3. f[f[x]] = h[f[x]] \/ h[f[f[x]]] = f[x]
    BY <1>3, <2>1
  <2>4. h[f[f[x]]] = f[x] => f[f[x]] = x
    BY <1>1, <2>1 DEF Injective
  <2> QED
    BY <2>1, <2>2, <2>3, <2>4
<1>5. S = {} \/ S = Node
  <2>1. S \in SUBSET Node
    OBVIOUS
  <2> HIDE DEF S
  <2> QED
    BY <1>1, <1>4, <2>1 DEF SingleCycle
<1>6. S = Node => h = f
  BY <1>1
<1>7. S = {} => h = g
  <2> SUFFICES ASSUME S = {} PROVE \A x \in Node : h[x] = g[x]
    BY <1>1
  <2> QED
    BY <1>2
<1> QED
  BY <1>5, <1>6, <1>7

\* Two nodes that lead to each other are all there are.
LEMMA NoPair ==
    ASSUME NEW f, IsTour(f), NEW x \in Node, NEW y \in Node, f[x] = y, f[y] = x, NEW z \in Node
    PROVE  z \in {x, y}
<1>1. {x, y} \in SUBSET Node /\ {x, y} # {} /\ \A w \in {x, y} : f[w] \in {x, y}
  OBVIOUS
<1>2. {x, y} = Node
  BY <1>1 DEF IsTour, SingleCycle
<1> QED
  BY <1>2

\* The new links are mutually inverse.
LEMMA NewLinksInverse ==
    ASSUME NEW f, NEW g, NEW D, NEW t1, NEW t2, NEW t3, NEW t4,
           SideOf(f, g, D, t1, t2, t3, t4)
    PROVE  LET s == NewSuc(f, g, D, t1, t2, t3, t4)
               p == NewPrd(f, g, D, t1, t2, t3, t4)
           IN  s \in [Node -> Node] /\ p \in [Node -> Node] /\ Inverses(s, p)
<1> DEFINE s == NewSuc(f, g, D, t1, t2, t3, t4)
           p == NewPrd(f, g, D, t1, t2, t3, t4)
<1> USE DEF SideOf, IsTour, Inverses, NewSuc, NewPrd
<1>1. s \in [Node -> Node] /\ p \in [Node -> Node]
  OBVIOUS
<1>2. ASSUME NEW x \in Node PROVE p[s[x]] = x
  <2>1. CASE x = t3
    BY <2>1
  <2>2. CASE x = t4
    BY <2>2
  <2>3. CASE x \in D /\ x # t3
    BY <2>3
  <2>4. CASE x \notin D /\ x # t4
    <3>1. f[x] # t2 /\ f[x] \notin D
      BY <2>4
    <3> QED
      BY <2>4, <3>1
  <2> QED
    BY <2>1, <2>2, <2>3, <2>4
<1>3. ASSUME NEW x \in Node PROVE s[p[x]] = x
  <2>1. CASE x = t2
    BY <2>1
  <2>2. CASE x = t1
    BY <2>2
  <2>3. CASE x \in D /\ x # t1
    BY <2>3
  <2>4. CASE x \notin D /\ x # t2
    <3>1. g[x] # t4 /\ g[x] \notin D
      BY <2>4
    <3> QED
      BY <2>4, <3>1
  <2> QED
    BY <2>1, <2>2, <2>3, <2>4
<1> QED
  BY <1>1, <1>2, <1>3

\* The new links still lead from every node to every node.
LEMMA NewSucSingleCycle ==
    ASSUME NEW f, NEW g, NEW D, NEW t1, NEW t2, NEW t3, NEW t4,
           SideOf(f, g, D, t1, t2, t3, t4)
    PROVE  SingleCycle(NewSuc(f, g, D, t1, t2, t3, t4))
<1> DEFINE s == NewSuc(f, g, D, t1, t2, t3, t4)
           E == Node \ D
<1> SUFFICES ASSUME NEW S \in SUBSET Node, S # {}, \A x \in S : s[x] \in S
             PROVE  S = Node
  BY DEF SingleCycle
<1>1. SingleCycle(f) /\ SingleCycle(g)
  BY InverseIsTour DEF SideOf, IsTour
<1>2. f \in [Node -> Node] /\ g \in [Node -> Node] /\ Inverses(f, g)
  BY DEF SideOf, IsTour
<1>3. \A x \in E \ {t4} : s[x] = f[x] /\ f[x] \in E
  BY <1>2 DEF SideOf, Inverses, NewSuc
<1>4. \A x \in D \ {t3} : s[x] = g[x] /\ g[x] \in D
  BY DEF SideOf, NewSuc
<1>5. s[t3] = t2 /\ s[t4] = t1
  BY DEF SideOf, NewSuc
\* From outside D, S gets to t4 and so to t1; from inside, to t3 and so to t2.
<1>6. S \cap E # {} => t1 \in S
  <2> SUFFICES ASSUME S \cap E # {}, t4 \notin S PROVE FALSE
    BY <1>5
  <2>1. \A x \in S \cap E : f[x] \in S \cap E
    BY <1>3
  <2>2. S \cap E = Node
    BY <1>1, <2>1 DEF SingleCycle
  <2> QED
    BY <2>2 DEF SideOf
<1>7. S \cap D # {} => t2 \in S
  <2> SUFFICES ASSUME S \cap D # {}, t3 \notin S PROVE FALSE
    BY <1>5
  <2>1. \A x \in S \cap D : g[x] \in S \cap D
    BY <1>4
  <2>2. S \cap D = Node
    BY <1>1, <2>1 DEF SingleCycle
  <2> QED
    BY <2>2 DEF SideOf
<1>8. t1 \in S /\ t2 \in S
  BY <1>6, <1>7 DEF SideOf
\* What S holds of one side, with the whole other side, is closed.
<1>9. E \subseteq S
  <2> DEFINE R == (S \cap E) \cup D
  <2>1. \A x \in R : f[x] \in R
    BY <1>3, <1>8 DEF SideOf
  <2>2. R = Node
    BY <1>1, <1>8, <2>1 DEF SingleCycle, SideOf
  <2> QED
    BY <2>2
<1>10. D \subseteq S
  <2> DEFINE R == (S \cap D) \cup E
  <2>1. ASSUME NEW x \in R PROVE g[x] \in R
    <3>1. CASE x \in D /\ x # t3
      BY <1>4, <3>1
    <3>2. CASE x = t3
      BY <1>2, <3>2 DEF SideOf, Inverses
    <3>3. CASE x \in E /\ x = t2
      BY <1>2, <1>8, <3>3 DEF SideOf, Inverses
    <3>4. CASE x \in E /\ x # t2
      BY <1>2, <3>4 DEF SideOf, Inverses
    <3> QED
      BY <3>1, <3>2, <3>3, <3>4
  <2>2. R = Node
    BY <1>1, <1>8, <2>1 DEF SingleCycle, SideOf
  <2> QED
    BY <2>2 DEF SideOf
<1> QED
  BY <1>9, <1>10

\* The move exchanges exactly the two edges it is meant to exchange.
LEMMA NewSucEdges ==
    ASSUME NEW f, NEW g, NEW D, NEW t1, NEW t2, NEW t3, NEW t4,
           SideOf(f, g, D, t1, t2, t3, t4),
           t3 \notin {t2, f[t2], g[t2]}
    PROVE  TwoOptMove(f, NewSuc(f, g, D, t1, t2, t3, t4), t1, t2, t3, t4)
<1> DEFINE s   == NewSuc(f, g, D, t1, t2, t3, t4)
           old == {{t1, t2}, {t3, t4}}
           new == {{t2, t3}, {t4, t1}}
<1>1. f \in [Node -> Node] /\ g \in [Node -> Node] /\ Inverses(f, g)
  BY DEF SideOf, IsTour
<1>2. old \subseteq Edges(f)
  BY DEF SideOf, Edges
<1>3. ASSUME NEW x \in Node, x # t1, x # t4
      PROVE  {x, f[x]} \notin old
  BY <1>1, <1>3 DEF SideOf, Inverses
<1>4. ASSUME NEW x \in Node PROVE {x, s[x]} \in (Edges(f) \ old) \cup new
  <2>1. CASE x = t3
    BY <2>1 DEF SideOf, NewSuc
  <2>2. CASE x = t4
    BY <2>2 DEF SideOf, NewSuc
  <2>3. CASE x \in D /\ x # t3
    <3>1. s[x] = g[x] /\ g[x] \in D /\ f[g[x]] = x /\ g[x] # t1 /\ g[x] # t4
      BY <1>1, <2>3 DEF SideOf, NewSuc, Inverses
    <3>2. {x, s[x]} = {g[x], f[g[x]]}
      BY <3>1
    <3>3. {g[x], f[g[x]]} \in Edges(f) \ old
      BY <1>1, <1>3, <3>1 DEF Edges
    <3> QED
      BY <3>2, <3>3
  <2>4. CASE x \notin D /\ x # t4
    <3>1. s[x] = f[x] /\ x # t1
      BY <2>4 DEF SideOf, NewSuc
    <3> QED
      BY <1>3, <2>4, <3>1 DEF Edges
  <2> QED
    BY <2>1, <2>2, <2>3, <2>4
<1>5. new \subseteq Edges(s)
  <2>1. {t3, s[t3]} \in Edges(s) /\ {t4, s[t4]} \in Edges(s)
    BY DEF SideOf, Edges
  <2>2. s[t3] = t2 /\ s[t4] = t1
    BY DEF SideOf, NewSuc
  <2> QED
    BY <2>1, <2>2
<1>6. ASSUME NEW x \in Node, {x, f[x]} \notin old PROVE {x, f[x]} \in Edges(s)
  <2>1. x # t1 /\ x # t4
    BY <1>6 DEF SideOf
  <2>2. CASE x \in D
    <3>1. f[x] \in D /\ f[x] # t3 /\ g[f[x]] = x
      BY <1>1, <2>1, <2>2 DEF SideOf, Inverses
    <3>2. s[f[x]] = x /\ f[x] \in Node
      BY <1>1, <3>1 DEF SideOf, NewSuc
    <3>3. {x, f[x]} = {f[x], s[f[x]]}
      BY <3>2
    <3> QED
      BY <3>2, <3>3 DEF Edges
  <2>3. CASE x \notin D
    <3>1. s[x] = f[x]
      BY <2>1, <2>3 DEF SideOf, NewSuc
    <3> QED
      BY <3>1 DEF Edges
  <2> QED
    BY <2>2, <2>3
<1>7. Edges(s) = (Edges(f) \ old) \cup new
  <2>1. Edges(s) \subseteq (Edges(f) \ old) \cup new
    BY <1>4 DEF Edges
  <2>2. Edges(f) \ old \subseteq Edges(s)
    BY <1>6 DEF Edges
  <2> HIDE DEF s, old, new
  <2> QED
    BY <1>5, <2>1, <2>2
<1> QED
  BY <1>2, <1>7 DEF TwoOptMove

\* A 2-opt move made by reversing one side of a tour is a 2-opt move, and
\* its result a tour whose predecessors are the new predecessors.
THEOREM ReversalIsTwoOpt ==
    ASSUME NEW f, NEW g, NEW D, NEW t1, NEW t2, NEW t3, NEW t4,
           SideOf(f, g, D, t1, t2, t3, t4),
           t3 \notin {t2, f[t2], g[t2]}
    PROVE  LET s == NewSuc(f, g, D, t1, t2, t3, t4)
               p == NewPrd(f, g, D, t1, t2, t3, t4)
           IN  /\ IsTour(s) /\ p \in [Node -> Node] /\ Inverses(s, p)
               /\ TwoOptMove(f, s, t1, t2, t3, t4)
<1> DEFINE s == NewSuc(f, g, D, t1, t2, t3, t4)
           p == NewPrd(f, g, D, t1, t2, t3, t4)
<1>1. s \in [Node -> Node] /\ p \in [Node -> Node] /\ Inverses(s, p)
  BY NewLinksInverse
<1>2. Injective(s)
  BY <1>1 DEF Injective, Inverses
<1> QED
  BY <1>1, <1>2, NewSucSingleCycle, NewSucEdges DEF IsTour

=============================================================================
