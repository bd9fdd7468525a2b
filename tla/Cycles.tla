-------------------------------- MODULE Cycles --------------------------------
(***************************************************************************)
(* Directed Hamiltonian cycles over a set of nodes, as successor           *)
(* functions, and what the primitive operations of include/Tree.h mean on  *)
(* them.  Paths and connectedness are stated with closed sets of nodes, so *)
(* that nothing here is recursive and everything can be reasoned about.    *)
(***************************************************************************)
EXTENDS FiniteSets

CONSTANTS
    Node        \* the nodes (cities) of the problem

ASSUME NodeAssumption == Node # {} /\ IsFiniteSet(Node)

\* f leads from every node to every node: no proper part of the nodes is closed.
SingleCycle(f) ==
    \A S \in SUBSET Node : (S # {} /\ \A x \in S : f[x] \in S) => S = Node

Injective(f) == \A x, y \in Node : f[x] = f[y] => x = y

IsTour(f) == f \in [Node -> Node] /\ Injective(f) /\ SingleCycle(f)

Tours == {f \in [Node -> Node] : IsTour(f)}

\* f and g run through the same cycle in opposite directions.
Inverses(f, g) == \A x \in Node : f[g[x]] = x /\ g[f[x]] = x

\* The undirected edges of a tour; what its cost depends on.
Edges(f) == {{x, f[x]} : x \in Node}

\* b is met on the way from a to c: it lies in every set that contains a and
\* that, except from c, following f does not leave.
OnPath(f, a, b, c) ==
    \A S \in SUBSET Node :
        (a \in S /\ \A x \in S \ {c} : f[x] \in S) => b \in S

\* g is the tour f after the 2-opt move that t1, t2, t3 and t4 name: edges
\* (t1,t2) and (t3,t4) are exchanged with (t2,t3) and (t4,t1).
TwoOptMove(f, g, t1, t2, t3, t4) ==
    /\ {{t1, t2}, {t3, t4}} \subseteq Edges(f)
    /\ Edges(g) = (Edges(f) \ {{t1, t2}, {t3, t4}}) \cup {{t2, t3}, {t4, t1}}

=============================================================================
