------------------------------- MODULE MakeMoves -------------------------------
(***************************************************************************)
(* Moves of several edges as sequences of 2-opt moves:                     *)
(* src/move/Make2OptMove.cpp, ..., Make5OptMove.cpp, and what Swap1 and    *)
(* BETWEEN of include/Tree.h do on the tour, as CyclicTour promises it.    *)
(*                                                                         *)
(* Nothing here depends on the names of nodes, so a node is its place on   *)
(* the tour at the time of the call.                                       *)
(***************************************************************************)
EXTENDS Integers, Sequences, FiniteSets

CONSTANTS
    N           \* nodes

ASSUME NAssumption == N \in Nat /\ N >= 5

Node == 1..N

-----------------------------------------------------------------------------
(* The tour at the call. *)

SUC(x) == (x % N) + 1
PRD(x) == ((x + N - 2) % N) + 1
Side(x, forward) == IF forward THEN SUC(x) ELSE PRD(x)

BETWEEN(a, b, c) == IF a <= c THEN a <= b /\ b <= c ELSE b >= a \/ b <= c

Last(s) == s[Len(s)]

\* The nodes that may follow s = <<t1, ..., t2i>>: candidates of t2i, neighbours
\* of it on the tour left out, and edges that are among the added ones already.
Fresh(s) ==
    {x \in Node \ {Last(s), SUC(Last(s)), PRD(Last(s))} :
        \A i \in 1..(Len(s) \div 2 - 2) : {Last(s), x} # {s[2*i], s[2*i + 1]}}

-----------------------------------------------------------------------------
(* The Make functions: the arguments of Swap1, Swap2, ..., Swap5, three for  *)
(* each 2-opt move, as indices of s = <<t1, t2, ...>>; none for a case that   *)
(* is not known.                                                             *)

Make2OptMove == <<1, 2, 3>>

Make3OptMove(case) ==
    CASE case \in {1, 2} -> <<1,2,3, 6,5,4>>
      [] case = 5 -> <<1,2,4, 6,5,4, 6,2,3>>
      [] case = 6 -> <<3,4,5, 1,2,3>>
      [] OTHER -> <<>>

Make4OptMove(s, case) ==
    LET B(a, b, c) == BETWEEN(s[a], s[b], s[c])
    IN  CASE case \in {1, 2} -> <<1,2,3, 6,5,4, 7,8,1>>
          [] case \in {3, 4} -> <<1,2,3, 8,7,6, 5,8,1>>
          [] case = 5 -> IF ~B(2,7,3) THEN <<5,6,7, 2,1,4, 1,4,5>>
                         ELSE IF B(2,7,6) THEN <<5,6,7, 5,8,3, 3,8,1>>
                         ELSE <<1,2,7, 7,2,3, 4,7,6>>
          [] case = 6 -> <<3,4,5, 6,3,2, 1,6,7>>
          [] case = 7 -> <<6,5,8, 2,1,4, 8,5,4>>
          [] case = 11 -> <<1,2,7, 3,4,5, 3,6,7>>
          [] case = 12 -> <<3,4,5, 7,8,1, 3,6,7>>
          [] case = 15 -> <<3,4,5, 3,6,7, 8,3,2>>
          [] OTHER -> <<>>

Make5OptMove(s, case) ==
    LET B(a, b, c) == BETWEEN(s[a], s[b], s[c])
    IN  CASE case = 1 -> <<1,2,3, 8,7,6, 10,9,8, 10,5,4>>
          [] case = 2 -> IF B(2,9,4) THEN <<1,2,3, 5,6,7, 10,9,8, 5,10,1>>
                         ELSE <<1,2,3, 7,8,9, 6,5,4, 7,10,1>>
          [] case = 3 -> <<3,4,5, 7,8,9, 1,2,3, 7,10,1>>
          [] case = 4 -> <<5,6,8, 1,2,3, 10,9,8, 1,4,5, 6,10,1>>
          [] case = 5 -> <<5,6,10, 1,2,3, 6,10,1, 8,7,6, 8,4,5>>
          [] case = 6 -> <<1,2,3, 9,10,1, 7,8,9, 6,5,4>>
          [] case = 7 -> IF B(3,9,7) THEN <<3,4,5, 8,7,6, 10,9,8, 1,2,3>>
                         ELSE IF B(6,9,4) THEN <<3,4,5, 8,7,6, 9,10,1, 9,2,3>>
                         ELSE <<1,2,3, 6,5,4, 7,8,9, 7,10,1>>
          [] case = 8 -> <<3,4,5, 9,10,1, 8,7,6, 8,3,2>>
          [] case = 9 -> <<10,9,8, 5,6,7, 1,2,3, 1,4,5>>
          [] case = 10 -> IF B(5,9,7) THEN <<5,6,7, 9,10,1, 4,3,2, 4,9,8>>
                          ELSE IF B(3,9,6) THEN <<1,2,3, 6,5,4, 7,8,9, 7,10,1>>
                          ELSE <<1,2,3, 9,10,1, 5,6,7, 5,8,9>>
          [] case = 11 -> IF B(3,9,6) THEN <<1,2,3, 6,5,4, 9,10,1, 7,8,9>>
                          ELSE <<5,6,7, 10,9,8, 2,1,10, 4,3,2>>
          [] case = 12 -> <<1,2,3, 8,7,6, 10,9,8, 5,10,1>>
          [] case = 13 -> IF B(4,9,7) THEN <<7,8,10, 5,6,7, 1,2,3, 5,9,1, 9,1,10>>
                          ELSE IF B(6,9,3) THEN <<10,9,1, 7,8,9, 3,4,5, 3,6,7, 3,1,10>>
                          ELSE <<10,9,1, 4,3,2, 5,6,7, 5,8,10, 9,1,10>>
          [] case = 14 -> <<10,9,1, 5,6,7, 5,8,9, 3,4,5, 3,1,10>>
          [] case = 15 -> IF B(6,9,3) THEN <<10,9,1, 3,4,5, 6,3,2, 8,7,6, 9,1,10>>
                          ELSE <<1,2,6, 3,4,5, 8,7,6, 10,9,8, 2,10,1>>
          [] case = 16 -> IF B(4,9,7) THEN <<3,4,5, 8,7,6, 9,10,1, 8,3,2>>
                          ELSE IF B(5,9,3) THEN <<3,4,5, 9,10,1, 6,3,2, 7,8,9>>
                          ELSE <<3,4,5, 1,2,3, 7,8,9, 7,10,1>>
          [] case = 17 -> IF B(7,9,3) THEN <<3,4,5, 7,8,9, 2,1,10, 3,6,7>>
                          ELSE <<7,8,9, 2,1,10, 3,4,5, 3,6,7>>
          [] case = 18 -> <<3,4,5, 7,8,9, 3,6,7, 1,2,3>>
          [] case = 19 -> <<7,8,9, 1,2,3, 6,5,4, 7,10,1>>
          [] case = 20 -> <<7,8,9, 3,4,5, 10,7,6, 3,10,1>>
          [] case = 21 -> <<5,6,7, 5,8,9, 1,2,3, 4,1,10>>
          [] case \in {22, 23} -> <<1,2,3, 6,5,4, 7,8,1, 9,10,1>>
          [] case \in {24, 25} -> <<1,2,3, 8,7,6, 5,8,1, 9,10,1>>
          [] case = 26 -> IF ~B(2,7,3) THEN <<5,6,7, 2,1,4, 1,4,5, 9,10,1>>
                          ELSE IF B(2,7,6) THEN <<5,6,7, 5,8,3, 3,8,1, 9,10,1>>
                          ELSE <<1,2,7, 7,2,3, 4,7,6, 9,10,1>>
          [] case = 27 -> <<3,4,5, 6,3,2, 1,6,7, 9,10,1>>
          [] case = 28 -> <<6,5,8, 2,1,4, 8,5,4, 9,10,1>>
          [] case = 29 -> <<1,2,7, 3,4,5, 3,6,7, 9,10,1>>
          [] case = 30 -> IF B(3,7,5) THEN <<3,4,5, 7,8,1, 7,2,3, 9,10,1>>
                          ELSE <<3,4,5, 3,6,7, 1,2,3, 9,10,1>>
          [] case = 31 -> <<3,4,5, 3,6,7, 8,3,2, 9,10,1>>
          [] case \in {32, 43} -> <<1,2,3, 7,8,9, 6,5,4, 7,10,1>>
          [] case = 33 -> IF B(3,9,5) THEN <<1,2,3, 5,6,7, 10,9,8, 5,10,1>>
                          ELSE <<1,2,3, 7,8,9, 7,10,1, 5,6,7>>
          [] case = 34 -> <<7,8,9, 1,2,3, 1,4,5, 7,10,1>>
          [] case = 35 -> <<9,10,1, 5,6,7, 4,3,2, 9,4,5>>
          [] case = 36 -> <<9,10,1, 7,8,9, 3,4,5, 6,3,2>>
          [] case = 37 -> IF B(6,9,4) THEN <<1,2,3, 6,5,4, 9,10,1, 8,7,6>>
                          ELSE <<9,10,1, 3,4,5, 3,6,7, 3,8,9>>
          [] case = 38 -> IF B(3,9,7) THEN <<1,2,3, 7,8,9, 6,5,4, 6,1,10>>
                          ELSE IF B(6,9,4) THEN <<1,2,3, 6,5,4, 7,8,9, 7,10,1>>
                          ELSE <<3,4,5, 9,10,1, 8,7,6, 3,8,9>>
          [] case = 39 -> <<1,2,3, 7,8,9, 5,6,7, 1,4,5>>
          [] case = 40 -> <<9,10,1, 4,3,2, 5,6,7, 5,8,9>>
          [] case = 41 -> IF B(5,9,7) THEN <<7,8,9, 1,2,3, 6,5,4, 7,10,1>>
                          ELSE IF B(3,9,6) THEN <<1,2,3, 5,6,7, 9,10,1, 5,8,9>>
                          ELSE <<5,6,7, 9,10,1, 2,9,8, 3,4,5>>
          [] case = 42 -> IF B(3,9,6) THEN <<7,8,9, 5,6,7, 1,2,3, 1,4,5>>
                          ELSE <<9,10,1, 5,6,7, 3,4,5, 3,8,9>>
          [] case = 44 -> IF B(4,9,7) THEN <<7,8,9, 5,6,7, 1,2,3, 5,10,1>>
                          ELSE IF B(6,9,3) THEN <<9,10,1, 5,6,7, 3,4,5, 3,8,9>>
                          ELSE <<7,8,9, 1,2,3, 6,5,4, 7,10,1>>
          [] case = 45 -> <<9,10,1, 3,4,5, 7,8,9, 3,6,7>>
          [] case = 46 -> <<7,8,9, 5,6,7, 3,4,5, 1,2,3>>
          [] case = 47 -> IF B(4,9,7) THEN <<5,6,7, 1,2,3, 9,10,1, 5,8,9>>
                          ELSE IF B(5,9,3) THEN <<9,10,1, 7,8,9, 5,6,7, 3,4,5>>
                          ELSE <<7,8,9, 3,4,5, 3,6,7, 2,1,10>>
          [] case = 48 -> IF B(7,9,3) THEN <<3,4,5, 8,7,6, 2,1,10, 8,3,2>>
                          ELSE <<3,4,5, 7,8,9, 3,6,7, 1,2,3>>
          [] case = 49 -> <<9,10,1, 5,6,7, 3,4,5, 3,8,9>>
          [] case = 50 -> <<3,4,5, 3,6,7, 9,10,1, 8,3,2>>
          [] case = 51 -> <<5,6,7, 1,2,3, 9,10,1, 4,9,8>>
          [] case = 52 -> <<5,6,7, 3,4,5, 9,10,1, 3,8,9>>
          [] OTHER -> <<>>

-----------------------------------------------------------------------------
(* The tour, and what Swap1 does to it. *)

Place(s, x) == CHOOSE i \in 1..N : s[i] = x

Adjacent(s, x, y) == (Place(s, x) % N) + 1 = Place(s, y) \/ (Place(s, y) % N) + 1 = Place(s, x)

\* s, read such that it begins with t2 and ends with its neighbour t1.
Unrolled(s, t1, t2) ==
    LET p == Place(s, t2)
    IN  IF s[(p % N) + 1] = t1 THEN [i \in 1..N |-> s[((p - i + N) % N) + 1]]
                             ELSE [i \in 1..N |-> s[((p + i - 2) % N) + 1]]

\* FLIP(t1, t2, t3): the nodes from t2 up to the one before t3 change their
\* order.  Nothing happens if t3 is next to t2.
Flip(s, t1, t2, t3) ==
    IF Adjacent(s, t2, t3) THEN s
    ELSE LET u == Unrolled(s, t1, t2)
             p == Place(u, t3)
         IN  [i \in 1..N |-> IF i < p THEN u[p - i] ELSE u[i]]

-----------------------------------------------------------------------------
(* Properties of sequences of moves speak of these. *)

TourEdges(s) == {{s[i], s[(i % N) + 1]} : i \in 1..N}

\* (t1,t2), (t3,t4), ... and (t2,t3), ..., (t2k,t1) of s = <<t1, ..., t2k>>.
Removed(s) == {{s[2*i - 1], s[2*i]} : i \in 1..(Len(s) \div 2)}
Added(s) == {{s[2*i], s[2*i + 1]} : i \in 1..(Len(s) \div 2 - 1)} \cup {{Last(s), s[1]}}

\* The edges of the tour at the call after an exchange.
Exchanged(removed, added) == ({{x, SUC(x)} : x \in Node} \ removed) \cup added

\* The edges form one cycle through all nodes: every node has two neighbours, and
\* a walk from node 1 meets it again after N steps only.
IsCycle(edges) ==
    LET Others(x) == {y \in Node \ {x} : {x, y} \in edges}
        Step(p) == <<p[2], CHOOSE y \in Others(p[2]) : y # p[1]>>
        walk[i \in 0..N] == IF i = 0 THEN <<CHOOSE y \in Others(1) : TRUE, 1>>
                            ELSE Step(walk[i - 1])
    IN  /\ \A x \in Node : Cardinality(Others(x)) = 2
        /\ \A i \in 1..(N - 1) : walk[i][2] # 1

=============================================================================
