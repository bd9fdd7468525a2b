------------------------------ MODULE MCTreeTour ------------------------------
(* TreeTour on small tours that exercise both trees.  With 7 nodes the two-    *)
(* level tree has segments of 2, 2, 2 and 1, four being the fewest with which  *)
(* a move turns two around, and the three-level tree has 7 segments of one     *)
(* node in super segments of 2, 2, 2 and 1.  With 10 nodes segments are large  *)
(* enough to be split into unequal parts: 3, 3, 3 and 1 nodes, or five times 2 *)
(* nodes in super segments of 2, 2 and 1.  One initial tour stands for all:    *)
(* the nodes are interchangeable up to FirstNode.                              *)
EXTENDS TreeTour

MCNode7 == 1..7
MCNode10 == 1..10

\* The nodes in the order of their numbers.
MCTour == {[x \in Node |-> (x % N) + 1]}
=============================================================================
