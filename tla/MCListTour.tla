------------------------------ MODULE MCListTour ------------------------------
(* ListTour on a few nodes.  Nodes are only ever compared for equality, so    *)
(* one initial tour stands for all of them.                                   *)
EXTENDS ListTour, TLC

CONSTANTS n1, n2, n3, n4, n5

MCNode5 == {n1, n2, n3, n4, n5}
MCTour5 == {n1 :> n2 @@ n2 :> n3 @@ n3 :> n4 @@ n4 :> n5 @@ n5 :> n1}
=============================================================================
