------------------------------ MODULE CyclicTour ------------------------------
(***************************************************************************)
(* What a tour representation promises to the search code: the interface   *)
(* of include/Tree.h.  Whatever the representation (doubly linked list,    *)
(* tree of two or three levels), a caller sees one Hamiltonian cycle       *)
(* through SUC and PRD, changes it only by 2-opt moves (FLIP), and may     *)
(* turn its orientation around (Context::Reversed).                        *)
(*                                                                         *)
(* FLIP(t1,t2,t3) fixes the edges of the new tour but not its direction:   *)
(* an implementation reverses whichever side of the tour is cheaper.       *)
(***************************************************************************)
EXTENDS Cycles

VARIABLES
    next        \* SUC, as a function: the tour in its current direction

Init == next \in Tours

\* FLIP(t1, t2, t3), where t2 follows t1 and t3 follows t4.  With t2 before t1
\* it is the same as FLIP(t2, t1, t4).  A t3 next to t2 would delete an edge and
\* add it again; the code returns, which is a stuttering step.  The edge (t1,t2)
\* is gone afterwards.
Flip(t1, t4) ==
    LET t2 == next[t1]
        t3 == next[t4]
    IN  /\ t3 # t2 /\ t3 # next[t2] /\ t2 # next[t3]
        /\ next'[t1] # t2 /\ next'[t2] # t1
        /\ TwoOptMove(next, next', t1, t2, t3, t4)
        /\ next' \in Tours

\* Context::Reversed is toggled.
Turn == next' \in [Node -> Node] /\ Inverses(next, next')

Next == Turn \/ \E t1, t4 \in Node : Flip(t1, t4)

Spec == Init /\ [][Next]_next

=============================================================================
