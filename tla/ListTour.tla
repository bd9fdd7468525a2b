------------------------------- MODULE ListTour -------------------------------
(***************************************************************************)
(* The doubly linked list representation of the tour (tree_type 1) and the *)
(* stack of 2-opt moves: src/Flip.cpp, src/Between.cpp, SUC and PRD of     *)
(* include/Tree.h, include/SwapStack.h, src/RestoreTour.cpp, the tour part *)
(* of src/StoreTour.cpp, and the hash value of include/HashTable.h.        *)
(*                                                                         *)
(* Flip is modelled loop iteration by loop iteration: the reversal walks   *)
(* the pointers it is rewriting.  RestoreTour is modelled record by        *)
(* record: the flips it makes push records on the stack it is emptying.    *)
(*                                                                         *)
(* The hash value is the XOR of one number per edge.  It is modelled by    *)
(* the set of edges that occur in it an odd number of times, that is, with *)
(* numbers that never collide.                                             *)
(***************************************************************************)
EXTENDS Cycles, Integers, Sequences

CONSTANTS
    NIL,            \* the null pointer
    FirstNode,      \* Context::FirstNode, where ranks are counted from
    InitialTours,   \* successor functions the search may start from
    Callers,        \* nodes that chains start from: t1 of the search
    MaxStack,       \* bound: records on the stack when a move is made
    MinRank         \* bound: ranks drift downwards, moves stop below this

ASSUME ListTourAssumption ==
    /\ NIL \notin Node
    /\ FirstNode \in Node
    /\ InitialTours \subseteq Tours
    /\ Callers \subseteq Node
    /\ MaxStack \in Nat
    /\ MinRank \in Int

N == Cardinality(Node)

VARIABLES
    suc, prd,       \* Node::Suc, Node::Prd
    rank,           \* Node::Rank
    reversed,       \* Context::Reversed
    stack,          \* SwapStack: records <<t1, t2, t3, t4>>, the top last
    checkPoint,     \* SwapStack::check_point_
    hash,           \* HashTable::hash_
    flip,           \* the locals of the running Flip, NoFlip between calls
    undo,           \* the locals of the running RestoreTour, NoUndo between
    kept,           \* history: the edges of the tour when it was last kept
    mark            \* history: SUC when the check point was set

list == <<suc, prd, rank>>
past == <<kept, mark>>
vars == <<suc, prd, rank, reversed, stack, checkPoint, hash, flip, undo, kept, mark>>

-----------------------------------------------------------------------------
(* What callers see between calls. *)

Move == Node \X Node \X Node \X Node

NoFlip == [running |-> FALSE]
NoUndo == [running |-> FALSE]

Idle == ~flip.running /\ ~undo.running

SUC == [x \in Node |-> IF reversed THEN prd[x] ELSE suc[x]]
PRD == [x \in Node |-> IF reversed THEN suc[x] ELSE prd[x]]

\* Mutant: the direction is not looked at.
Between_IgnoresReversed(ta, tb, tc) ==
    IF rank[ta] <= rank[tc] THEN rank[tb] >= rank[ta] /\ rank[tb] <= rank[tc]
                            ELSE rank[tb] >= rank[ta] \/ rank[tb] <= rank[tc]

Between(ta, tb, tc) ==
    LET a == IF reversed THEN rank[tc] ELSE rank[ta]
        b == rank[tb]
        c == IF reversed THEN rank[ta] ELSE rank[tc]
    IN  IF a <= c THEN b >= a /\ b <= c ELSE b >= a \/ b <= c

\* Mutant: the first node counts only if the ranks do not wrap around.
SegmentSize_Wrapped(ta, tb) ==
    LET n == IF reversed THEN rank[ta] - rank[tb] ELSE rank[tb] - rank[ta]
    IN  IF n < 0 THEN n + N ELSE n + 1

\* SegmentSize1: the nodes from ta to tb.
SegmentSize(ta, tb) ==
    LET n == IF reversed THEN rank[ta] - rank[tb] ELSE rank[tb] - rank[ta]
    IN  (IF n < 0 THEN n + N ELSE n) + 1

-----------------------------------------------------------------------------
(* Entering LinKernighan. *)

\* Ranks 1, 2, ... from FirstNode along f.
Ordinals(f) ==
    {r \in [Node -> 1..N] :
        /\ r[FirstNode] = 1
        /\ \A x \in Node : f[x] # FirstNode => r[f[x]] = r[x] + 1}

Init ==
    /\ suc \in InitialTours
    /\ prd \in [Node -> Node] /\ Inverses(suc, prd)
    /\ rank \in Ordinals(suc)
    /\ reversed = FALSE
    /\ stack = <<>> /\ checkPoint = 0
    /\ hash = Edges(suc)
    /\ flip = NoFlip
    /\ undo = NoUndo
    /\ kept = Edges(suc) /\ mark = suc

\* LinKernighan ends (NormalizeNodeList turns every node to the direction
\* callers see) and is entered again on the tour it left.
Reenter ==
    /\ Idle
    /\ stack = <<>>
    /\ suc' = SUC /\ prd' = PRD
    /\ rank' \in Ordinals(suc')
    /\ reversed' = FALSE
    /\ checkPoint' = 0
    /\ hash' = Edges(suc')
    /\ mark' = suc'
    /\ UNCHANGED <<stack, flip, undo, kept>>

\* Gain23 looks at the tour in the other direction; no move is pending then.
Turn ==
    /\ Idle
    /\ stack = <<>> /\ checkPoint = 0
    /\ reversed' = ~reversed
    /\ mark' = PRD
    /\ UNCHANGED <<list, stack, checkPoint, hash, flip, undo, kept>>

\* Best2OptMove, ..., Best5OptMove begin a step of the chain: the moves made so
\* far are no longer Improvement's to undo, and t2 is made to follow t1.
BestMove(t1, t2) ==
    /\ Idle
    /\ t2 \in {SUC[t1], PRD[t1]}
    /\ checkPoint' = Len(stack)
    /\ reversed' = IF SUC[t1] # t2 THEN ~reversed ELSE reversed
    /\ mark' = IF reversed' = reversed THEN SUC ELSE PRD
    /\ UNCHANGED <<list, stack, hash, flip, undo, kept>>

-----------------------------------------------------------------------------
(* Flip(t1, t2, t3), called by Swap1 with no flip running. *)

\* The assertion on entry, negated early return, and t3 is not t2.
Exchangeable(t1, t2, t3) ==
    /\ prd[t1] = t2 \/ suc[t1] = t2
    /\ t3 \notin {t2, prd[t2], suc[t2]}

\* Mutant: t4 is taken on the same side whatever the orientation.
Forward_KeepsT4(t1, t2, t3) ==
    IF suc[t1] = t2 THEN <<t1, t2, t3, suc[t3]>> ELSE <<t2, t1, suc[t3], t3>>

\* <<t1, t2, t3, t4>> turned so that t2 follows t1 and t3 follows t4.
Forward(t1, t2, t3) ==
    IF suc[t1] = t2 THEN <<t1, t2, t3, prd[t3]>> ELSE <<t2, t1, suc[t3], t3>>

\* The same move with its shorter side as the segment t3 --> t1.
Shorter(r) ==
    LET d     == rank[r[2]] - rank[r[3]]
        drank == IF d < 0 THEN d + N ELSE d
    IN  IF 2 * drank > N THEN <<r[4], r[3], r[2], r[1]>> ELSE r

\* t1->Suc = nullptr, and the loop starts at t3.  The links at the call and the
\* nodes done so far are history.
StartFlip(t1, t2, t3) ==
    LET r == Shorter(Forward(t1, t2, t3))
    IN  /\ flip' = [running |-> TRUE, t |-> r, s1 |-> r[3],
                    newRank |-> rank[r[1]], oldSuc |-> suc, oldPrd |-> prd,
                    done |-> {}]
        /\ suc' = [suc EXCEPT ![r[1]] = NIL]
        /\ UNCHANGED <<prd, rank>>

\* One iteration: s1's links are swapped, s1 ranked, and s1 moves on.
ReverseNode ==
    /\ flip.running /\ flip.s1 # NIL
    /\ LET s1 == flip.s1 IN
        /\ suc' = [suc EXCEPT ![s1] = prd[s1]]
        /\ prd' = [prd EXCEPT ![s1] = suc[s1]]
        /\ rank' = [rank EXCEPT ![s1] = flip.newRank]
        /\ flip' = [flip EXCEPT !.s1 = suc[s1], !.newRank = @ - 1,
                              !.done = @ \cup {s1}]
    /\ UNCHANGED <<reversed, stack, checkPoint, hash, undo, past>>

Xor(S, T) == (S \ T) \cup (T \ S)

\* Mutant: the edge (t4,t1) is forgotten.
UpdateHash_ThreeEdges(h, r) ==
    Xor(h, {{r[1], r[2]}, {r[3], r[4]}, {r[2], r[3]}})

\* HashTable::update_hash: the four edges are XORed in.
UpdateHash(h, r) ==
    Xor(h, {{r[1], r[2]}, {r[3], r[4]}, {r[2], r[3]}, {r[4], r[1]}})

\* The loop is over: Link(t3, t2), Link(t4, t1), the record, the hash value.
EndFlip ==
    /\ flip.running /\ flip.s1 = NIL
    /\ LET r == flip.t IN
        /\ suc' = [suc EXCEPT ![r[3]] = r[2], ![r[4]] = r[1]]
        /\ prd' = [prd EXCEPT ![r[2]] = r[3], ![r[1]] = r[4]]
        /\ stack' = Append(stack, r)
        /\ hash' = UpdateHash(hash, r)
    /\ flip' = NoFlip
    /\ UNCHANGED <<rank, reversed, checkPoint, undo, past>>

\* A move of the search.
Swap1(t1, t2, t3) ==
    /\ Idle
    /\ Len(stack) < MaxStack
    /\ \A x \in Node : rank[x] >= MinRank
    /\ Exchangeable(t1, t2, t3)
    /\ StartFlip(t1, t2, t3)
    /\ UNCHANGED <<reversed, stack, checkPoint, hash, undo, past>>

-----------------------------------------------------------------------------
(* The moves are kept, or undone. *)

Top == stack[Len(stack)]
Popped == SubSeq(stack, 1, Len(stack) - 1)

\* StoreTour: every record is popped, the tour stays; LinKernighan then clears
\* the check point.
StoreTour ==
    /\ Idle
    /\ stack # <<>>
    /\ stack' = <<>> /\ checkPoint' = 0
    /\ kept' = Edges(SUC) /\ mark' = SUC
    /\ UNCHANGED <<list, reversed, hash, flip, undo>>

\* Mutant: LinKernighan does not clear the check point before.
RestoreTour_KeepsCheckPoint(t1) ==
    /\ Idle
    /\ undo' = [running |-> TRUE, odd |-> TRUE, t1 |-> t1]
    /\ UNCHANGED <<list, reversed, stack, checkPoint, hash, flip, past>>

\* RestoreTour is called: by Improvement, with the node t1 whose successor it
\* will look at; or by LinKernighan (t1 = NIL), which gives the whole chain up
\* and has cleared the check point before.
RestoreTour(t1) ==
    /\ Idle
    /\ checkPoint' = IF t1 = NIL THEN 0 ELSE checkPoint
    /\ undo' = [running |-> TRUE, odd |-> TRUE, t1 |-> t1]
    /\ UNCHANGED <<list, reversed, stack, hash, flip, past>>

\* SwapStack::restore pops on.
Popping == undo.running /\ ~flip.running /\ Len(stack) > checkPoint

\* Mutant: every pop makes a move, the parity is not kept.
UndoMove_EveryPop ==
    /\ Popping
    /\ stack' = Popped
    /\ IF Exchangeable(Top[3], Top[2], Top[1])
       THEN StartFlip(Top[3], Top[2], Top[1])
       ELSE UNCHANGED <<list, flip>>
    /\ UNCHANGED <<reversed, checkPoint, hash, undo, past>>

\* An odd pop makes the inverse move, Swap1(T3, T2, T1).
UndoMove ==
    /\ Popping /\ undo.odd
    /\ stack' = Popped
    /\ undo' = [undo EXCEPT !.odd = FALSE]
    /\ IF Exchangeable(Top[3], Top[2], Top[1])
       THEN StartFlip(Top[3], Top[2], Top[1])
       ELSE UNCHANGED <<list, flip>>
    /\ UNCHANGED <<reversed, checkPoint, hash, past>>

\* An even pop drops the record the inverse move has pushed.
DropInverse ==
    /\ Popping /\ ~undo.odd
    /\ stack' = Popped
    /\ undo' = [undo EXCEPT !.odd = TRUE]
    /\ UNCHANGED <<list, reversed, checkPoint, hash, flip, past>>

\* if (SUC(t1) != SUCt1): SUCt1 was read when the check point was set.
TurnBack(t1) == IF t1 # NIL /\ SUC[t1] # mark[t1] THEN ~reversed ELSE reversed

EndRestore ==
    /\ undo.running /\ ~flip.running
    /\ Len(stack) <= checkPoint
    /\ reversed' = TurnBack(undo.t1)
    /\ mark' = IF undo.t1 = NIL THEN SUC ELSE mark
    /\ undo' = NoUndo
    /\ UNCHANGED <<list, stack, checkPoint, hash, flip, kept>>

-----------------------------------------------------------------------------

Loop == ReverseNode \/ EndFlip \/ UndoMove \/ DropInverse \/ EndRestore

Next ==
    \/ Loop
    \/ Reenter
    \/ Turn
    \/ \E t1 \in Callers, t2 \in Node : BestMove(t1, t2)
    \/ \E t1, t2, t3 \in Node : Swap1(t1, t2, t3)
    \/ StoreTour
    \/ \E t1 \in Callers \cup {NIL} : RestoreTour(t1)

\* A running loop is straight-line code of the solver's thread: it goes on.
\* Nothing obliges the search to make another move.
Spec == Init /\ [][Next]_vars /\ WF_vars(Loop)

-----------------------------------------------------------------------------
(* Properties. *)

\* The variables hold what their declarations say: pointers are nodes or null,
\* the reversal's locals describe a move of four nodes.
TypeOK ==
    /\ suc \in [Node -> Node \cup {NIL}]
    /\ prd \in [Node -> Node \cup {NIL}]
    /\ rank \in [Node -> Int]
    /\ reversed \in BOOLEAN
    /\ stack \in Seq(Move)
    /\ checkPoint \in Nat
    /\ hash \in SUBSET SUBSET Node
    /\ flip \in {NoFlip} \cup
               [running : {TRUE}, t : Move, s1 : Node \cup {NIL}, newRank : Int,
                oldSuc : [Node -> Node], oldPrd : [Node -> Node],
                done : SUBSET Node]
    /\ undo \in {NoUndo} \cup
               [running : {TRUE}, odd : BOOLEAN, t1 : Node \cup {NIL}]
    /\ kept \in SUBSET SUBSET Node
    /\ mark \in [Node -> Node]

\* <<t1, t2, t3, t4>> is a proper 2-opt move of the tour f, whose
\* predecessors are g: t2 follows t1, t3 follows t4, and t3 is not next to t2.
ProperMove(f, g, r) ==
    /\ r \in Move
    /\ f[r[1]] = r[2] /\ f[r[4]] = r[3]
    /\ r[3] \notin {r[2], f[r[2]], g[r[2]]}

IsList(f, g) == IsTour(f) /\ g \in [Node -> Node] /\ Inverses(f, g)

\* Between two iterations of the reversal loop: the nodes passed are a piece
\* of the old tour that starts at t3 and has not reached t2 or t4; their links
\* are swapped, all others are as they were, and t1->Suc is null.
Reversing ==
    LET f == flip.oldSuc
        g == flip.oldPrd
        D == flip.done
        t == flip.t
        s == flip.s1
    IN  /\ IsList(f, g)
        /\ ProperMove(f, g, t)
        /\ suc = [x \in Node |-> IF x \in D THEN g[x]
                                 ELSE IF x = t[1] THEN NIL ELSE f[x]]
        /\ prd = [x \in Node |-> IF x \notin D THEN g[x]
                                 ELSE IF x = t[1] THEN NIL ELSE f[x]]
        /\ t[2] \notin D /\ t[4] \notin D
        /\ t[1] \in D <=> s = NIL
        /\ s # NIL => s \in Node \ D
        /\ \A x \in D \ {t[1]} : f[x] \in D \cup {s}
        /\ \A x \in D \ {t[3]} : g[x] \in D
        /\ IF t[3] \in D THEN s # NIL => g[s] \in D ELSE D = {} /\ s = t[3]

\* The list is a tour between calls and a half-turned one in them, and the
\* hash value is the one of the last whole tour.
ListInv ==
    IF flip.running THEN Reversing /\ hash = Edges(flip.oldSuc)
                    ELSE IsList(suc, prd) /\ hash = Edges(suc)

\* Whenever Flip is not running, Suc is one cycle through all nodes, Prd the
\* same cycle backwards, and the hash value that of this tour: moves, undone
\* moves and changes of direction leave no trace in it.
ListIsTour ==
    ~flip.running => IsTour(suc) /\ Inverses(suc, prd) /\ hash = Edges(suc)

\* BETWEEN, answered from ranks, is what it is on the tour a caller sees.
BetweenIsOnPath ==
    Idle => \A ta, tb, tc \in Node :
                Between(ta, tb, tc) <=> OnPath(SUC, ta, tb, tc)

\* SegmentSize, by which Gain23 and BridgeGain take the shorter one of two cycles,
\* is exact on a list: ranks stay consecutive around the tour.
SegmentSizeIsExact ==
    Idle => \A ta, tb \in Node :
                SegmentSize(ta, tb) = Cardinality({t \in Node : OnPath(SUC, ta, t, tb)})

\* When LinKernighan has given a chain up, the tour is the one last kept,
\* whatever check points the chain has set; and when Improvement has rejected a
\* move, the moves since the check point are undone, those before it are not,
\* and its caller finds the tour in the direction it had: it goes on with the
\* nodes it holds.
RestoredTour ==
    [][undo.running /\ ~undo'.running =>
          IF undo.t1 = NIL THEN stack' = <<>> /\ Edges(suc') = kept
                           ELSE Len(stack') = checkPoint /\ SUC' = mark]_vars

\* The list implements the abstract tour.  While Flip runs, callers are
\* waiting; the tour they know is the one at the call.
Seen == IF ~flip.running THEN SUC
        ELSE IF reversed THEN flip.oldPrd ELSE flip.oldSuc

Tour == INSTANCE CyclicTour WITH next <- Seen

ImplementsTour == Tour!Spec

\* RestoreTour gets down to the check point although its moves push records, and
\* every reversal it makes comes to its end.
RestoreReturns == undo.running ~> ~undo.running

=============================================================================
