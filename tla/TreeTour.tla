------------------------------- MODULE TreeTour -------------------------------
(***************************************************************************)
(* The tour as a tree of lists: Flip_SL, Flip_SSL, SplitSegment and        *)
(* FlipNodes of src/Flip.cpp, src/Between_SL.cpp, src/Between_SSL.cpp, SUC *)
(* and PRD of include/Tree.h, the segments laid out by LinKernighan, and   *)
(* RestoreTour on top of them.                                             *)
(*                                                                         *)
(* The tour is cut into segments.  A segment is a piece of a doubly linked *)
(* list of nodes that is read forwards or backwards according to its       *)
(* Reversed bit.  With tree_type 2, the default, the segments form a       *)
(* doubly linked ring; with tree_type 3 they are nodes of a list in turn,  *)
(* cut into super segments, and those form the ring.                       *)
(*                                                                         *)
(* Node, segment and super segment are one type in the code, TreeNode, and *)
(* SplitSegment and FlipNodes work on nodes and on segments.  The pointer  *)
(* structure is one record whose fields are functions on tree nodes, so    *)
(* that the code's updates in place are operators from record to record.   *)
(***************************************************************************)
EXTENDS Cycles, Integers, SequencesExt

CONSTANTS
    FirstNode,      \* Context::FirstNode
    InitialTours,   \* successor functions the search may start from
    TreeTypes,      \* values of param.tree_type
    Callers,        \* nodes that chains start from: t1 of the search
    MaxStack,       \* bound: records on the stack when a move is made
    MaxFlips        \* bound: calls of Flip_SL or Flip_SSL in a behaviour

ASSUME TreeAssumption ==
    /\ Node = 1..Cardinality(Node)
    /\ FirstNode \in Node
    /\ InitialTours \subseteq Tours
    /\ TreeTypes \subseteq {2, 3}
    /\ Callers \subseteq Node
    /\ MaxStack \in Nat /\ MaxFlips \in Nat

VARIABLES
    tour,           \* nodes, segments and super segments, see Layout
    reversed,       \* Context::Reversed
    stack,          \* SwapStack: records <<t1, t2, t3, t4>>, the top last
    checkPoint,     \* SwapStack::check_point_
    hash,           \* HashTable::hash_, as the set of edges XORed into it
    undo,           \* the running RestoreTour, NoUndo between calls
    flips,          \* calls of Flip_SL or Flip_SSL so far
    kept,           \* history: the edges of the tour when it was last kept
    mark            \* history: SUC when the check point was set

past == <<kept, mark>>
vars == <<tour, reversed, stack, checkPoint, hash, undo, flips, kept, mark>>

-----------------------------------------------------------------------------
(* Sizes (Initializer::AllocateSegments) *)

N == Cardinality(Node)

\* static_cast<int> of a root of n.
SquareRoot(n) == CHOOSE k \in 1..n : k * k <= n /\ (k + 1) * (k + 1) > n
CubeRoot(n) ==
    CHOOSE k \in 1..n : k * k * k <= n /\ (k + 1) * (k + 1) * (k + 1) > n

\* Pieces of k when n items are divided up, the last one perhaps shorter.
Pieces(n, k) == (n + k - 1) \div k

SegmentSize(type) == IF type = 3 THEN CubeRoot(N) ELSE SquareRoot(N)

SegmentCount(type) == Pieces(N, SegmentSize(type))

SuperSegmentSize(type) == IF type = 3 THEN SquareRoot(SegmentCount(type)) ELSE N

SuperCount(type) == Pieces(SegmentCount(type), SuperSegmentSize(type))

\* The tree nodes: 1..N are the nodes, then come the segments, the first being
\* segments.front(), then the super segments.
FirstSegment == N + 1
FirstSuper(type) == FirstSegment + SegmentCount(type)
LastSuper(type) == FirstSuper(type) + SuperCount(type) - 1

Segment(type) == FirstSegment..(FirstSuper(type) - 1)
Super(type) == FirstSuper(type)..LastSuper(type)
TreeNode(type) == 1..LastSuper(type)

Null == 0

\* From a along f to z: what a loop over a list visits.
Path(f, a, z) ==
    LET walk[k \in 1..N] ==
            IF k = 1 THEN <<a>>
            ELSE LET p == walk[k-1]
                 IN  IF Last(p) = z THEN p ELSE Append(p, f[Last(p)])
    IN  walk[N]

\* The whole ring f through a.
Ring(f, a) == Path(f, a, CHOOSE z \in DOMAIN f : f[z] = a)

IndexIn(p, x) == CHOOSE i \in DOMAIN p : p[i] = x

-----------------------------------------------------------------------------
(* The structure that LinKernighan lays over the list f of nodes, with the  *)
(* segments and super segments in the order of the rings that f has of them.*)

Layout(type, f) ==
    LET nodes  == Ring(f, FirstNode)
        segs   == Ring(f, FirstSegment)
        supers == Ring(f, FirstSuper(type))
        rank   == [x \in DOMAIN f |->
                      IF x < FirstSegment THEN IndexIn(nodes, x)
                      ELSE IF x < FirstSuper(type) THEN IndexIn(segs, x) ELSE IndexIn(supers, x)]
        piece(x, size) == ((rank[x] - 1) \div size) + 1
        parent == [x \in DOMAIN f |->
                      IF x < FirstSegment THEN segs[piece(x, SegmentSize(type))]
                      ELSE IF x < FirstSuper(type)
                           THEN supers[piece(x, SuperSegmentSize(type))] ELSE Null]
        held(P) == {x \in DOMAIN f : parent[x] = P}
        owners == FirstSegment..LastSuper(type)
    IN  [type   |-> type,
         suc    |-> f,
         prd    |-> [x \in DOMAIN f |-> CHOOSE y \in DOMAIN f : f[y] = x],
         rank   |-> rank,
         parent |-> parent,
         rev    |-> [P \in owners |-> FALSE],
         first  |-> [P \in owners |-> CHOOSE x \in held(P) :
                        \A y \in held(P) : rank[x] <= rank[y]],
         last   |-> [P \in owners |-> CHOOSE x \in held(P) :
                        \A y \in held(P) : rank[x] >= rank[y]],
         size   |-> [P \in owners |-> Cardinality(held(P))]]

\* The node list f, and the rings of segments and of super segments that
\* AllocateSegments links.
AllocateSegments(type, f) ==
    [x \in TreeNode(type) |->
        IF x \in Node THEN f[x]
        ELSE IF x = FirstSuper(type) - 1 THEN FirstSegment
        ELSE IF x = LastSuper(type) THEN FirstSuper(type) ELSE x + 1]

-----------------------------------------------------------------------------
(* What callers see. *)

\* Mutant: the bit of the super segment is not looked at.
Turned_SegmentOnly(T, P) == T.rev[P]

\* What is in P is read backwards, as far as the tree says.
Turned(T, P) ==
    IF T.type = 3 /\ T.parent[P] # Null THEN T.rev[P] # T.rev[T.parent[P]] ELSE T.rev[P]

\* RGP(n) or RGPP(n): the list is read backwards at x.
Backwards(T, x) == reversed # Turned(T, T.parent[x])

SucIn(T) == [x \in Node |-> IF Backwards(T, x) THEN T.prd[x] ELSE T.suc[x]]
PrdIn(T) == [x \in Node |-> IF Backwards(T, x) THEN T.suc[x] ELSE T.prd[x]]

SUC == SucIn(tour)
PRD == PrdIn(tour)

\* x lies strictly between a and c in the cyclic order of integers.
Inside(a, x, c) == IF a < c THEN x > a /\ x < c ELSE x > a \/ x < c

\* Two of a, b, c are in one list.
Together(a, b, c) ==
    LET P == tour.parent IN P[a] = P[c] \/ P[b] = P[c] \/ P[a] = P[b]

\* Mutant: the Reversed bits of the lists are not looked at.
InList_WholeListOnly(a, b, c) == reversed # Inside(tour.rank[a], tour.rank[b], tour.rank[c])

\* b is between a and c, two of which are in one list.
InList(a, b, c) ==
    LET P(x) == tour.parent[x]
        rank(x) == tour.rank[x]
        forward(x) == reversed = Turned(tour, P(x))
    IN  IF P(a) = P(c) /\ P(b) = P(a) THEN forward(a) = Inside(rank(a), rank(b), rank(c))
        ELSE IF P(a) = P(c) THEN forward(a) = (rank(a) > rank(c))
        ELSE IF P(b) = P(c) THEN forward(b) = (rank(b) < rank(c))
        ELSE forward(a) = (rank(a) < rank(b))

\* b is between a and c on the ring of the top level.
InRing(a, b, c) == reversed # Inside(tour.rank[a], tour.rank[b], tour.rank[c])

\* Three segments of different nodes.
BetweenSegments(Pa, Pb, Pc) ==
    IF tour.type = 2 THEN InRing(Pa, Pb, Pc)
    ELSE IF Together(Pa, Pb, Pc) THEN InList(Pa, Pb, Pc)
    ELSE InRing(tour.parent[Pa], tour.parent[Pb], tour.parent[Pc])

\* Between_SL and Between_SSL.
BETWEEN(ta, tb, tc) ==
    \/ tb \in {ta, tc}
    \/ /\ ta # tc
       /\ IF Together(ta, tb, tc) THEN InList(ta, tb, tc)
          ELSE BetweenSegments(tour.parent[ta], tour.parent[tb], tour.parent[tc])

\* What is left of x's list after x, and what comes before x in it.
After(x) ==
    LET P == tour.parent[x]
    IN  IF Backwards(tour, x) THEN tour.rank[x] - tour.rank[tour.first[P]]
                              ELSE tour.rank[tour.last[P]] - tour.rank[x]

\* Mutant: the Reversed bit is forgotten.
Before_IgnoresReversed(x) == tour.rank[x] - tour.rank[tour.first[tour.parent[x]]]

Before(x) ==
    LET P == tour.parent[x]
    IN  IF Backwards(tour, x) THEN tour.rank[tour.last[P]] - tour.rank[x]
                              ELSE tour.rank[x] - tour.rank[tour.first[P]]

\* The rank of y from x in the direction of the tour, of ranks modulo count.
Steps(back, x, y, count) ==
    LET d == IF back THEN tour.rank[x] - tour.rank[y] ELSE tour.rank[y] - tour.rank[x]
    IN  IF d < 0 THEN d + count ELSE d

\* What the d - 1 items between P and the d-th one after it are taken to hold.
Middle(P, back, d, size) ==
    IF d = 2 THEN tour.size[IF back THEN tour.prd[P] ELSE tour.suc[P]] ELSE (d - 1) * size

\* SegmentSize2 for ta and tb, and SegmentSize3 if their segment is the same.
SegmentSizeBetween(ta, tb) ==
    LET Pa == tour.parent[ta]
        Pb == tour.parent[tb]
        d  == Steps(reversed, Pa, Pb, SegmentCount(tour.type))
    IN  IF Pa = Pb THEN Steps(Backwards(tour, ta), ta, tb, N) + 1
        ELSE After(ta) + Middle(Pa, reversed, d, SegmentSize(tour.type)) + Before(tb) + 2

-----------------------------------------------------------------------------
(* Steps on a list of nodes or of segments. *)

Opposite(link) == IF link = "suc" THEN "prd" ELSE "suc"

\* (x->link == old ? x->link : x->opposite) = new
Redirect(T, x, link, old, new) ==
    [T EXCEPT ![IF T[link][x] = old THEN link ELSE Opposite(link)][x] = new]

\* The edges {t1,t2} and {t3,t4} give way to {t2,t3} and {t4,t1}.
Relink(T, r) ==
    LET A == Redirect(T, r[3], "suc", r[4], r[2])
        B == Redirect(A, r[2], "suc", r[1], r[3])
        C == Redirect(B, r[1], "prd", r[2], r[4])
    IN  Redirect(C, r[4], "prd", r[3], r[1])

\* Suc and Prd are swapped and Reversed is toggled; nobody reads the Reversed
\* bit of a node.
Swapped(T, S) ==
    [T EXCEPT !.suc = [x \in DOMAIN @ |-> IF x \in S THEN T.prd[x] ELSE @[x]],
              !.prd = [x \in DOMAIN @ |-> IF x \in S THEN T.suc[x] ELSE @[x]],
              !.rev = [x \in DOMAIN @ |-> (x \in S) # @[x]]]

\* The list from a to z is turned around and ranked from z's old rank down.
TurnAround(T, a, z) ==
    LET run == Path(T.suc, a, z)
    IN  [Swapped(T, ToSet(run)) EXCEPT
            !.rank = [x \in DOMAIN @ |-> IF x \in ToSet(run)
                          THEN T.rank[z] + 1 - IndexIn(run, x) ELSE @[x]]]

\* if (t2->Parent->end == t2) ... = t4; else if (t4->Parent->end == t4) ... = t2
MoveEnd(T, end, t2, t4) ==
    IF T[end][T.parent[t2]] = t2 THEN [T EXCEPT ![end][T.parent[t2]] = t4]
    ELSE IF T[end][T.parent[t4]] = t4 THEN [T EXCEPT ![end][T.parent[t4]] = t2]
    ELSE T

\* FlipNodes(t1, t2, t3, t4): the path t2 --> t4 is turned around.
FlipNodes(T, t1, t2, t3, t4) ==
    LET R == [TurnAround(T, t2, t4) EXCEPT !.suc[t2] = t3]
        A == [Redirect(R, t3, "prd", t4, t2) EXCEPT !.prd[t4] = t1]
        L == Redirect(A, t1, "suc", t2, t4)
    IN  IF T.parent[t2] = Null THEN L
        ELSE MoveEnd(MoveEnd(L, "first", t2, t4), "last", t2, t4)

-----------------------------------------------------------------------------
(* SplitSegment(t1, t2): the smaller part of P goes to the segment next to  *)
(* it.  The two halves of the function are mirror images: with the left     *)
(* part, near = first and ahead = suc, with the right part the other way.   *)

\* Mutants: the neighbour is found without regard to P's Reversed bit; ranks
\* count upwards on the left whatever the neighbour's direction.
Neighbour_IgnoresReversed(T, P, left) == IF left THEN T.prd[P] ELSE T.suc[P]

RankStep_IgnoresNeighbour(aligned, left) == IF left THEN 1 ELSE -1

\* The segment next to P's near end.
Neighbour(T, P, left) == IF left = T.rev[P] THEN T.suc[P] ELSE T.prd[P]

\* The ranks of those that join it go up or down from its last one.
RankStep(aligned, left) == IF aligned = left THEN 1 ELSE -1

\* `count' items, from P's near end to `stop', join the neighbour Q; P's near
\* end is then `rest'.
GiveAway(T, P, left, stop, rest, count) ==
    LET near  == IF left THEN "first" ELSE "last"
        far   == IF left THEN "last" ELSE "first"
        ahead == IF left THEN "suc" ELSE "prd"
        Q     == Neighbour(T, P, left)
        run   == Path(T[ahead], T[near][P], stop)
        t     == T[Opposite(ahead)][T[near][P]]
        \* Q is read in the same direction as P ...
        aligned == t = T[far][Q]
        \* ... or has one item and can be made so.
        turnQ == aligned /\ t = T[near][Q] /\ T[ahead][t] # T[near][P]
        turned == IF turnQ THEN {t} ELSE IF aligned THEN {} ELSE ToSet(run)
    IN  [Swapped(T, turned) EXCEPT
            !.rev[Q] = IF turnQ THEN ~@ ELSE @,
            !.rank = [x \in DOMAIN @ |-> IF x \in ToSet(run)
                          THEN T.rank[t] + RankStep(aligned, left) * IndexIn(run, x) ELSE @[x]],
            !.parent = [x \in DOMAIN @ |-> IF x \in ToSet(run) THEN Q ELSE @[x]],
            ![IF aligned THEN far ELSE near][Q] = stop,
            ![near][P] = rest,
            !.size[P] = @ - count,
            !.size[Q] = @ + count]

SplitSegment(T, u, v) ==
    LET P     == T.parent[u]
        t1    == IF T.rank[v] < T.rank[u] THEN v ELSE u
        t2    == IF T.rank[v] < T.rank[u] THEN u ELSE v
        count == T.rank[t1] - T.rank[T.first[P]] + 1
    IN  IF 2 * count < T.size[P] THEN GiveAway(T, P, TRUE, t1, t2, count)
                                 ELSE GiveAway(T, P, FALSE, t2, t1, T.size[P] - count)

-----------------------------------------------------------------------------
(* Flip_SL(t1, t2, t3) and Flip_SSL(t1, t2, t3): the same steps are made on  *)
(* the nodes and, with three levels, on their segments.                     *)

\* The move takes items of different lists to each other.
Apart(T, r) == T.parent[r[1]] # T.parent[r[3]] /\ T.parent[r[2]] # T.parent[r[4]]

\* u and v share a list, and most of it lies between them (SPLIT_CUTOFF).
FarInSegment(T, u, v, size) ==
    /\ T.parent[u] = T.parent[v]
    /\ LET d == T.rank[v] - T.rank[u]
       IN  4 * (IF d < 0 THEN -d ELSE d) > 3 * size

SplitBetween(T, u, v) ==
    IF T.parent[u] = T.parent[v] THEN SplitSegment(T, u, v) ELSE T

\* The second split is made only if the first has not brought the items of the
\* move together.
SplitAgain(T, apart, r) ==
    IF apart => Apart(T, r) THEN SplitBetween(T, r[3], r[4]) ELSE T

\* Split segments, or super segments, if needed.
Prepared(T, r, size) ==
    IF \/ Apart(T, r)
       \/ FarInSegment(T, r[1], r[3], size) \/ FarInSegment(T, r[2], r[4], size)
    THEN SplitAgain(SplitBetween(T, r[1], r[2]), Apart(T, r), r)
    ELSE T

\* With segments, the path t2 --> t1 is not turned if it is all of them.
MayTurnBack(T, r) ==
    r[1] \in Node \/ T.rank[r[1]] - T.rank[r[2]] + 1 < SegmentCount(T.type)

\* The arguments of FlipNodes, or <<>> if the move is not within one list.
Local(T, r) ==
    LET P(i) == T.parent[r[i]]
        rank(i) == T.rank[r[i]]
        one == P(1) = P(2) /\ P(1) = P(4)
    IN  IF P(1) = P(3) THEN
            IF rank(1) < rank(3)
            THEN IF one /\ rank(2) > rank(1) THEN r ELSE <<r[2], r[1], r[4], r[3]>>
            ELSE IF one /\ rank(2) < rank(1) /\ MayTurnBack(T, r)
                 THEN <<r[3], r[4], r[1], r[2]>> ELSE <<r[4], r[3], r[2], r[1]>>
        ELSE IF P(2) = P(4) THEN
            IF rank(4) < rank(2) THEN <<r[3], r[4], r[1], r[2]>> ELSE r
        ELSE <<>>

Parents(T, r) == [i \in 1..4 |-> T.parent[r[i]]]

\* t1..t4 turned so that t2's list follows t1's, and the shorter run of lists
\* is t3 --> t1.
InOrder(T, r, count) ==
    LET f == IF T.suc[T.parent[r[1]]] # T.parent[r[2]] THEN <<r[2], r[1], r[4], r[3]>> ELSE r
        d == T.rank[T.parent[f[2]]] - T.rank[T.parent[f[3]]]
        wraps == IF T.type = 3 THEN d <= 0 ELSE d < 0
        drank == IF wraps THEN d + count ELSE d
    IN  IF 2 * drank > count THEN <<f[4], f[3], f[2], f[1]>> ELSE f

\* Flip_SL: the segments between t3's and t1's are turned around as wholes.
FlipSegments(T, r) ==
    LET P == Parents(T, r)
    IN  Relink([TurnAround(T, P[3], P[1]) EXCEPT
                   !.suc[P[3]] = P[2], !.prd[P[2]] = P[3],
                   !.suc[P[4]] = P[1], !.prd[P[1]] = P[4]], r)

\* Flip_SSL: the super segments between that of t3 and that of t1 are.
FlipSupers(T, r) ==
    LET P == Parents(T, r)
    IN  Relink(FlipNodes(T, P[4], P[3], P[2], P[1]), r)

FlipList(T, l) == FlipNodes(T, l[1], l[2], l[3], l[4])

\* Flip_SSL, when the nodes of the move are in different segments.
MoveSegments(T, r) ==
    LET S == Prepared(T, r, SuperSegmentSize(T.type))
        l == Local(S, r)
    IN  IF l # <<>> THEN FlipList(S, l)
                    ELSE FlipSupers(S, InOrder(S, r, SuperCount(T.type)))

\* The assertion on entry and the early return.
Exchangeable(T, t1, t2, t3) ==
    /\ T.prd[t1] = t2 \/ T.suc[t1] = t2
    /\ t3 \notin {t2, T.prd[t2], T.suc[t2]}

\* Flip_SL pushes the nodes as it has turned them, Flip_SSL as they came: there
\* the names t1..t4 that are turned are those of the segments.
Moved2(T, r) == [T |-> FlipSegments(T, r), r |-> r]

Moved3(T, r) == [T |-> Relink(MoveSegments(T, Parents(T, r)), r), r |-> r]

MoveNodes(T, r, l) ==
    IF l # <<>> THEN [T |-> FlipList(T, l), r |-> r]
    ELSE IF T.type = 2 THEN Moved2(T, InOrder(T, r, SegmentCount(2)))
    ELSE Moved3(T, r)

\* The structure after the move, and the record of it.
FLIP(T, t1, t2, t3) ==
    LET t4 == IF SucIn(T)[t1] = t2 THEN PrdIn(T)[t3] ELSE SucIn(T)[t3]
        r  == <<t1, t2, t3, t4>>
        S  == Prepared(T, r, SegmentSize(T.type))
    IN  MoveNodes(S, r, Local(S, r))

\* Mutant: the closing edge is forgotten.
UpdateHash_ThreeEdges(h, r) ==
    LET S == {{r[1], r[2]}, {r[3], r[4]}, {r[2], r[3]}}
    IN  (h \ S) \cup (S \ h)

\* HashTable::update_hash with t1..t4: XOR with the four edges.
UpdateHash(h, r) ==
    LET S == {{r[1], r[2]}, {r[3], r[4]}, {r[2], r[3]}, {r[4], r[1]}}
    IN  (h \ S) \cup (S \ h)

-----------------------------------------------------------------------------
(* The search. *)

NoUndo == [running |-> FALSE]

Init ==
    /\ tour \in {Layout(type, AllocateSegments(type, f)) :
                    type \in TreeTypes, f \in InitialTours}
    /\ reversed = FALSE
    /\ stack = <<>> /\ checkPoint = 0
    /\ hash = Edges(SUC)
    /\ undo = NoUndo
    /\ flips = 0
    /\ kept = Edges(SUC) /\ mark = SUC

\* NormalizeNodeList and NormalizeSegmentList; super segments are one ring.
NormalizedList(T) ==
    [x \in DOMAIN T.suc |->
        IF x \in Node THEN SucIn(T)[x]
        ELSE IF T.parent[x] # Null /\ T.rev[T.parent[x]] THEN T.prd[x] ELSE T.suc[x]]

\* LinKernighan ends, with NormalizeNodeList, NormalizeSegmentList and Reversed
\* cleared, and is entered again: the tree is laid over the lists it left.
Reenter ==
    /\ ~undo.running /\ stack = <<>> /\ flips > 0
    /\ tour' = Layout(tour.type, NormalizedList(tour))
    /\ reversed' = FALSE
    /\ checkPoint' = 0
    /\ hash' = Edges(SUC')
    /\ mark' = SUC'
    /\ UNCHANGED <<stack, undo, flips, kept>>

\* Gain23 looks at the tour in the other direction; no move is pending then.
Turn ==
    /\ ~undo.running /\ stack = <<>> /\ checkPoint = 0
    /\ reversed' = ~reversed
    /\ mark' = PRD
    /\ UNCHANGED <<tour, stack, checkPoint, hash, undo, flips, kept>>

\* Best2OptMove, ..., Best5OptMove begin a step of the chain: the moves made so
\* far are no longer Improvement's to undo, and t2 is made to follow t1.
BestMove(t1, t2) ==
    /\ ~undo.running
    /\ t2 \in {SUC[t1], PRD[t1]}
    /\ checkPoint' = Len(stack)
    /\ reversed' = IF SUC[t1] # t2 THEN ~reversed ELSE reversed
    /\ mark' = IF reversed' = reversed THEN SUC ELSE PRD
    /\ UNCHANGED <<tour, stack, hash, undo, flips, kept>>

\* Swap1 makes a move.
Swap1(t1, t2, t3) ==
    /\ ~undo.running /\ Len(stack) < MaxStack /\ flips < MaxFlips
    /\ Exchangeable(tour, t1, t2, t3)
    /\ \E m \in {FLIP(tour, t1, t2, t3)} :
        /\ tour' = m.T
        /\ stack' = Append(stack, m.r)
        /\ hash' = UpdateHash(hash, m.r)
    /\ flips' = flips + 1
    /\ UNCHANGED <<reversed, checkPoint, undo, past>>

\* StoreTour: every record is popped, the tour stays; LinKernighan then clears
\* the check point.
StoreTour ==
    /\ ~undo.running /\ stack # <<>>
    /\ stack' = <<>> /\ checkPoint' = 0
    /\ kept' = Edges(SUC) /\ mark' = SUC
    /\ UNCHANGED <<tour, reversed, hash, undo, flips>>

\* RestoreTour, called by Improvement with t1, or by LinKernighan, which has
\* cleared the check point before.
RestoreTour(t1) ==
    /\ ~undo.running
    /\ checkPoint' = IF t1 = Null THEN 0 ELSE checkPoint
    /\ undo' = [running |-> TRUE, t1 |-> t1]
    /\ UNCHANGED <<tour, reversed, stack, hash, flips, past>>

\* An odd pop and the even one after it: the inverse move Swap1(T3, T2, T1),
\* and the record that it pushed is dropped.
UndoMove ==
    /\ undo.running /\ Len(stack) > checkPoint
    /\ LET r == Last(stack)
       IN  IF Exchangeable(tour, r[3], r[2], r[1])
           THEN /\ \E m \in {FLIP(tour, r[3], r[2], r[1])} :
                      tour' = m.T /\ hash' = UpdateHash(hash, m.r)
                /\ stack' = Front(stack)
           ELSE /\ stack' = IF Len(stack) > checkPoint + 1
                            THEN Front(Front(stack)) ELSE Front(stack)
                /\ UNCHANGED <<tour, hash>>
    /\ UNCHANGED <<reversed, checkPoint, undo, flips, past>>

\* Mutant: Improvement leaves the direction as the undone moves left it.
EndRestore_KeepsDirection ==
    /\ undo.running /\ Len(stack) <= checkPoint
    /\ mark' = IF undo.t1 = Null THEN SUC ELSE mark
    /\ undo' = NoUndo
    /\ UNCHANGED <<tour, reversed, stack, checkPoint, hash, flips, kept>>

\* Improvement, after RestoreTour: if (SUC(t1) != SUCt1) the direction is turned.
EndRestore ==
    /\ undo.running /\ Len(stack) <= checkPoint
    /\ reversed' = IF undo.t1 \in Node /\ SUC[undo.t1] # mark[undo.t1]
                   THEN ~reversed ELSE reversed
    /\ mark' = IF undo.t1 = Null THEN SUC ELSE mark
    /\ undo' = NoUndo
    /\ UNCHANGED <<tour, stack, checkPoint, hash, flips, kept>>

Next ==
    \/ Reenter
    \/ Turn
    \/ \E t1 \in Callers, t2 \in Node : BestMove(t1, t2)
    \/ \E t1, t2, t3 \in Node : Swap1(t1, t2, t3)
    \/ StoreTour
    \/ \E t1 \in Callers \cup {Null} : RestoreTour(t1)
    \/ UndoMove
    \/ EndRestore

Spec == Init /\ [][Next]_vars

-----------------------------------------------------------------------------
(* Properties. *)

\* Each segment, and with three levels each super segment, is the stretch of its
\* list from First to Last, of Size items with consecutive ranks, after however
\* many splits and merges.
SegmentsHoldTheirNodes ==
    \A P \in Segment(tour.type) \cup (IF tour.type = 3 THEN Super(3) ELSE {}) :
        LET run == Path(tour.suc, tour.first[P], tour.last[P]) IN
        /\ Last(run) = tour.last[P]
        /\ ToSet(run) = {x \in DOMAIN tour.suc : tour.parent[x] = P}
        /\ Len(run) = tour.size[P]
        /\ \A i \in DOMAIN run : tour.rank[run[i]] = tour.rank[run[1]] + i - 1

\* The segments, or super segments, of the top level form one ring with
\* consecutive ranks; and where a segment ends, in its own direction, the next
\* one of the ring of segments begins.
SegmentsFormRing ==
    LET top  == IF tour.type = 3 THEN Super(3) ELSE Segment(2)
        next == NormalizedList(tour)
        exit(s)  == IF Turned(tour, s) THEN tour.first[s] ELSE tour.last[s]
        entry(s) == IF Turned(tour, s) THEN tour.last[s] ELSE tour.first[s]
        ring(f, S) == {f[P] : P \in S} = S /\ \A P \in S : ToSet(Ring(f, P)) = S
    IN  /\ \A P \in top :
              LET Q == tour.suc[P] IN
              /\ tour.prd[Q] = P
              /\ tour.rank[Q] - tour.rank[P] \in {1, 1 - Cardinality(top)}
        /\ ring(tour.suc, top)
        /\ ring(next, Segment(tour.type))
        /\ \A s \in Segment(tour.type) :
              SucIn(tour)[IF reversed THEN entry(next[s]) ELSE exit(s)]
                  = IF reversed THEN exit(s) ELSE entry(next[s])

\* SUC is one cycle through all nodes, PRD the same cycle backwards, and the
\* hash value is the one of this tour.
ListIsTour == IsTour(SUC) /\ Inverses(SUC, PRD) /\ hash = Edges(SUC)

\* BETWEEN, answered from the ranks of nodes, segments and super segments and
\* their Reversed bits, tells the order in which a walk along SUC from its first
\* argument meets the other two.
BetweenIsOnPath ==
    ~undo.running =>
        LET walk == Ring(SUC, FirstNode) IN
        \A i, j, k \in 1..N :
            BETWEEN(walk[i], walk[j], walk[k]) <=> (j - i) % N <= (k - i) % N

\* SegmentSize, approximate on trees, is exact within a segment and, with two
\* levels, as long as no more than one whole segment lies between the nodes,
\* whatever sizes splits have left and however ranks have drifted.
SegmentSizeIsNearlyExact ==
    ~undo.running =>
        LET walk == Ring(SUC, FirstNode)
            P(i) == tour.parent[walk[i]]
            path(i, j) == {k \in 1..N : (k - i) % N <= (j - i) % N}
            near(i, j) == P(i) = P(j) \/ (/\ tour.type = 2
                                         /\ Cardinality({P(k) : k \in path(i, j)}) <= 3)
        IN  \A i, j \in 1..N :
                near(i, j) => SegmentSizeBetween(walk[i], walk[j]) = Cardinality(path(i, j))

\* A chain that LinKernighan gives up is undone to the tour last kept, and a move
\* that Improvement rejects to the check point and in the direction its caller
\* read it in, although segments were split and merged on the way.
RestoredTour ==
    [][undo.running /\ ~undo'.running =>
          IF undo.t1 \in Node THEN SUC' = mark ELSE Edges(SUC') = kept]_vars

\* The tree of lists implements the abstract tour.
Tour == INSTANCE CyclicTour WITH next <- SUC

ImplementsTour == Tour!Spec

=============================================================================
