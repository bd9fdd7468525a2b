---------------------------- MODULE TreeTourProofs ----------------------------
(***************************************************************************)
(* TreeTour with two levels, the default, for every number of nodes above  *)
(* one, every initial tour and every bound.                                *)
(*                                                                         *)
(* The inductive invariant is that the tree is well formed (each segment   *)
(* holds a stretch of the list, the segments form a ring in the order of   *)
(* their ranks, and read with their Reversed bits the stretches join up    *)
(* along the ring), that the list so read is a tour, and that the hash     *)
(* value is this tour's.                                                   *)
(*                                                                         *)
(* Most of what Flip_SL does is not to be noticed: splitting segments and  *)
(* giving nodes to a neighbour leaves the reading as it is, and so does    *)
(* naming the move by its other nodes.  Once the four nodes lie at the     *)
(* ends of their segments, or within one, turning the bits of a run of     *)
(* segments, or the links of a run of nodes, turns a path of the tour      *)
(* around.  This is the 2-opt move of CycleTheorems.                       *)
(***************************************************************************)
EXTENDS TreeTheorems, CycleTheorems, SequenceTheorems

-----------------------------------------------------------------------------
(* Two levels: the nodes I in stretches held by the segments O, which form a  *)
(* ring.                                                                      *)

\* Sets of items, owners and tree nodes as in the code.
Universe(X, W, I, O) ==
    /\ N \in Nat /\ I \subseteq X /\ O \subseteq X /\ O \subseteq W /\ I \cap W = {} /\ Null \notin O
    /\ IsFiniteSet(I) /\ Cardinality(I) <= N /\ IsFiniteSet(O) /\ Cardinality(O) <= N

\* The owners that are read backwards.
Bits(T, O) == {P \in O : T.rev[P]}

\* A tree whose items are one level, along the ring that its owners' links make.
TwoLevels(T, X, W, I, O) == Shape(T, X, W) /\ Level(T, I, O, Bits(T, O), T.suc, T.prd)

\* Nothing changes but in the items and their owners.
OutsideKept(T, U, X, W, I, O) ==
    /\ U.type = T.type /\ ItemsElseKept(T, U, X, I) /\ \A x \in X \ I : U.parent[x] = T.parent[x]
    /\ \A P \in W \ O : U.rev[P] = T.rev[P]

\* The ring matters only on the owners.
LEMMA LevelOfRing ==
    ASSUME NEW T, NEW I, NEW O, NEW B, NEW nx, NEW pv, NEW nx2, NEW pv2,
           Level(T, I, O, B, nx, pv), \A P \in O : nx2[P] = nx[P] /\ pv2[P] = pv[P]
    PROVE  Level(T, I, O, B, nx2, pv2)
<1>1. Linked(O, nx, pv) /\ Joined(T, O, B, nx, pv) /\ Stretches(T, I, O)
  BY DEF Level
<1>2. Linked(O, nx2, pv2)
  BY <1>1 DEF Linked
<1>3. Joined(T, O, B, nx2, pv2)
  BY <1>1 DEF Joined
<1> QED
  BY <1>1, <1>2, <1>3 DEF Level

\* GiveAway on the left keeps the levels and what is read.
LEMMA GiveLeftKeeps ==
    ASSUME NEW X, NEW W, NEW I, NEW O, Universe(X, W, I, O), NEW T, TwoLevels(T, X, W, I, O),
           NEW P \in O, NEW stop \in I, T.parent[stop] = P, stop # T.last[P]
    PROVE  LET Q == Neighbour(T, P, TRUE)
               U == GiveAway(T, P, TRUE, stop, T.suc[stop], T.rank[stop] - T.rank[T.first[P]] + 1)
           IN  /\ Q \in O /\ Q # P
               /\ TwoLevels(U, X, W, I, O) /\ SameReading(T, Bits(T, O), U, Bits(U, O), I)
               /\ OutsideKept(T, U, X, W, I, O)
               /\ \A x \in I : U.parent[x] = IF x \in LeftPart(T, I, P, stop) THEN Q ELSE T.parent[x]
<1> DEFINE B == Bits(T, O)
           Q == Neighbour(T, P, TRUE)
           rest == T.suc[stop]
           count == T.rank[stop] - T.rank[T.first[P]] + 1
           U == GiveAway(T, P, TRUE, stop, rest, count)
           M == LeftPart(T, I, P, stop)
           C == IF TurnsLeft(T, P, Q) THEN Toggled(B, {Q}) ELSE B
<1>1. Shape(T, X, W) /\ Level(T, I, O, B, T.suc, T.prd) /\ Stretches(T, I, O) /\ Linked(O, T.suc, T.prd)
  BY DEF TwoLevels, Level
<1>2. /\ N \in Nat /\ I \in SUBSET X /\ O \in SUBSET X /\ O \subseteq W /\ I \cap O = {} /\ IsFiniteSet(I)
      /\ Cardinality(I) <= N /\ I \cap W = {}
  BY DEF Universe
<1>3. T.rev[P] \in BOOLEAN
  BY <1>1, <1>2 DEF Shape
<1>4. Q = Before1(P, B, T.suc, T.prd)
  BY <1>3 DEF Neighbour, Before1, Bits
<1>5. Q \in O /\ Q # P
  <2>1. T.suc[P] \in O /\ T.prd[P] \in O /\ T.suc[P] # P /\ T.prd[P] # P
    BY <1>1 DEF Linked
  <2> QED
    BY <1>4, <2>1 DEF Before1
<1>6. T.prd[T.first[P]] \in I
  BY <1>1 DEF Stretches, Typed, EndsHeld
<1> HIDE DEF Q, B
<1>7. /\ Shape(U, X, W) /\ U.type = T.type /\ GivesLeft(T, U, I, O, P, Q, stop)
      /\ U.rev = [x \in W |-> IF x = Q /\ TurnsLeft(T, P, Q) THEN ~T.rev[x]
                              ELSE IF x \in SwappedLeft(T, P, Q, M) THEN ~T.rev[x] ELSE T.rev[x]]
      /\ ItemsElseKept(T, U, X, I) /\ \A x \in X \ I : U.parent[x] = T.parent[x]
  <2> HIDE DEF rest, count, M
  <2>1. Q = Neighbour(T, P, TRUE) /\ rest = T.suc[stop] /\ count = T.rank[stop] - T.rank[T.first[P]] + 1
    BY DEF Q, rest, count
  <2>2. GiftLeft(T, U, X, W, I, O, P, Q, stop)
    <3>1. /\ N \in Nat /\ Shape(T, X, W) /\ I \in SUBSET X /\ O \in SUBSET X /\ O \subseteq W
          /\ I \cap O = {} /\ IsFiniteSet(I) /\ Cardinality(I) <= N /\ Stretches(T, I, O)
          /\ P \in O /\ Q \in O /\ Q # P /\ Q = Neighbour(T, P, TRUE)
          /\ T.prd[T.first[P]] \in I
          /\ stop \in I /\ T.parent[stop] = P /\ stop # T.last[P]
          /\ rest = T.suc[stop] /\ count = T.rank[stop] - T.rank[T.first[P]] + 1
      BY <1>1, <1>2, <1>5, <1>6, <2>1
    <3> HIDE DEF U
    <3> QED
      BY ONLY <3>1, GiveLeftIs DEF U
  <2> QED
    BY <2>2 DEF M, GiftLeft
<1> HIDE DEF U, C, M
<1>8. /\ Level(U, I, O, C, T.suc, T.prd) /\ SameReading(T, B, U, C, I)
  <2>1. C = IF TurnsLeft(T, P, Q) THEN Toggled(B, {Q}) ELSE B
    BY DEF C
  <2> QED
    BY <1>1, <1>4, <1>5, <1>7, <2>1, LeftPartLevel
<1>9. SwappedLeft(T, P, Q, M) \subseteq I
  <2>1. T.first[Q] \in I /\ T.last[Q] \in I
    BY <1>1, <1>5 DEF Stretches, EndsHeld
  <2>2. M \subseteq I
    BY DEF M, LeftPart
  <2> QED
    BY <2>1, <2>2 DEF SwappedLeft
<1>10. \A R \in W : U.rev[R] = IF R = Q /\ TurnsLeft(T, P, Q) THEN ~T.rev[R] ELSE T.rev[R]
  BY <1>2, <1>7, <1>9
<1>11. Bits(U, O) = C
  <2>1. \A R \in O : R \in C <=> U.rev[R]
    <3> TAKE R \in O
    <3>1. U.rev[R] = IF R = Q /\ TurnsLeft(T, P, Q) THEN ~T.rev[R] ELSE T.rev[R]
      BY <1>2, <1>10
    <3>2. R \in B <=> T.rev[R]
      BY DEF B, Bits
    <3>3. R \in C <=> IF R = Q /\ TurnsLeft(T, P, Q) THEN R \notin B ELSE R \in B
      BY DEF C, Toggled
    <3> QED
      BY <3>1, <3>2, <3>3
  <2>2. C \subseteq O
    BY <1>5 DEF C, B, Bits, Toggled
  <2> QED
    BY <2>1, <2>2 DEF Bits
<1>12. \A R \in O : U.suc[R] = T.suc[R] /\ U.prd[R] = T.prd[R]
  BY <1>2, <1>7 DEF ItemsElseKept
<1>13. TwoLevels(U, X, W, I, O)
  BY <1>7, <1>8, <1>11, <1>12, LevelOfRing DEF TwoLevels
<1>14. OutsideKept(T, U, X, W, I, O)
  BY <1>5, <1>7, <1>10 DEF OutsideKept
<1>15. \A x \in I : U.parent[x] = IF x \in M THEN Q ELSE T.parent[x]
  BY <1>7 DEF GivesLeft, LeftGiven, M
<1> QED
  BY <1>5, <1>8, <1>11, <1>13, <1>14, <1>15 DEF U, M, Q, B

\* GiveAway on the right, too.
LEMMA GiveRightKeeps ==
    ASSUME NEW X, NEW W, NEW I, NEW O, Universe(X, W, I, O), NEW T, TwoLevels(T, X, W, I, O),
           NEW P \in O, NEW stop \in I, T.parent[stop] = P, stop # T.first[P]
    PROVE  LET Q == Neighbour(T, P, FALSE)
               U == GiveAway(T, P, FALSE, stop, T.prd[stop], T.rank[T.last[P]] - T.rank[stop] + 1)
           IN  /\ Q \in O /\ Q # P
               /\ TwoLevels(U, X, W, I, O) /\ SameReading(T, Bits(T, O), U, Bits(U, O), I)
               /\ OutsideKept(T, U, X, W, I, O)
               /\ \A x \in I : U.parent[x] = IF x \in RightPart(T, I, P, stop) THEN Q ELSE T.parent[x]
<1> DEFINE B == Bits(T, O)
           Q == Neighbour(T, P, FALSE)
           rest == T.prd[stop]
           count == T.rank[T.last[P]] - T.rank[stop] + 1
           U == GiveAway(T, P, FALSE, stop, rest, count)
           M == RightPart(T, I, P, stop)
           C == IF TurnsRight(T, P, Q) THEN Toggled(B, {Q}) ELSE B
<1>1. Shape(T, X, W) /\ Level(T, I, O, B, T.suc, T.prd) /\ Stretches(T, I, O) /\ Linked(O, T.suc, T.prd)
  BY DEF TwoLevels, Level
<1>2. /\ N \in Nat /\ I \in SUBSET X /\ O \in SUBSET X /\ O \subseteq W /\ I \cap O = {} /\ IsFiniteSet(I)
      /\ Cardinality(I) <= N /\ I \cap W = {}
  BY DEF Universe
<1>3. T.rev[P] \in BOOLEAN
  BY <1>1, <1>2 DEF Shape
<1>4. Q = After1(P, B, T.suc, T.prd)
  BY <1>3 DEF Neighbour, After1, Bits
<1>5. Q \in O /\ Q # P
  <2>1. T.suc[P] \in O /\ T.prd[P] \in O /\ T.suc[P] # P /\ T.prd[P] # P
    BY <1>1 DEF Linked
  <2> QED
    BY <1>4, <2>1 DEF After1
<1>6. T.suc[T.last[P]] \in I
  BY <1>1 DEF Stretches, Typed, EndsHeld
<1> HIDE DEF Q, B
<1>7. /\ Shape(U, X, W) /\ U.type = T.type /\ GivesRight(T, U, I, O, P, Q, stop)
      /\ U.rev = [x \in W |-> IF x = Q /\ TurnsRight(T, P, Q) THEN ~T.rev[x]
                              ELSE IF x \in SwappedRight(T, P, Q, M) THEN ~T.rev[x] ELSE T.rev[x]]
      /\ ItemsElseKept(T, U, X, I) /\ \A x \in X \ I : U.parent[x] = T.parent[x]
  <2> HIDE DEF rest, count, M
  <2>1. Q = Neighbour(T, P, FALSE) /\ rest = T.prd[stop] /\ count = T.rank[T.last[P]] - T.rank[stop] + 1
    BY DEF Q, rest, count
  <2>2. GiftRight(T, U, X, W, I, O, P, Q, stop)
    <3>1. /\ N \in Nat /\ Shape(T, X, W) /\ I \in SUBSET X /\ O \in SUBSET X /\ O \subseteq W
          /\ I \cap O = {} /\ IsFiniteSet(I) /\ Cardinality(I) <= N /\ Stretches(T, I, O)
          /\ P \in O /\ Q \in O /\ Q # P /\ Q = Neighbour(T, P, FALSE)
          /\ T.suc[T.last[P]] \in I
          /\ stop \in I /\ T.parent[stop] = P /\ stop # T.first[P]
          /\ rest = T.prd[stop] /\ count = T.rank[T.last[P]] - T.rank[stop] + 1
      BY <1>1, <1>2, <1>5, <1>6, <2>1
    <3> HIDE DEF U
    <3> QED
      BY ONLY <3>1, GiveRightIs DEF U
  <2> QED
    BY <2>2 DEF M, GiftRight
<1> HIDE DEF U, C, M
<1>8. /\ Level(U, I, O, C, T.suc, T.prd) /\ SameReading(T, B, U, C, I)
  <2>1. C = IF TurnsRight(T, P, Q) THEN Toggled(B, {Q}) ELSE B
    BY DEF C
  <2> QED
    BY <1>1, <1>4, <1>5, <1>7, <2>1, RightPartLevel
<1>9. SwappedRight(T, P, Q, M) \subseteq I
  <2>1. T.first[Q] \in I /\ T.last[Q] \in I
    BY <1>1, <1>5 DEF Stretches, EndsHeld
  <2>2. M \subseteq I
    BY DEF M, RightPart
  <2> QED
    BY <2>1, <2>2 DEF SwappedRight
<1>10. \A R \in W : U.rev[R] = IF R = Q /\ TurnsRight(T, P, Q) THEN ~T.rev[R] ELSE T.rev[R]
  BY <1>2, <1>7, <1>9
<1>11. Bits(U, O) = C
  <2>1. \A R \in O : R \in C <=> U.rev[R]
    <3> TAKE R \in O
    <3>1. U.rev[R] = IF R = Q /\ TurnsRight(T, P, Q) THEN ~T.rev[R] ELSE T.rev[R]
      BY <1>2, <1>10
    <3>2. R \in B <=> T.rev[R]
      BY DEF B, Bits
    <3>3. R \in C <=> IF R = Q /\ TurnsRight(T, P, Q) THEN R \notin B ELSE R \in B
      BY DEF C, Toggled
    <3> QED
      BY <3>1, <3>2, <3>3
  <2>2. C \subseteq O
    BY <1>5 DEF C, B, Bits, Toggled
  <2> QED
    BY <2>1, <2>2 DEF Bits
<1>12. \A R \in O : U.suc[R] = T.suc[R] /\ U.prd[R] = T.prd[R]
  BY <1>2, <1>7 DEF ItemsElseKept
<1>13. TwoLevels(U, X, W, I, O)
  BY <1>7, <1>8, <1>11, <1>12, LevelOfRing DEF TwoLevels
<1>14. OutsideKept(T, U, X, W, I, O)
  BY <1>5, <1>7, <1>10 DEF OutsideKept
<1>15. \A x \in I : U.parent[x] = IF x \in M THEN Q ELSE T.parent[x]
  BY <1>7 DEF GivesRight, RightGiven, M
<1> QED
  BY <1>5, <1>8, <1>11, <1>13, <1>14, <1>15 DEF U, M, Q, B

\* One of u and v has gone to another owner than P, with others of P.
Parted(T, U, I, O, P, u, v) ==
    \E stop \in {u, v}, Q \in O \ {P} :
        /\ U.parent[stop] = Q /\ \A w \in {u, v} : w # stop => U.parent[w] = P
        /\ \A x \in I : U.parent[x] = T.parent[x] \/ (T.parent[x] = P /\ U.parent[x] = Q)

\* What is kept by all steps that prepare a move.
LevelsKept(T, U, X, W, I, O) ==
    /\ TwoLevels(U, X, W, I, O) /\ SameReading(T, Bits(T, O), U, Bits(U, O), I)
    /\ OutsideKept(T, U, X, W, I, O)

\* SplitSegment parts two neighbours of one segment, and the tree is read as before.
LEMMA SplitSegmentKeeps ==
    ASSUME NEW X, NEW W, NEW I, NEW O, Universe(X, W, I, O), NEW T, TwoLevels(T, X, W, I, O),
           NEW u \in I, NEW v \in I, T.parent[v] = T.parent[u],
           T.rank[v] = T.rank[u] + 1 \/ T.rank[u] = T.rank[v] + 1
    PROVE  LET U == SplitSegment(T, u, v) IN
           LevelsKept(T, U, X, W, I, O) /\ Parted(T, U, I, O, T.parent[u], u, v)
<1> DEFINE P == T.parent[u]
           t1 == IF T.rank[v] < T.rank[u] THEN v ELSE u
           t2 == IF T.rank[v] < T.rank[u] THEN u ELSE v
           count == T.rank[t1] - T.rank[T.first[P]] + 1
           count2 == T.rank[T.last[P]] - T.rank[t2] + 1
           U == SplitSegment(T, u, v)
<1>1. Stretches(T, I, O) /\ T.rank[u] \in Int /\ T.rank[v] \in Int
  BY DEF TwoLevels, Level, Stretches, Typed
<1>2. /\ t1 \in I /\ t2 \in I /\ {t1, t2} = {u, v} /\ t1 # t2 /\ T.parent[t1] = P /\ T.parent[t2] = P
      /\ T.rank[t2] = T.rank[t1] + 1 /\ T.rank[t1] \in Int
  BY <1>1
<1> HIDE DEF t1, t2
<1>3. /\ P \in O /\ T.first[P] \in I /\ T.last[P] \in I /\ T.rank[T.first[P]] \in Int /\ T.rank[T.last[P]] \in Int
      /\ T.rank[T.first[P]] <= T.rank[t1] /\ T.rank[t2] <= T.rank[T.last[P]]
  BY <1>1, <1>2 DEF Stretches, Typed, EndsHeld, RankedFromFirst
<1>4. t1 # T.last[P] /\ t2 # T.first[P]
  BY <1>2, <1>3
<1>5. T.suc[t1] = t2 /\ T.prd[t2] = t1
  <2>1. T.suc[t1] \in I /\ T.prd[t2] \in I
    BY <1>1, <1>2 DEF Stretches, Typed
  <2>2. T.parent[T.suc[t1]] = P /\ T.rank[T.suc[t1]] = T.rank[t2]
    BY <1>1, <1>2, <1>4 DEF Stretches, UpToLast
  <2>3. T.parent[T.prd[t2]] = P /\ T.rank[T.prd[t2]] = T.rank[t1]
    BY <1>1, <1>2, <1>4 DEF Stretches, DownToFirst
  <2> QED
    BY <1>1, <1>2, <2>1, <2>2, <2>3 DEF Stretches, RankedOnce
<1>6. T.size[P] - count = count2
  <2>1. T.size[P] = T.rank[T.last[P]] - T.rank[T.first[P]] + 1
    BY <1>1, <1>3 DEF Stretches, Sized
  <2> QED
    BY <1>2, <1>3, <2>1
<1>7. U = IF 2 * count < T.size[P] THEN GiveAway(T, P, TRUE, t1, t2, count)
                                   ELSE GiveAway(T, P, FALSE, t2, t1, T.size[P] - count)
  BY DEF SplitSegment, t1, t2
<1>8. CASE 2 * count < T.size[P]
  <2> DEFINE Q == Neighbour(T, P, TRUE)
             V == GiveAway(T, P, TRUE, t1, T.suc[t1], count)
  <2>1. U = V
    BY <1>5, <1>7, <1>8
  <2>2. /\ Q \in O /\ Q # P
        /\ TwoLevels(V, X, W, I, O) /\ SameReading(T, Bits(T, O), V, Bits(V, O), I)
        /\ OutsideKept(T, V, X, W, I, O)
        /\ \A x \in I : V.parent[x] = IF x \in LeftPart(T, I, P, t1) THEN Q ELSE T.parent[x]
    BY <1>2, <1>3, <1>4, GiveLeftKeeps
  <2> HIDE DEF Q, V, U
  <2>3. t1 \in LeftPart(T, I, P, t1) /\ t2 \notin LeftPart(T, I, P, t1)
        /\ \A x \in LeftPart(T, I, P, t1) : T.parent[x] = P
    BY <1>2, <1>3 DEF LeftPart
  <2>4. V.parent[t1] = Q /\ V.parent[t2] = P
    BY <1>2, <2>2, <2>3
  <2>5. \A x \in I : V.parent[x] = T.parent[x] \/ (T.parent[x] = P /\ V.parent[x] = Q)
    BY <2>2, <2>3
  <2>6. Parted(T, V, I, O, P, u, v)
    BY <1>2, <2>2, <2>4, <2>5 DEF Parted
  <2> QED
    BY <2>1, <2>2, <2>6 DEF U, LevelsKept
<1>9. CASE ~(2 * count < T.size[P])
  <2> DEFINE Q == Neighbour(T, P, FALSE)
             V == GiveAway(T, P, FALSE, t2, T.prd[t2], count2)
  <2>1. U = V
    BY <1>5, <1>6, <1>7, <1>9
  <2>2. /\ Q \in O /\ Q # P
        /\ TwoLevels(V, X, W, I, O) /\ SameReading(T, Bits(T, O), V, Bits(V, O), I)
        /\ OutsideKept(T, V, X, W, I, O)
        /\ \A x \in I : V.parent[x] = IF x \in RightPart(T, I, P, t2) THEN Q ELSE T.parent[x]
    BY <1>2, <1>3, <1>4, GiveRightKeeps
  <2> HIDE DEF Q, V, U
  <2>3. t2 \in RightPart(T, I, P, t2) /\ t1 \notin RightPart(T, I, P, t2)
        /\ \A x \in RightPart(T, I, P, t2) : T.parent[x] = P
    BY <1>2, <1>3 DEF RightPart
  <2>4. V.parent[t2] = Q /\ V.parent[t1] = P
    BY <1>2, <2>2, <2>3
  <2>5. \A x \in I : V.parent[x] = T.parent[x] \/ (T.parent[x] = P /\ V.parent[x] = Q)
    BY <2>2, <2>3
  <2>6. Parted(T, V, I, O, P, u, v)
    BY <1>2, <2>2, <2>4, <2>5 DEF Parted
  <2> QED
    BY <2>1, <2>2, <2>6 DEF U, LevelsKept
<1> QED
  BY <1>8, <1>9

-----------------------------------------------------------------------------
(* The move, and whether it is within one stretch. *)

\* Suc and Prd of a stretch lead to the next rank, or out of the stretch.
LEMMA NextInStretch ==
    ASSUME NEW T, NEW I, NEW O, NEW B, NEW nx, NEW pv, Level(T, I, O, B, nx, pv), NEW x \in I
    PROVE  /\ T.parent[T.suc[x]] = T.parent[x] =>
                 T.suc[x] \in I /\ T.rank[T.suc[x]] = T.rank[x] + 1 /\ T.prd[T.suc[x]] = x
           /\ T.parent[T.prd[x]] = T.parent[x] =>
                 T.prd[x] \in I /\ T.rank[T.prd[x]] = T.rank[x] - 1 /\ T.suc[T.prd[x]] = x
           /\ \A y \in I : T.parent[y] = T.parent[x] /\ T.rank[y] > T.rank[x] =>
                              T.parent[T.suc[x]] = T.parent[x]
           /\ \A y \in I : T.parent[y] = T.parent[x] /\ T.rank[y] < T.rank[x] =>
                              T.parent[T.prd[x]] = T.parent[x]
<1> DEFINE P == T.parent[x]
<1>1. Stretches(T, I, O)
  BY DEF Level
<1>2. /\ P \in O
      /\ x # T.last[P] => /\ T.suc[x] \in I /\ T.parent[T.suc[x]] = P /\ T.prd[T.suc[x]] = x
                          /\ T.rank[T.suc[x]] = T.rank[x] + 1
      /\ x # T.first[P] => /\ T.prd[x] \in I /\ T.parent[T.prd[x]] = P /\ T.suc[T.prd[x]] = x
                           /\ T.rank[T.prd[x]] = T.rank[x] - 1
  BY <1>1, Within
<1>3. T.parent[T.prd[T.first[P]]] # P /\ T.parent[T.suc[T.last[P]]] # P
  BY <1>2, EndsLeave
<1>4. \A y \in I : T.parent[y] = P => /\ T.rank[T.first[P]] <= T.rank[y] /\ T.rank[y] <= T.rank[T.last[P]]
                                      /\ T.rank[y] \in Int
  BY <1>1 DEF Stretches, RankedFromFirst, Typed
<1>5. T.rank[T.first[P]] \in Int /\ T.rank[T.last[P]] \in Int
  BY <1>1, <1>2 DEF Stretches, Typed, EndsHeld
<1>6. \A y \in I : T.parent[y] = P /\ T.rank[y] > T.rank[x] => x # T.last[P]
  BY <1>4, <1>5
<1>7. \A y \in I : T.parent[y] = P /\ T.rank[y] < T.rank[x] => x # T.first[P]
  BY <1>4, <1>5
<1>8. T.parent[T.suc[x]] = P => x # T.last[P]
  BY <1>3
<1>9. T.parent[T.prd[x]] = P => x # T.first[P]
  BY <1>3
<1>10. T.parent[T.suc[x]] = P => T.suc[x] \in I /\ T.rank[T.suc[x]] = T.rank[x] + 1 /\ T.prd[T.suc[x]] = x
  BY <1>2, <1>8
<1>11. T.parent[T.prd[x]] = P => T.prd[x] \in I /\ T.rank[T.prd[x]] = T.rank[x] - 1 /\ T.suc[T.prd[x]] = x
  BY <1>2, <1>9
<1>12. \A y \in I : T.parent[y] = P /\ T.rank[y] > T.rank[x] => T.parent[T.suc[x]] = P
  BY <1>2, <1>6
<1>13. \A y \in I : T.parent[y] = P /\ T.rank[y] < T.rank[x] => T.parent[T.prd[x]] = P
  BY <1>2, <1>7
<1> QED
  BY <1>10, <1>11, <1>12, <1>13

\* The edges {t1,t2} and {t3,t4} lead the same way round.
Proper(T, B, I, t1, t2, t3, t4) ==
    /\ t1 \in I /\ t2 \in I /\ t3 \in I /\ t4 \in I
    /\ t1 # t2 /\ t1 # t3 /\ t1 # t4 /\ t2 # t3 /\ t2 # t4 /\ t3 # t4
    /\ \/ Forth(T, B, t1) = t2 /\ Forth(T, B, t4) = t3
       \/ Back(T, B, t1) = t2 /\ Back(T, B, t4) = t3

\* The same move may be named in four ways.
Turnings(t1, t2, t3, t4) ==
    {<<t1, t2, t3, t4>>, <<t2, t1, t4, t3>>, <<t3, t4, t1, t2>>, <<t4, t3, t2, t1>>}

\* A proper move is proper under each of its names.
LEMMA ProperTurned ==
    ASSUME NEW T, NEW I, NEW O, NEW B, NEW nx, NEW pv, Level(T, I, O, B, nx, pv),
           NEW t1, NEW t2, NEW t3, NEW t4, Proper(T, B, I, t1, t2, t3, t4)
    PROVE  /\ Proper(T, B, I, t2, t1, t4, t3) /\ Proper(T, B, I, t3, t4, t1, t2)
           /\ Proper(T, B, I, t4, t3, t2, t1)
<1>1. t1 \in I /\ t2 \in I /\ t3 \in I /\ t4 \in I
  BY DEF Proper
<1>2. \A x \in {t1, t2, t3, t4} : Back(T, B, Forth(T, B, x)) = x /\ Forth(T, B, Back(T, B, x)) = x
  BY <1>1, LevelInverse
<1> QED
  BY <1>2 DEF Proper

\* In a stretch that t1 and t3 share, the edges lie on the same sides of them.
LEMMA ProperInStretch ==
    ASSUME NEW T, NEW I, NEW O, NEW B, NEW nx, NEW pv, Level(T, I, O, B, nx, pv),
           NEW t1, NEW t2, NEW t3, NEW t4, Proper(T, B, I, t1, t2, t3, t4),
           T.parent[t1] = T.parent[t3]
    PROVE  (T.suc[t1] = t2 /\ T.prd[t3] = t4) \/ (T.prd[t1] = t2 /\ T.suc[t3] = t4)
<1>1. t3 \in I /\ t4 \in I
  BY DEF Proper
<1>2. Forth(T, B, t4) = t3 => Back(T, B, t3) = t4
  BY <1>1, LevelInverse
<1>3. Back(T, B, t4) = t3 => Forth(T, B, t3) = t4
  BY <1>1, LevelInverse
<1> QED
  BY <1>2, <1>3 DEF Proper, Forth, Back

\* What FlipNodes is called with: the path l[2] --> l[4] of one stretch.
InStretch(T, l) ==
    /\ T.prd[l[2]] = l[1] /\ T.suc[l[4]] = l[3]
    /\ T.parent[l[4]] = T.parent[l[2]] /\ T.rank[l[2]] < T.rank[l[4]]

\* l is what Local should answer for t1..t4.
LocalRight(T, t1, t2, t3, t4, l) ==
    IF T.parent[t1] = T.parent[t3] \/ T.parent[t2] = T.parent[t4]
    THEN l \in Turnings(t1, t2, t3, t4) /\ InStretch(T, l) ELSE l = <<>>

\* Local names the move so that its path lies in one stretch, if it can.
LEMMA LocalIs ==
    ASSUME NEW T, NEW I \in SUBSET Node, NEW O, NEW B, NEW nx, NEW pv, Level(T, I, O, B, nx, pv),
           NEW t1, NEW t2, NEW t3, NEW t4, Proper(T, B, I, t1, t2, t3, t4)
    PROVE  LocalRight(T, t1, t2, t3, t4, Local(T, <<t1, t2, t3, t4>>))
<1> DEFINE r == <<t1, t2, t3, t4>>
           l == Local(T, r)
           P1 == T.parent[t1]  P2 == T.parent[t2]  P3 == T.parent[t3]  P4 == T.parent[t4]
           one == P1 = P2 /\ P1 = P4
<1>1. /\ t1 \in I /\ t2 \in I /\ t3 \in I /\ t4 \in I
      /\ t1 # t2 /\ t1 # t3 /\ t1 # t4 /\ t2 # t3 /\ t2 # t4 /\ t3 # t4
  BY DEF Proper
<1>2. T.rank[t1] \in Int /\ T.rank[t2] \in Int /\ T.rank[t3] \in Int /\ T.rank[t4] \in Int
  BY <1>1 DEF Level, Stretches, Typed
<1>3. \A x, y \in {t1, t2, t3, t4} : T.parent[x] = T.parent[y] /\ T.rank[x] = T.rank[y] => x = y
  BY <1>1 DEF Level, Stretches, RankedOnce
<1>4. \A x, y \in {t1, t2, t3, t4} : T.suc[x] = y /\ T.parent[y] = T.parent[x] =>
                                        T.rank[y] = T.rank[x] + 1 /\ T.prd[y] = x
  BY <1>1, NextInStretch
<1>5. \A x, y \in {t1, t2, t3, t4} : T.prd[x] = y /\ T.parent[y] = T.parent[x] =>
                                        T.rank[y] = T.rank[x] - 1 /\ T.suc[y] = x
  BY <1>1, NextInStretch
<1>6. \A x, y \in {t1, t2, t3, t4} : T.parent[y] = T.parent[x] /\ T.rank[y] > T.rank[x] =>
                                        T.parent[T.suc[x]] = T.parent[x]
  BY <1>1, NextInStretch
<1>7. \A x, y \in {t1, t2, t3, t4} : T.parent[y] = T.parent[x] /\ T.rank[y] < T.rank[x] =>
                                        T.parent[T.prd[x]] = T.parent[x]
  BY <1>1, NextInStretch
<1>8. MayTurnBack(T, r)
  BY <1>1 DEF MayTurnBack
<1>9. l = IF P1 = P3 THEN
              IF T.rank[t1] < T.rank[t3]
              THEN IF one /\ T.rank[t2] > T.rank[t1] THEN r ELSE <<t2, t1, t4, t3>>
              ELSE IF one /\ T.rank[t2] < T.rank[t1] THEN <<t3, t4, t1, t2>> ELSE <<t4, t3, t2, t1>>
          ELSE IF P2 = P4 THEN IF T.rank[t4] < T.rank[t2] THEN <<t3, t4, t1, t2>> ELSE r
          ELSE <<>>
  BY <1>8 DEF Local
<1> HIDE DEF l
<1> SUFFICES LocalRight(T, t1, t2, t3, t4, l)
  BY DEF l
<1>10. CASE P1 = P3
  <2>1. (T.suc[t1] = t2 /\ T.prd[t3] = t4) \/ (T.prd[t1] = t2 /\ T.suc[t3] = t4)
    BY <1>10, ProperInStretch
  <2>2. CASE T.rank[t1] < T.rank[t3]
    <3>1. CASE one /\ T.rank[t2] > T.rank[t1]
      <4>0. P2 = P1 /\ P4 = P1 /\ T.rank[t2] > T.rank[t1]
        BY <3>1
      <4>01. T.prd[t1] # t2
        <5>1. T.prd[t1] = t2 => T.rank[t2] = T.rank[t1] - 1
          BY <1>5, <4>0
        <5> QED
          BY <1>2, <4>0, <5>1
      <4>1. T.suc[t1] = t2 /\ T.prd[t3] = t4
        BY <2>1, <4>01
      <4>11. T.rank[t2] = T.rank[t1] + 1 /\ T.rank[t4] = T.rank[t3] - 1
        BY <1>4, <1>5, <1>10, <4>0, <4>1
      <4>2. T.prd[t2] = t1 /\ T.suc[t4] = t3 /\ T.rank[t2] # T.rank[t4] /\ T.rank[t2] # T.rank[t3]
        BY <1>1, <1>3, <1>4, <1>5, <1>10, <3>1, <4>1
      <4>3. T.rank[t2] < T.rank[t4]
        BY <1>2, <2>2, <4>11, <4>2
      <4>4. l = r
        BY <1>9, <1>10, <2>2, <3>1
      <4>21. InStretch(T, <<t1, t2, t3, t4>>)
        BY <4>0, <4>2, <4>3 DEF InStretch
      <4>22. <<t1, t2, t3, t4>> \in Turnings(t1, t2, t3, t4)
        BY DEF Turnings
      <4> QED
        BY <1>10, <4>4, <4>21, <4>22 DEF LocalRight
    <3>2. CASE ~(one /\ T.rank[t2] > T.rank[t1])
      <4>1. T.prd[t1] = t2 /\ T.suc[t3] = t4
        <5> SUFFICES ASSUME T.suc[t1] = t2 /\ T.prd[t3] = t4 PROVE FALSE
          BY <2>1
        <5>1. P2 = P1 /\ P4 = P1
          BY <1>2, <1>6, <1>7, <1>10, <2>2
        <5> QED
          BY <1>2, <1>4, <1>10, <3>2, <5>1
      <4>2. l = <<t2, t1, t4, t3>>
        BY <1>9, <1>10, <2>2, <3>2
      <4>21. InStretch(T, <<t2, t1, t4, t3>>)
        BY <1>10, <2>2, <4>1 DEF InStretch
      <4>22. <<t2, t1, t4, t3>> \in Turnings(t1, t2, t3, t4)
        BY DEF Turnings
      <4> QED
        BY <1>10, <4>2, <4>21, <4>22 DEF LocalRight
    <3> QED
      BY <3>1, <3>2
  <2>3. CASE ~(T.rank[t1] < T.rank[t3])
    <3>0. T.rank[t3] < T.rank[t1]
      BY <1>1, <1>2, <1>3, <1>10, <2>3
    <3>1. CASE one /\ T.rank[t2] < T.rank[t1]
      <4>0. P2 = P1 /\ P4 = P1 /\ T.rank[t2] < T.rank[t1]
        BY <3>1
      <4>01. T.suc[t1] # t2
        <5>1. T.suc[t1] = t2 => T.rank[t2] = T.rank[t1] + 1
          BY <1>4, <4>0
        <5> QED
          BY <1>2, <4>0, <5>1
      <4>1. T.prd[t1] = t2 /\ T.suc[t3] = t4
        BY <2>1, <4>01
      <4>11. T.rank[t2] = T.rank[t1] - 1 /\ T.rank[t4] = T.rank[t3] + 1
        BY <1>4, <1>5, <1>10, <4>0, <4>1
      <4>2. T.suc[t2] = t1 /\ T.prd[t4] = t3 /\ T.rank[t2] # T.rank[t4] /\ T.rank[t2] # T.rank[t3]
        BY <1>1, <1>3, <1>4, <1>5, <1>10, <3>1, <4>1
      <4>3. T.rank[t4] < T.rank[t2]
        BY <1>2, <3>0, <4>11, <4>2
      <4>4. l = <<t3, t4, t1, t2>>
        BY <1>9, <1>10, <2>3, <3>1
      <4>21. InStretch(T, <<t3, t4, t1, t2>>)
        BY <4>0, <4>2, <4>3 DEF InStretch
      <4>22. <<t3, t4, t1, t2>> \in Turnings(t1, t2, t3, t4)
        BY DEF Turnings
      <4> QED
        BY <1>10, <4>4, <4>21, <4>22 DEF LocalRight
    <3>2. CASE ~(one /\ T.rank[t2] < T.rank[t1])
      <4>1. T.suc[t1] = t2 /\ T.prd[t3] = t4
        <5> SUFFICES ASSUME T.prd[t1] = t2 /\ T.suc[t3] = t4 PROVE FALSE
          BY <2>1
        <5>1. P2 = P1 /\ P4 = P1
          BY <1>2, <1>6, <1>7, <1>10, <3>0
        <5> QED
          BY <1>2, <1>5, <1>10, <3>2, <5>1
      <4>2. l = <<t4, t3, t2, t1>>
        BY <1>9, <1>10, <2>3, <3>2
      <4>21. InStretch(T, <<t4, t3, t2, t1>>)
        BY <1>10, <3>0, <4>1 DEF InStretch
      <4>22. <<t4, t3, t2, t1>> \in Turnings(t1, t2, t3, t4)
        BY DEF Turnings
      <4> QED
        BY <1>10, <4>2, <4>21, <4>22 DEF LocalRight
    <3> QED
      BY <3>1, <3>2
  <2> QED
    BY <2>2, <2>3
<1>11. CASE P1 # P3 /\ P2 = P4
  <2>1. (T.suc[t2] = t1 /\ T.prd[t4] = t3) \/ (T.prd[t2] = t1 /\ T.suc[t4] = t3)
    <3>1. Proper(T, B, I, t2, t1, t4, t3)
      BY ProperTurned
    <3> QED
      BY <1>11, <3>1, ProperInStretch
  <2>2. CASE T.rank[t4] < T.rank[t2]
    <3>1. T.suc[t2] = t1 /\ T.prd[t4] = t3
      <4> SUFFICES ASSUME T.prd[t2] = t1 /\ T.suc[t4] = t3 PROVE FALSE
        BY <2>1
      <4>1. P1 = P2 /\ P3 = P2
        BY <1>2, <1>6, <1>7, <1>11, <2>2
      <4> QED
        BY <1>11, <4>1
    <3>2. l = <<t3, t4, t1, t2>>
      BY <1>9, <1>11, <2>2
    <3>21. InStretch(T, <<t3, t4, t1, t2>>)
      BY <1>11, <2>2, <3>1 DEF InStretch
    <3>22. <<t3, t4, t1, t2>> \in Turnings(t1, t2, t3, t4)
      BY DEF Turnings
    <3> QED
      BY <1>11, <3>2, <3>21, <3>22 DEF LocalRight
  <2>3. CASE ~(T.rank[t4] < T.rank[t2])
    <3>0. T.rank[t2] < T.rank[t4]
      BY <1>1, <1>2, <1>3, <1>11, <2>3
    <3>1. T.prd[t2] = t1 /\ T.suc[t4] = t3
      <4> SUFFICES ASSUME T.suc[t2] = t1 /\ T.prd[t4] = t3 PROVE FALSE
        BY <2>1
      <4>1. P1 = P2 /\ P3 = P2
        BY <1>2, <1>6, <1>7, <1>11, <3>0
      <4> QED
        BY <1>11, <4>1
    <3>2. l = r
      BY <1>9, <1>11, <2>3
    <3>21. InStretch(T, <<t1, t2, t3, t4>>)
      BY <1>11, <3>0, <3>1 DEF InStretch
    <3>22. <<t1, t2, t3, t4>> \in Turnings(t1, t2, t3, t4)
      BY DEF Turnings
    <3> QED
      BY <1>11, <3>2, <3>21, <3>22 DEF LocalRight
  <2> QED
    BY <2>2, <2>3
<1>12. CASE P1 # P3 /\ P2 # P4
  BY <1>9, <1>12 DEF LocalRight
<1> QED
  BY <1>10, <1>11, <1>12

-----------------------------------------------------------------------------
(* Segments are split if needed. *)

\* Doing nothing keeps everything.
LEMMA LevelsKeptSelf ==
    ASSUME NEW X, NEW W, NEW I, NEW O, NEW T, TwoLevels(T, X, W, I, O)
    PROVE  LevelsKept(T, T, X, W, I, O)
BY DEF LevelsKept, SameReading, OutsideKept, ItemsElseKept

\* So do two steps that keep it.
LEMMA LevelsKeptTwice ==
    ASSUME NEW X, NEW W, NEW I, NEW O, NEW T, NEW U, NEW V,
           LevelsKept(T, U, X, W, I, O), LevelsKept(U, V, X, W, I, O)
    PROVE  LevelsKept(T, V, X, W, I, O)
<1>1. SameReading(T, Bits(T, O), V, Bits(V, O), I)
  <2>1. SameReading(T, Bits(T, O), U, Bits(U, O), I) /\ SameReading(U, Bits(U, O), V, Bits(V, O), I)
    BY DEF LevelsKept
  <2> HIDE DEF LevelsKept
  <2> QED
    BY <2>1 DEF SameReading
<1>2. OutsideKept(T, V, X, W, I, O)
  BY DEF LevelsKept, OutsideKept, ItemsElseKept
<1> QED
  BY <1>1, <1>2 DEF LevelsKept

\* The move reads the same whatever is written of it.
LEMMA ProperKept ==
    ASSUME NEW X, NEW W, NEW I, NEW O, NEW T, NEW U, LevelsKept(T, U, X, W, I, O),
           NEW t1, NEW t2, NEW t3, NEW t4, Proper(T, Bits(T, O), I, t1, t2, t3, t4)
    PROVE  Proper(U, Bits(U, O), I, t1, t2, t3, t4)
<1>1. SameReading(T, Bits(T, O), U, Bits(U, O), I)
  BY DEF LevelsKept
<1>2. t1 \in I /\ t2 \in I /\ t3 \in I /\ t4 \in I
  BY DEF Proper
<1>3. \A x \in {t1, t4} : /\ Forth(U, Bits(U, O), x) = Forth(T, Bits(T, O), x)
                          /\ Back(U, Bits(U, O), x) = Back(T, Bits(T, O), x)
  BY <1>1, <1>2 DEF SameReading
<1> QED
  BY <1>3 DEF Proper

\* A split between two neighbours parts them.
LEMMA SplitBetweenKeeps ==
    ASSUME NEW X, NEW W, NEW I, NEW O, Universe(X, W, I, O), NEW T, TwoLevels(T, X, W, I, O),
           NEW u \in I, NEW v \in I, Forth(T, Bits(T, O), u) = v \/ Back(T, Bits(T, O), u) = v
    PROVE  LET U == SplitBetween(T, u, v) IN
           /\ LevelsKept(T, U, X, W, I, O) /\ U.parent[u] # U.parent[v]
           /\ U = T \/ Parted(T, U, I, O, T.parent[u], u, v)
<1> DEFINE U == SplitBetween(T, u, v)
<1>1. CASE T.parent[u] = T.parent[v]
  <2>1. Level(T, I, O, Bits(T, O), T.suc, T.prd)
    BY DEF TwoLevels
  <2>2. T.suc[u] = v \/ T.prd[u] = v
    BY DEF Forth, Back
  <2>3. T.rank[u] \in Int /\ T.rank[v] \in Int
    BY <2>1 DEF Level, Stretches, Typed
  <2>4. T.suc[u] = v => T.rank[v] = T.rank[u] + 1
    BY <1>1, <2>1, NextInStretch
  <2>5. T.prd[u] = v => T.rank[v] = T.rank[u] - 1
    BY <1>1, <2>1, NextInStretch
  <2>6. T.rank[v] = T.rank[u] + 1 \/ T.rank[u] = T.rank[v] + 1
    BY <2>2, <2>3, <2>4, <2>5
  <2>7. U = SplitSegment(T, u, v)
    BY <1>1 DEF SplitBetween
  <2>8. LevelsKept(T, SplitSegment(T, u, v), X, W, I, O) /\ Parted(T, SplitSegment(T, u, v), I, O, T.parent[u], u, v)
    BY <1>1, <2>6, SplitSegmentKeeps
  <2> HIDE DEF U
  <2>9. Parted(T, U, I, O, T.parent[u], u, v)
    BY <2>7, <2>8
  <2>10. U.parent[u] # U.parent[v]
    <3>1. PICK stop \in {u, v}, Q \in O \ {T.parent[u]} :
              U.parent[stop] = Q /\ \A w \in {u, v} : w # stop => U.parent[w] = T.parent[u]
      BY <2>9 DEF Parted
    <3>2. u # v
      BY <2>3, <2>6
    <3> QED
      BY <3>1, <3>2
  <2> QED
    BY <2>7, <2>8, <2>9, <2>10 DEF U
<1>2. CASE T.parent[u] # T.parent[v]
  BY <1>2, LevelsKeptSelf DEF SplitBetween
<1> QED
  BY <1>1, <1>2

\* After Prepared, a move that is not within one stretch leads between four
\* different ones in turn.
LEMMA PreparedKeeps ==
    ASSUME NEW X, NEW W, NEW I, NEW O, Universe(X, W, I, O), NEW T, TwoLevels(T, X, W, I, O), NEW size,
           NEW t1, NEW t2, NEW t3, NEW t4, Proper(T, Bits(T, O), I, t1, t2, t3, t4)
    PROVE  LET S == Prepared(T, <<t1, t2, t3, t4>>, size) IN
           /\ LevelsKept(T, S, X, W, I, O)
           /\ Apart(S, <<t1, t2, t3, t4>>) => S.parent[t1] # S.parent[t2] /\ S.parent[t3] # S.parent[t4]
<1> DEFINE r == <<t1, t2, t3, t4>>
           S1 == SplitBetween(T, t1, t2)
           S2 == SplitBetween(S1, t3, t4)
           S == Prepared(T, r, size)
<1>1. t1 \in I /\ t2 \in I /\ t3 \in I /\ t4 \in I
  BY DEF Proper
<1>2. S \in {T, S1, S2}
  BY DEF Prepared, SplitAgain
<1>3. (S = T /\ ~Apart(T, r)) \/ (S = S1 /\ ~Apart(S1, r)) \/ S = S2
  BY DEF Prepared, SplitAgain
<1>5. Forth(T, Bits(T, O), t1) = t2 \/ Back(T, Bits(T, O), t1) = t2
  BY DEF Proper
<1>6. /\ LevelsKept(T, S1, X, W, I, O) /\ S1.parent[t1] # S1.parent[t2]
  BY <1>1, <1>5, SplitBetweenKeeps
<1> HIDE DEF S1, S, r
<1>7. TwoLevels(S1, X, W, I, O)
  BY <1>6 DEF LevelsKept
<1>8. Forth(S1, Bits(S1, O), t3) = t4 \/ Back(S1, Bits(S1, O), t3) = t4
  <2>1. Proper(S1, Bits(S1, O), I, t1, t2, t3, t4) /\ Level(S1, I, O, Bits(S1, O), S1.suc, S1.prd)
    BY <1>6, <1>7, ProperKept DEF TwoLevels
  <2>2. Proper(S1, Bits(S1, O), I, t3, t4, t1, t2)
    BY <2>1, ProperTurned
  <2> QED
    BY <2>2 DEF Proper
<1>9. /\ LevelsKept(S1, S2, X, W, I, O) /\ S2.parent[t3] # S2.parent[t4]
      /\ S2 = S1 \/ Parted(S1, S2, I, O, S1.parent[t3], t3, t4)
  BY <1>1, <1>7, <1>8, SplitBetweenKeeps
<1> HIDE DEF S2
<1>10. LevelsKept(T, S2, X, W, I, O)
  BY <1>6, <1>9, LevelsKeptTwice
<1>11. LevelsKept(T, T, X, W, I, O)
  BY LevelsKeptSelf
<1>12. ASSUME Apart(S2, r), S2 # S1 PROVE S2.parent[t1] # S2.parent[t2]
  <2> SUFFICES ASSUME S2.parent[t1] = S2.parent[t2] PROVE FALSE
    OBVIOUS
  <2>1. PICK stop \in {t3, t4}, Q \in O \ {S1.parent[t3]} :
            /\ S2.parent[stop] = Q
            /\ \A x \in I : S2.parent[x] = S1.parent[x] \/ (S1.parent[x] = S1.parent[t3] /\ S2.parent[x] = Q)
    BY <1>9, <1>12 DEF Parted
  <2>2. S2.parent[t1] = Q
    BY <1>1, <1>6, <2>1
  <2>3. S2.parent[t1] # S2.parent[t3] /\ S2.parent[t2] # S2.parent[t4]
    BY <1>12 DEF Apart, r
  <2> QED
    BY <2>1, <2>2, <2>3
<1>13. Apart(S2, r) => S2.parent[t1] # S2.parent[t2] /\ S2.parent[t3] # S2.parent[t4]
  BY <1>6, <1>9, <1>12
<1>14. CASE S = S2
  BY <1>10, <1>13, <1>14 DEF S, r
<1>15. CASE S # S2
  <2>1. LevelsKept(T, S, X, W, I, O)
    BY <1>2, <1>6, <1>11, <1>15
  <2>2. ~Apart(S, r)
    BY <1>3, <1>15
  <2> QED
    BY <2>1, <2>2 DEF S, r
<1> QED
  BY <1>14, <1>15

-----------------------------------------------------------------------------
(* A move between stretches. *)

\* An edge between two stretches leads from the exit of one to the entry of the next.
LEMMA Crossing ==
    ASSUME NEW T, NEW I, NEW O, NEW B, NEW nx, NEW pv, Level(T, I, O, B, nx, pv), NEW x \in I, NEW y \in I,
           Forth(T, B, x) = y, T.parent[x] # T.parent[y]
    PROVE  LET P == T.parent[x] IN
           P \in O /\ nx[P] = T.parent[y] /\ x = Exit(T, B, P) /\ y = Entry(T, B, nx[P])
<1> DEFINE P == T.parent[x]
<1>1. Stretches(T, I, O) /\ Linked(O, nx, pv) /\ Joined(T, O, B, nx, pv)
  BY DEF Level
<1>2. /\ P \in O
      /\ x # T.last[P] => T.parent[T.suc[x]] = P
      /\ x # T.first[P] => T.parent[T.prd[x]] = P
  BY <1>1, Within
<1>3. x = Exit(T, B, P)
  BY <1>2 DEF Forth, Exit
<1>4. nx[P] \in O
  BY <1>1, <1>2 DEF Linked
<1>5. y = Entry(T, B, nx[P])
  BY <1>1, <1>2, <1>3 DEF Joined
<1>6. T.parent[y] = nx[P]
  BY <1>1, <1>4, <1>5 DEF Entry, Stretches, EndsHeld
<1> QED
  BY <1>2, <1>3, <1>5, <1>6

\* If two steps along the ring lead back, there are two owners.
LEMMA RingOfTwo ==
    ASSUME NEW rank, NEW O, IsFiniteSet(O), NEW nx, NEW pv, NEW b \in Int, RingRanked(rank, O, nx, b),
           Linked(O, nx, pv), NEW P \in O, nx[nx[P]] = P, NEW Q \in O
    PROVE  Q = P \/ Q = nx[P]
<1> DEFINE K == Cardinality(O)  R == nx[P]
<1>1. R \in O /\ R # P /\ nx[R] = P
  BY DEF Linked
<1>2. K \in Nat
  BY FS_CardinalityType
<1> HIDE DEF K, R
<1>3. /\ rank[P] \in b..(b + K - 1) /\ rank[Q] \in b..(b + K - 1) /\ rank[R] \in b..(b + K - 1)
      /\ rank[Q] = rank[P] => Q = P
      /\ rank[Q] = rank[R] => Q = R
      /\ rank[P] = rank[R] => P = R
  BY <1>1 DEF RingRanked, K
<1>4. rank[R] = rank[P] + 1 \/ (rank[P] = b + K - 1 /\ rank[R] = b)
  BY DEF RingRanked, K, R
<1>5. rank[P] = rank[R] + 1 \/ (rank[R] = b + K - 1 /\ rank[P] = b)
  BY <1>1 DEF RingRanked, K, R
<1>6. rank[Q] = rank[P] \/ rank[Q] = rank[R]
  BY <1>1, <1>2, <1>3, <1>4, <1>5
<1> QED
  BY <1>3, <1>6 DEF R

\* l goes forth from the end of the run of stretches from l[3]'s to l[1]'s, and
\* into its beginning.
Ordered(T, O, B, nx, pv, l) ==
    LET E == T.parent[l[1]]
        S == T.parent[l[3]]
    IN  /\ E \in O /\ S \in O /\ S # E /\ nx[E] # S /\ nx[E] # pv[S]
        /\ l[1] = Exit(T, B, E) /\ l[2] = Entry(T, B, nx[E]) /\ T.parent[l[2]] = nx[E]
        /\ l[3] = Entry(T, B, S) /\ l[4] = Exit(T, B, pv[S]) /\ T.parent[l[4]] = pv[S]

\* A move between four segments, read forwards, is ordered along the ring.
LEMMA ForthOrdered ==
    ASSUME NEW T, NEW I, NEW O, NEW B, NEW nx, NEW pv, Level(T, I, O, B, nx, pv),
           NEW f1 \in I, NEW f2 \in I, NEW f3 \in I, NEW f4 \in I, f1 # f4,
           Forth(T, B, f1) = f2, Forth(T, B, f4) = f3,
           T.parent[f1] # T.parent[f2], T.parent[f3] # T.parent[f4],
           T.parent[f1] # T.parent[f3], T.parent[f2] # T.parent[f4]
    PROVE  /\ Ordered(T, O, B, nx, pv, <<f1, f2, f3, f4>>)
           /\ Ordered(T, O, B, nx, pv, <<f4, f3, f2, f1>>)
<1> DEFINE P1 == T.parent[f1]  P2 == T.parent[f2]  P3 == T.parent[f3]  P4 == T.parent[f4]
<1>1. P1 \in O /\ nx[P1] = P2 /\ f1 = Exit(T, B, P1) /\ f2 = Entry(T, B, P2)
  BY Crossing
<1>2. P4 \in O /\ nx[P4] = P3 /\ f4 = Exit(T, B, P4) /\ f3 = Entry(T, B, P3)
  BY Crossing
<1>3. P2 \in O /\ P3 \in O /\ pv[P3] = P4 /\ pv[P2] = P1
  BY <1>1, <1>2 DEF Level, Linked
<1>4. P1 # P4
  BY <1>1, <1>2
<1>5. P2 # P3
  BY <1>3, <1>4
<1> HIDE DEF P1, P2, P3, P4
<1>6. P1 # P3 /\ P2 # P4
  BY DEF P1, P2, P3, P4
<1>7. T.parent[f1] = P1 /\ T.parent[f2] = P2 /\ T.parent[f3] = P3 /\ T.parent[f4] = P4
  BY DEF P1, P2, P3, P4
<1>8. Ordered(T, O, B, nx, pv, <<f1, f2, f3, f4>>)
  BY <1>1, <1>2, <1>3, <1>4, <1>5, <1>6, <1>7 DEF Ordered
<1>9. Ordered(T, O, B, nx, pv, <<f4, f3, f2, f1>>)
  BY <1>1, <1>2, <1>3, <1>4, <1>5, <1>6, <1>7 DEF Ordered
<1> QED
  BY <1>8, <1>9

\* The order that Flip_SL brings the nodes into.
LEMMA InOrderIs ==
    ASSUME NEW T, NEW I, NEW O, IsFiniteSet(O), NEW B, NEW nx, NEW pv, Level(T, I, O, B, nx, pv),
           nx = T.suc, NEW b \in Int, RingRanked(T.rank, O, nx, b),
           NEW t1, NEW t2, NEW t3, NEW t4, Proper(T, B, I, t1, t2, t3, t4),
           T.parent[t1] # T.parent[t2], T.parent[t3] # T.parent[t4],
           Apart(T, <<t1, t2, t3, t4>>), NEW count
    PROVE  LET l == InOrder(T, <<t1, t2, t3, t4>>, count) IN
           l \in Turnings(t1, t2, t3, t4) /\ Ordered(T, O, B, nx, pv, l)
<1> DEFINE l == InOrder(T, <<t1, t2, t3, t4>>, count)
           P1 == T.parent[t1]  P2 == T.parent[t2]  P3 == T.parent[t3]  P4 == T.parent[t4]
           there == Forth(T, B, t1) = t2 /\ Forth(T, B, t4) = t3
<1>1. /\ t1 \in I /\ t2 \in I /\ t3 \in I /\ t4 \in I
      /\ t1 # t2 /\ t1 # t3 /\ t1 # t4 /\ t2 # t3 /\ t2 # t4 /\ t3 # t4
      /\ there \/ (Back(T, B, t1) = t2 /\ Back(T, B, t4) = t3)
  BY DEF Proper
<1>2. P1 # P3 /\ P2 # P4
  BY DEF Apart
<1>3. /\ T.suc[P1] = P2 => l = <<t1, t2, t3, t4>> \/ l = <<t4, t3, t2, t1>>
      /\ T.suc[P1] # P2 => l = <<t2, t1, t4, t3>> \/ l = <<t3, t4, t1, t2>>
  <2> DEFINE f == IF T.suc[P1] # P2 THEN <<t2, t1, t4, t3>> ELSE <<t1, t2, t3, t4>>
  <2>1. l = f \/ l = <<f[4], f[3], f[2], f[1]>>
    BY Zenon DEF InOrder
  <2> HIDE DEF l
  <2>2. CASE T.suc[P1] = P2
    BY <2>1, <2>2
  <2>3. CASE T.suc[P1] # P2
    BY <2>1, <2>3
  <2> QED
    BY <2>2, <2>3
<1> HIDE DEF l
<1>4. CASE there
  <2>1. T.suc[P1] = P2
    BY <1>1, <1>4, Crossing
  <2>2. Ordered(T, O, B, nx, pv, <<t1, t2, t3, t4>>) /\ Ordered(T, O, B, nx, pv, <<t4, t3, t2, t1>>)
    BY <1>1, <1>2, <1>4, ForthOrdered
  <2>3. l = <<t1, t2, t3, t4>> \/ l = <<t4, t3, t2, t1>>
    BY <1>3, <2>1
  <2>4. l \in Turnings(t1, t2, t3, t4)
    BY <2>3 DEF Turnings
  <2> QED
    BY <2>2, <2>3, <2>4 DEF l
<1>5. CASE ~there
  <2>1. Forth(T, B, t2) = t1 /\ Forth(T, B, t3) = t4
    BY <1>1, <1>5, LevelInverse
  <2>2. Ordered(T, O, B, nx, pv, <<t2, t1, t4, t3>>) /\ Ordered(T, O, B, nx, pv, <<t3, t4, t1, t2>>)
    BY <1>1, <1>2, <2>1, ForthOrdered
  <2>3. T.suc[P1] # P2
    <3> SUFFICES ASSUME T.suc[P1] = P2 PROVE FALSE
      OBVIOUS
    <3>1. P2 \in O /\ nx[P2] = P1 /\ t1 = Entry(T, B, nx[P2])
      BY <1>1, <2>1, Crossing
    <3>2. P3 \in O /\ nx[P3] = P4 /\ t4 = Entry(T, B, nx[P3])
      BY <1>1, <2>1, Crossing
    <3>3. Linked(O, nx, pv)
      BY DEF Level
    <3>4. nx[nx[P2]] = P2
      BY <3>1
    <3>41. /\ IsFiniteSet(O) /\ b \in Int /\ RingRanked(T.rank, O, nx, b) /\ Linked(O, nx, pv)
           /\ P2 \in O /\ nx[nx[P2]] = P2 /\ P3 \in O
      BY <3>1, <3>2, <3>3, <3>4
    <3>5. P3 = P2 \/ P3 = nx[P2]
      BY ONLY <3>41, RingOfTwo
    <3> QED
      BY <1>1, <1>2, <3>1, <3>2, <3>5
  <2>4. l = <<t2, t1, t4, t3>> \/ l = <<t3, t4, t1, t2>>
    BY <1>3, <2>3
  <2>5. l \in Turnings(t1, t2, t3, t4)
    BY <2>4 DEF Turnings
  <2> QED
    BY <2>2, <2>4, <2>5 DEF l
<1> QED
  BY <1>4, <1>5

-----------------------------------------------------------------------------
(* The move is made. *)

\* What no step touches: the super segment, and whom the segments belong to.
Frame(T, U, X, W, I, O) ==
    /\ U.type = T.type
    /\ \A x \in X \ (I \cup O) : U.suc[x] = T.suc[x]
    /\ \A x \in X \ I : U.parent[x] = T.parent[x]
    /\ \A P \in W \ O : U.rev[P] = T.rev[P]

\* Two levels, the segments in a ring with consecutive ranks.
TreeOfTwo(T, X, W, I, O) ==
    TwoLevels(T, X, W, I, O) /\ \E b \in Int : OwnerRing(T, O, b)

\* The path from q[3] to q[1], as T is read, is turned around.
PathFlipped(T, U, I, O, q) ==
    \E D : /\ Arc(T, Bits(T, O), I, D, q[3], q[1])
           /\ Flipped(T, Bits(T, O), U, Bits(U, O), I, D, q[3], q[1])
           /\ q[2] = Forth(T, Bits(T, O), q[1]) /\ q[4] = Back(T, Bits(T, O), q[3])

\* FlipSegments turns the path between ordered segments around, and the tree stays
\* well formed.
LEMMA FlipSegmentsKeeps ==
    ASSUME NEW X, NEW W, NEW I, NEW O, Universe(X, W, I, O), NEW T, TreeOfTwo(T, X, W, I, O),
           NEW t1, NEW t2, NEW t3, NEW t4,
           Ordered(T, O, Bits(T, O), T.suc, T.prd, <<t1, t2, t3, t4>>)
    PROVE  LET U == FlipSegments(T, <<t1, t2, t3, t4>>) IN
           /\ TreeOfTwo(U, X, W, I, O) /\ Frame(T, U, X, W, I, O)
           /\ PathFlipped(T, U, I, O, <<t1, t2, t3, t4>>)
<1> DEFINE U == FlipSegments(T, <<t1, t2, t3, t4>>)
           B == Bits(T, O)
           nx == T.suc
           pv == T.prd
           E == T.parent[t1]
           S == T.parent[t3]
           D == RunFrom(T.rank, O, S, E)
<1>1. PICK b \in Int : OwnerRing(T, O, b)
  BY DEF TreeOfTwo
<1>2. /\ Shape(T, X, W) /\ Level(T, I, O, B, nx, pv)
      /\ RingRanked(T.rank, O, nx, b) /\ Linked(O, nx, pv)
  BY <1>1 DEF TreeOfTwo, TwoLevels, OwnerRing
<1>3. /\ E \in O /\ S \in O /\ S # E /\ nx[E] # S /\ nx[E] # pv[S]
      /\ t1 = Exit(T, B, E) /\ t2 = Entry(T, B, nx[E]) /\ T.parent[t2] = nx[E]
      /\ t3 = Entry(T, B, S) /\ t4 = Exit(T, B, pv[S]) /\ T.parent[t4] = pv[S]
  BY DEF Ordered
<1>4. /\ N \in Nat /\ I \in SUBSET X /\ O \in SUBSET X /\ O \subseteq W /\ I \cap O = {}
      /\ IsFiniteSet(O) /\ Cardinality(O) <= N
  BY DEF Universe
<1> HIDE DEF U, E, S, D, B, nx, pv
<1>5. OwnersArc(O, nx, pv, D, S, E)
  <2>1. /\ IsFiniteSet(O) /\ RingRanked(T.rank, O, nx, b) /\ Linked(O, nx, pv) /\ S \in O /\ E \in O
        /\ S # E /\ nx[E] # S /\ nx[E] # pv[S] /\ b \in Int
    BY <1>2, <1>3, <1>4
  <2>2. OwnersArc(O, nx, pv, RunFrom(T.rank, O, S, E), S, E)
    BY ONLY <2>1, RunIsArc
  <2> QED
    BY <2>2 DEF D
<1>6. /\ t1 \in I /\ t2 \in I /\ t3 \in I /\ t4 \in I
      /\ t1 # t2 /\ t1 # t3 /\ t1 # t4 /\ t2 # t3 /\ t2 # t4 /\ t3 # t4
      /\ Forth(T, B, t1) = t2 /\ Back(T, B, t3) = t4
  <2>1. /\ Level(T, I, O, B, nx, pv) /\ OwnersArc(O, nx, pv, D, S, E)
        /\ t1 = Exit(T, B, E) /\ t2 = Entry(T, B, nx[E]) /\ t3 = Entry(T, B, S) /\ t4 = Exit(T, B, pv[S])
    BY <1>2, <1>3, <1>5
  <2> QED
    BY ONLY <2>1, EndFacts
<1>7. /\ Shape(U, X, W) /\ U.type = T.type /\ U.parent = T.parent
      /\ U.rev = [x \in W |-> IF x \in D THEN ~T.rev[x] ELSE T.rev[x]]
      /\ Relinked(T, U, I, O, t1, t2, t3, t4)
      /\ OwnersFlipped(O, nx, pv, U.suc, U.prd, D, S, E)
      /\ \A P \in O : U.rank[P] = IF P \in D THEN T.rank[E] + 1 - PlaceFrom(T.rank, Cardinality(O), S, P)
                                  ELSE T.rank[P]
      /\ \A x \in X \ (I \cup O) : U.suc[x] = T.suc[x] /\ U.prd[x] = T.prd[x] /\ U.rank[x] = T.rank[x]
  <2>1. /\ N \in Nat /\ Shape(T, X, W) /\ I \in SUBSET X /\ O \in SUBSET X /\ O \subseteq W
        /\ I \cap O = {} /\ IsFiniteSet(O) /\ Cardinality(O) <= N /\ b \in Int /\ OwnerRing(T, O, b)
        /\ t1 \in I /\ t2 \in I /\ t3 \in I /\ t4 \in I
        /\ t1 # t2 /\ t1 # t3 /\ t1 # t4 /\ t2 # t3 /\ t2 # t4 /\ t3 # t4
        /\ S \in O /\ S = T.parent[t3] /\ E \in O /\ E = T.parent[t1]
        /\ T.parent[t2] = T.suc[E] /\ T.parent[t4] = T.prd[S]
        /\ D = RunFrom(T.rank, O, S, E) /\ OwnersArc(O, T.suc, T.prd, D, S, E)
    BY <1>1, <1>2, <1>3, <1>4, <1>5, <1>6 DEF S, E, D, nx, pv
  <2>2. SegmentsFlipped(T, U, X, W, I, O, t1, t2, t3, t4, S, E, D)
    BY ONLY <2>1, FlipSegmentsIs DEF U
  <2> QED
    BY ONLY <2>2 DEF SegmentsFlipped, nx, pv
<1>8. Bits(U, O) = Toggled(B, D)
  <2>1. D \subseteq O
    BY <1>5 DEF OwnersArc
  <2>2. \A P \in O : U.rev[P] <=> (P \in D <=> ~T.rev[P])
    BY <1>4, <1>7
  <2> QED
    BY <2>1, <2>2 DEF Bits, Toggled, B
<1>9. /\ Level(U, I, O, Toggled(B, D), U.suc, U.prd)
      /\ Arc(T, B, I, HeldBy(T, I, D), t3, t1)
      /\ Flipped(T, B, U, Toggled(B, D), I, HeldBy(T, I, D), t3, t1)
  <2>1. /\ Level(T, I, O, B, nx, pv) /\ OwnersArc(O, nx, pv, D, S, E)
        /\ OwnersFlipped(O, nx, pv, U.suc, U.prd, D, S, E)
        /\ t1 = Exit(T, B, E) /\ t2 = Entry(T, B, nx[E]) /\ t3 = Entry(T, B, S) /\ t4 = Exit(T, B, pv[S])
        /\ Relinked(T, U, I, O, t1, t2, t3, t4)
    BY <1>2, <1>3, <1>5, <1>7
  <2>2. Level(U, I, O, Toggled(B, D), U.suc, U.prd)
    BY ONLY <2>1, RelinkedLevel
  <2>3. /\ Arc(T, B, I, HeldBy(T, I, D), t3, t1)
        /\ Flipped(T, B, U, Toggled(B, D), I, HeldBy(T, I, D), t3, t1)
    BY ONLY <2>1, RelinkedFlipped
  <2> QED
    BY <2>2, <2>3
<1>10. \E c \in Int : OwnerRing(U, O, c)
  <2>1. /\ IsFiniteSet(O) /\ b \in Int /\ RingRanked(T.rank, O, nx, b) /\ Linked(O, nx, pv)
        /\ S \in O /\ E \in O /\ D = RunFrom(T.rank, O, S, E) /\ OwnersArc(O, nx, pv, D, S, E)
        /\ OwnersFlipped(O, nx, pv, U.suc, U.prd, D, S, E)
        /\ \A P \in O : U.rank[P] = IF P \in D THEN T.rank[E] + 1 - PlaceFrom(T.rank, Cardinality(O), S, P)
                                    ELSE T.rank[P]
    BY <1>2, <1>3, <1>4, <1>5, <1>7 DEF D
  <2>2. \E c \in Int : RingRanked(U.rank, O, U.suc, c)
    BY ONLY <2>1, RunTurnedRanked
  <2>3. Linked(O, U.suc, U.prd)
    BY ONLY <2>1, OwnersFlippedLinked
  <2> QED
    BY <2>2, <2>3 DEF OwnerRing
<1>11. TreeOfTwo(U, X, W, I, O)
  BY <1>7, <1>8, <1>9, <1>10 DEF TreeOfTwo, TwoLevels
<1>12. Frame(T, U, X, W, I, O)
  <2>1. \A P \in W \ O : U.rev[P] = T.rev[P]
    BY <1>5, <1>7 DEF OwnersArc
  <2> QED
    BY <1>7, <2>1 DEF Frame
<1>13. PathFlipped(T, U, I, O, <<t1, t2, t3, t4>>)
  BY <1>6, <1>8, <1>9 DEF PathFlipped, B
<1> QED
  BY <1>11, <1>12, <1>13 DEF U

\* A change of the items alone leaves the ring of owners as it was.
LEMMA RingKept ==
    ASSUME NEW X, NEW W, NEW I, NEW O, Universe(X, W, I, O), NEW T, NEW U, NEW b, OwnerRing(T, O, b),
           ItemsElseKept(T, U, X, I)
    PROVE  OwnerRing(U, O, b)
<1>1. \A P \in O : P \in X \ I
  BY DEF Universe
<1>2. \A P \in O : U.suc[P] = T.suc[P] /\ U.prd[P] = T.prd[P] /\ U.rank[P] = T.rank[P]
  BY <1>1 DEF ItemsElseKept
<1>3. Linked(O, T.suc, T.prd) /\ RingRanked(T.rank, O, T.suc, b)
  BY DEF OwnerRing
<1>4. Linked(O, U.suc, U.prd)
  BY <1>2, <1>3 DEF Linked
<1>5. RingRanked(U.rank, O, U.suc, b)
  <2>1. \A P \in O : T.suc[P] \in O
    BY <1>3 DEF Linked
  <2> QED
    BY <1>2, <1>3, <2>1 DEF RingRanked
<1> QED
  BY <1>4, <1>5 DEF OwnerRing

\* Splits keep the ring.
LEMMA LevelsKeptTree ==
    ASSUME NEW X, NEW W, NEW I, NEW O, Universe(X, W, I, O), NEW T, TreeOfTwo(T, X, W, I, O), NEW U,
           LevelsKept(T, U, X, W, I, O)
    PROVE  TreeOfTwo(U, X, W, I, O) /\ Frame(T, U, X, W, I, O)
<1>1. TwoLevels(U, X, W, I, O) /\ OutsideKept(T, U, X, W, I, O)
  BY DEF LevelsKept
<1>2. ItemsElseKept(T, U, X, I)
  BY <1>1 DEF OutsideKept
<1>3. PICK b \in Int : OwnerRing(T, O, b)
  BY DEF TreeOfTwo
<1>4. OwnerRing(U, O, b)
  BY <1>2, <1>3, RingKept
<1>5. Frame(T, U, X, W, I, O)
  BY <1>1 DEF OutsideKept, ItemsElseKept, Frame
<1> QED
  BY <1>1, <1>4, <1>5 DEF TreeOfTwo

\* A path within a stretch is turned around.
LEMMA FlipListKeeps ==
    ASSUME NEW X, NEW W, NEW I, NEW O, Universe(X, W, I, O), NEW T, TreeOfTwo(T, X, W, I, O),
           NEW t1 \in I, NEW t2 \in I, NEW t3 \in I, NEW t4 \in I, t1 # t3,
           InStretch(T, <<t1, t2, t3, t4>>)
    PROVE  LET U == FlipList(T, <<t1, t2, t3, t4>>) IN
           /\ TreeOfTwo(U, X, W, I, O) /\ Frame(T, U, X, W, I, O)
           /\ PathFlipped(T, U, I, O, <<t2, t1, t4, t3>>) \/ PathFlipped(T, U, I, O, <<t4, t3, t2, t1>>)
<1> DEFINE U == FlipNodes(T, t1, t2, t3, t4)
           B == Bits(T, O)
           D == Inner(T, I, t2, t4)
<1>1. U = FlipList(T, <<t1, t2, t3, t4>>)
  BY DEF FlipList
<1>2. PICK b \in Int : OwnerRing(T, O, b)
  BY DEF TreeOfTwo
<1>3. /\ Shape(T, X, W) /\ Level(T, I, O, B, T.suc, T.prd)
  BY DEF TreeOfTwo, TwoLevels
<1>4. T.parent[t4] = T.parent[t2] /\ T.rank[t2] < T.rank[t4] /\ t1 = T.prd[t2] /\ t3 = T.suc[t4]
  BY DEF InStretch
<1>5. /\ N \in Nat /\ I \in SUBSET X /\ O \in SUBSET W /\ Null \notin O /\ O \subseteq X
      /\ IsFiniteSet(I) /\ Cardinality(I) <= N /\ I \cap W = {}
  BY DEF Universe
<1> HIDE DEF U, B, D
<1>6. /\ Shape(U, X, W) /\ U.type = T.type /\ U.parent = T.parent
      /\ U.rev = [x \in W |-> IF x \in D THEN ~T.rev[x] ELSE T.rev[x]]
      /\ FlippedInside(T, U, I, O, t1, t2, t3, t4) /\ ItemsElseKept(T, U, X, I)
  <2>1. /\ N \in Nat /\ Shape(T, X, W) /\ I \in SUBSET X /\ O \in SUBSET W /\ Null \notin O
        /\ IsFiniteSet(I) /\ Cardinality(I) <= N /\ Level(T, I, O, B, T.suc, T.prd)
        /\ t2 \in I /\ t4 \in I /\ T.parent[t4] = T.parent[t2] /\ T.rank[t2] < T.rank[t4]
        /\ t1 = T.prd[t2] /\ t3 = T.suc[t4] /\ t1 # t3
    BY <1>3, <1>4, <1>5
  <2> QED
    BY ONLY <2>1, FlipNodesIs DEF U, D
<1>7. D \subseteq I
  BY DEF D, Inner
<1>8. \A P \in W : U.rev[P] = T.rev[P]
  BY <1>5, <1>6, <1>7
<1>9. Bits(U, O) = B
  BY <1>5, <1>8 DEF Bits, B
<1> DEFINE s == IF T.parent[t2] \in B THEN t4 ELSE t2
           e == IF T.parent[t2] \in B THEN t2 ELSE t4
<1>10. /\ Level(U, I, O, B, T.suc, T.prd)
       /\ Arc(T, B, I, D, s, e) /\ Flipped(T, B, U, B, I, D, s, e)
  <2> HIDE DEF s, e
  <2>1. /\ Level(T, I, O, B, T.suc, T.prd) /\ t2 \in I /\ t4 \in I
        /\ T.parent[t4] = T.parent[t2] /\ T.rank[t2] < T.rank[t4]
        /\ t1 = T.prd[t2] /\ t3 = T.suc[t4] /\ t1 # t3
        /\ FlippedInside(T, U, I, O, t1, t2, t3, t4)
    BY <1>3, <1>4, <1>6
  <2>2. Level(U, I, O, B, T.suc, T.prd)
    BY ONLY <2>1, InsideLevel
  <2>3. s = (IF T.parent[t2] \in B THEN t4 ELSE t2) /\ e = (IF T.parent[t2] \in B THEN t2 ELSE t4)
    BY DEF s, e
  <2>4. Arc(T, B, I, D, s, e) /\ Flipped(T, B, U, B, I, D, s, e)
    BY ONLY <2>1, <2>3, InsideFlipped DEF D
  <2> QED
    BY <2>2, <2>4
<1>11. TreeOfTwo(U, X, W, I, O)
  <2>1. OwnerRing(U, O, b)
    BY <1>2, <1>6, RingKept
  <2>2. \A P \in O : U.suc[P] = T.suc[P] /\ U.prd[P] = T.prd[P]
    BY <1>5, <1>6 DEF ItemsElseKept
  <2>3. Level(U, I, O, B, U.suc, U.prd)
    BY <1>10, <2>2, LevelOfRing
  <2> QED
    BY <1>6, <1>9, <2>1, <2>3 DEF TreeOfTwo, TwoLevels
<1>12. Frame(T, U, X, W, I, O)
  BY <1>6, <1>8 DEF Frame, ItemsElseKept
<1>13. CASE T.parent[t2] \in B
  <2>1. t1 = Forth(T, B, t2) /\ t3 = Back(T, B, t4)
    BY <1>4, <1>13 DEF Forth, Back
  <2>2. Arc(T, B, I, D, t4, t2) /\ Flipped(T, B, U, Bits(U, O), I, D, t4, t2)
    BY <1>9, <1>10, <1>13
  <2>3. PathFlipped(T, U, I, O, <<t2, t1, t4, t3>>)
    BY <2>1, <2>2 DEF PathFlipped, B
  <2> QED
    BY <1>1, <1>11, <1>12, <2>3
<1>14. CASE T.parent[t2] \notin B
  <2>1. t3 = Forth(T, B, t4) /\ t1 = Back(T, B, t2)
    BY <1>4, <1>14 DEF Forth, Back
  <2>2. Arc(T, B, I, D, t2, t4) /\ Flipped(T, B, U, Bits(U, O), I, D, t2, t4)
    BY <1>9, <1>10, <1>14
  <2>3. PathFlipped(T, U, I, O, <<t4, t3, t2, t1>>)
    BY <2>1, <2>2 DEF PathFlipped, B
  <2> QED
    BY <1>1, <1>11, <1>12, <2>3
<1> QED
  BY <1>13, <1>14

\* l is a proper name of the move t1..t4.
Renamed(T, B, I, t1, t2, t3, t4, l) ==
    \E u1, u2, u3, u4 : /\ l = <<u1, u2, u3, u4>> /\ Proper(T, B, I, u1, u2, u3, u4)
                        /\ <<u2, u1, u4, u3>> \in Turnings(t1, t2, t3, t4)
                        /\ <<u4, u3, u2, u1>> \in Turnings(t1, t2, t3, t4)

\* Other names of the same move are proper too, and lead to the same four.
LEMMA TurningsIs ==
    ASSUME NEW T, NEW I, NEW O, NEW B, NEW nx, NEW pv, Level(T, I, O, B, nx, pv),
           NEW t1, NEW t2, NEW t3, NEW t4, Proper(T, B, I, t1, t2, t3, t4),
           NEW l \in Turnings(t1, t2, t3, t4)
    PROVE  Renamed(T, B, I, t1, t2, t3, t4, l)
<1>1. /\ Proper(T, B, I, t2, t1, t4, t3) /\ Proper(T, B, I, t3, t4, t1, t2)
      /\ Proper(T, B, I, t4, t3, t2, t1)
  BY ProperTurned
<1>2. CASE l = <<t1, t2, t3, t4>>
  <2>1. /\ Proper(T, B, I, t1, t2, t3, t4)
        /\ <<t2, t1, t4, t3>> \in Turnings(t1, t2, t3, t4)
        /\ <<t4, t3, t2, t1>> \in Turnings(t1, t2, t3, t4)
    BY <1>1 DEF Turnings
  <2> QED
    BY <1>2, <2>1 DEF Renamed
<1>3. CASE l = <<t2, t1, t4, t3>>
  <2>1. /\ Proper(T, B, I, t2, t1, t4, t3)
        /\ <<t1, t2, t3, t4>> \in Turnings(t1, t2, t3, t4)
        /\ <<t3, t4, t1, t2>> \in Turnings(t1, t2, t3, t4)
    BY <1>1 DEF Turnings
  <2> QED
    BY <1>3, <2>1 DEF Renamed
<1>4. CASE l = <<t3, t4, t1, t2>>
  <2>1. /\ Proper(T, B, I, t3, t4, t1, t2)
        /\ <<t4, t3, t2, t1>> \in Turnings(t1, t2, t3, t4)
        /\ <<t2, t1, t4, t3>> \in Turnings(t1, t2, t3, t4)
    BY <1>1 DEF Turnings
  <2> QED
    BY <1>4, <2>1 DEF Renamed
<1>5. CASE l = <<t4, t3, t2, t1>>
  <2>1. /\ Proper(T, B, I, t4, t3, t2, t1)
        /\ <<t3, t4, t1, t2>> \in Turnings(t1, t2, t3, t4)
        /\ <<t1, t2, t3, t4>> \in Turnings(t1, t2, t3, t4)
    BY <1>1 DEF Turnings
  <2> QED
    BY <1>5, <2>1 DEF Renamed
<1> QED
  BY <1>2, <1>3, <1>4, <1>5 DEF Turnings

\* A path turned around after a step that is not noticed is one turned around before.
LEMMA PathFlippedSame ==
    ASSUME NEW T, NEW S, NEW U, NEW I, NEW O, SameReading(T, Bits(T, O), S, Bits(S, O), I),
           NEW q, PathFlipped(S, U, I, O, q)
    PROVE  PathFlipped(T, U, I, O, q)
<1> DEFINE B == Bits(T, O)  C == Bits(S, O)  A == Bits(U, O)  s == q[3]  e == q[1]
<1> HIDE DEF B, C, A, s, e
<1>1. \A x \in I : Forth(S, C, x) = Forth(T, B, x) /\ Back(S, C, x) = Back(T, B, x)
  BY DEF SameReading, B, C
<1>2. PICK D : /\ Arc(S, C, I, D, s, e) /\ Flipped(S, C, U, A, I, D, s, e)
               /\ q[2] = Forth(S, C, e) /\ q[4] = Back(S, C, s)
  BY DEF PathFlipped, C, A, s, e
<1>3. D \subseteq I /\ s \in I /\ e \in I
  BY <1>2 DEF Arc
<1>4. Arc(T, B, I, D, s, e)
  BY <1>1, <1>2, <1>3 DEF Arc
<1>5. Flipped(T, B, U, A, I, D, s, e)
  <2>1. Back(S, C, s) = Back(T, B, s) /\ Forth(S, C, e) = Forth(T, B, e)
    BY <1>1, <1>3
  <2> HIDE DEF Arc
  <2>2. \A x \in I :
          /\ Forth(U, A, x) = IF x = s THEN Forth(S, C, e) ELSE IF x = Back(S, C, s) THEN e
                              ELSE IF x \in D THEN Back(S, C, x) ELSE Forth(S, C, x)
          /\ Back(U, A, x) = IF x = Forth(S, C, e) THEN s ELSE IF x = e THEN Back(S, C, s)
                             ELSE IF x \in D THEN Forth(S, C, x) ELSE Back(S, C, x)
    BY <1>2 DEF Flipped
  <2>3. \A x \in I :
          /\ Forth(U, A, x) = IF x = s THEN Forth(T, B, e) ELSE IF x = Back(T, B, s) THEN e
                              ELSE IF x \in D THEN Back(T, B, x) ELSE Forth(T, B, x)
          /\ Back(U, A, x) = IF x = Forth(T, B, e) THEN s ELSE IF x = e THEN Back(T, B, s)
                             ELSE IF x \in D THEN Forth(T, B, x) ELSE Back(T, B, x)
    BY <1>1, <2>1, <2>2
  <2> QED
    BY <2>3 DEF Flipped
<1>6. q[2] = Forth(T, B, e) /\ q[4] = Back(T, B, s)
  BY <1>1, <1>2, <1>3
<1> QED
  BY <1>4, <1>5, <1>6 DEF PathFlipped, B, A, s, e

\* The frame is kept by two steps that keep it.
LEMMA FrameTwice ==
    ASSUME NEW X, NEW W, NEW I, NEW O, NEW T, NEW S, NEW U, Frame(T, S, X, W, I, O), Frame(S, U, X, W, I, O)
    PROVE  Frame(T, U, X, W, I, O)
BY DEF Frame

\* A move on a list of two levels, whatever is split and wherever the nodes are,
\* turns a path around that the four nodes delimit.
LEMMA MoveNodesKeeps ==
    ASSUME NEW X, NEW W, NEW I \in SUBSET Node, NEW O, Universe(X, W, I, O), NEW T, TreeOfTwo(T, X, W, I, O),
           T.type = 2, NEW size, NEW t1, NEW t2, NEW t3, NEW t4, Proper(T, Bits(T, O), I, t1, t2, t3, t4)
    PROVE  LET r == <<t1, t2, t3, t4>>
               S == Prepared(T, r, size)
               m == MoveNodes(S, r, Local(S, r))
           IN  /\ TreeOfTwo(m.T, X, W, I, O) /\ Frame(T, m.T, X, W, I, O)
               /\ m.r \in Turnings(t1, t2, t3, t4)
               /\ \E q \in Turnings(t1, t2, t3, t4) : PathFlipped(T, m.T, I, O, q)
<1> DEFINE r == <<t1, t2, t3, t4>>
           S == Prepared(T, r, size)
           C == Bits(S, O)
           l == Local(S, r)
           m == MoveNodes(S, r, l)
<1>1. TwoLevels(T, X, W, I, O)
  BY DEF TreeOfTwo
<1>2. /\ LevelsKept(T, S, X, W, I, O)
      /\ Apart(S, r) => S.parent[t1] # S.parent[t2] /\ S.parent[t3] # S.parent[t4]
  BY <1>1, PreparedKeeps
<1> HIDE DEF S, l, m, C
<1>3. TreeOfTwo(S, X, W, I, O) /\ Frame(T, S, X, W, I, O)
  BY <1>2, LevelsKeptTree
<1>4. S.type = 2
  BY <1>3 DEF Frame
<1>5. Level(S, I, O, C, S.suc, S.prd)
  BY <1>3 DEF TreeOfTwo, TwoLevels, C
<1>6. Proper(S, C, I, t1, t2, t3, t4)
  BY <1>2, ProperKept DEF C
<1>7. SameReading(T, Bits(T, O), S, Bits(S, O), I)
  BY <1>2 DEF LevelsKept
<1>8. LocalRight(S, t1, t2, t3, t4, l)
  BY <1>5, <1>6, LocalIs DEF l
<1>9. SUFFICES /\ TreeOfTwo(m.T, X, W, I, O) /\ Frame(S, m.T, X, W, I, O)
               /\ m.r \in Turnings(t1, t2, t3, t4)
               /\ \E q \in Turnings(t1, t2, t3, t4) : PathFlipped(S, m.T, I, O, q)
  <2>1. Frame(S, m.T, X, W, I, O) => Frame(T, m.T, X, W, I, O)
    BY <1>3, FrameTwice
  <2>2. \A q : PathFlipped(S, m.T, I, O, q) => PathFlipped(T, m.T, I, O, q)
    BY <1>7, PathFlippedSame
  <2> QED
    BY <2>1, <2>2 DEF m, l, S
<1>10. r \in Turnings(t1, t2, t3, t4)
  BY DEF Turnings
<1>11. CASE ~Apart(S, r)
  <2>1. l \in Turnings(t1, t2, t3, t4) /\ InStretch(S, l)
    BY <1>8, <1>11 DEF Apart, LocalRight
  <2>2. PICK u1, u2, u3, u4 : /\ l = <<u1, u2, u3, u4>> /\ Proper(S, C, I, u1, u2, u3, u4)
                              /\ <<u2, u1, u4, u3>> \in Turnings(t1, t2, t3, t4)
                              /\ <<u4, u3, u2, u1>> \in Turnings(t1, t2, t3, t4)
    <3>1. Renamed(S, C, I, t1, t2, t3, t4, l)
      BY <1>5, <1>6, <2>1, TurningsIs
    <3> QED
      BY <3>1 DEF Renamed
  <2>3. u1 \in I /\ u2 \in I /\ u3 \in I /\ u4 \in I /\ u1 # u3
    BY <2>2 DEF Proper
  <2>4. l # <<>>
    BY <2>2
  <2>5. m = [T |-> FlipList(S, l), r |-> r]
    BY <2>4 DEF m, MoveNodes
  <2>6. /\ TreeOfTwo(FlipList(S, l), X, W, I, O) /\ Frame(S, FlipList(S, l), X, W, I, O)
        /\ \/ PathFlipped(S, FlipList(S, l), I, O, <<u2, u1, u4, u3>>)
           \/ PathFlipped(S, FlipList(S, l), I, O, <<u4, u3, u2, u1>>)
    BY <1>3, <2>1, <2>2, <2>3, FlipListKeeps
  <2> QED
    BY <1>10, <2>2, <2>5, <2>6
<1>12. CASE Apart(S, r)
  <2>1. l = <<>>
    BY <1>8, <1>12 DEF Apart, LocalRight
  <2> DEFINE k == InOrder(S, r, SegmentCount(2))
  <2>2. m = [T |-> FlipSegments(S, k), r |-> k]
    BY <1>4, <2>1 DEF m, MoveNodes, Moved2
  <2>3. PICK b \in Int : RingRanked(S.rank, O, S.suc, b)
    BY <1>3 DEF TreeOfTwo, OwnerRing
  <2>4. IsFiniteSet(O)
    BY DEF Universe
  <2>5. k \in Turnings(t1, t2, t3, t4) /\ Ordered(S, O, C, S.suc, S.prd, k)
    BY <1>2, <1>5, <1>6, <1>12, <2>3, <2>4, InOrderIs
  <2> HIDE DEF k
  <2>6. PICK u1, u2, u3, u4 : k = <<u1, u2, u3, u4>>
    BY <2>5 DEF Turnings
  <2>7. /\ TreeOfTwo(FlipSegments(S, k), X, W, I, O) /\ Frame(S, FlipSegments(S, k), X, W, I, O)
        /\ PathFlipped(S, FlipSegments(S, k), I, O, k)
    BY <1>3, <2>5, <2>6, FlipSegmentsKeeps DEF C
  <2> QED
    BY <2>2, <2>5, <2>7
<1> QED
  BY <1>11, <1>12

-----------------------------------------------------------------------------
(* A path turned around is a 2-opt move of the tour. *)

\* The tour as it is read.
Ahead(T, O) == [x \in Node |-> Forth(T, Bits(T, O), x)]
Behind(T, O) == [x \in Node |-> Back(T, Bits(T, O), x)]

\* The two readings of a level are inverses of each other.
LEMMA AheadBehind ==
    ASSUME NEW T, NEW O, NEW nx, NEW pv, Level(T, Node, O, Bits(T, O), nx, pv)
    PROVE  /\ Ahead(T, O) \in [Node -> Node] /\ Behind(T, O) \in [Node -> Node]
           /\ Inverses(Ahead(T, O), Behind(T, O))
<1>1. ASSUME NEW x \in Node
      PROVE  /\ Ahead(T, O)[x] \in Node /\ Behind(T, O)[x] \in Node
             /\ Ahead(T, O)[Behind(T, O)[x]] = x /\ Behind(T, O)[Ahead(T, O)[x]] = x
  <2>1. /\ Forth(T, Bits(T, O), x) \in Node /\ Back(T, Bits(T, O), Forth(T, Bits(T, O), x)) = x
        /\ Back(T, Bits(T, O), x) \in Node /\ Forth(T, Bits(T, O), Back(T, Bits(T, O), x)) = x
    BY LevelInverse
  <2> QED
    BY <2>1 DEF Ahead, Behind
<1>2. Ahead(T, O) \in [Node -> Node] /\ Behind(T, O) \in [Node -> Node]
  <2>1. \A x \in Node : Forth(T, Bits(T, O), x) \in Node /\ Back(T, Bits(T, O), x) \in Node
    BY LevelInverse
  <2> QED
    BY <2>1 DEF Ahead, Behind
<1> QED
  BY <1>1, <1>2 DEF Inverses

\* In the tour k, the edges {r2,r3} and {r4,r1} lead the same way round.
Rejoined(k, r) ==
    \/ k[r[3]] = r[2] /\ k[r[4]] = r[1]
    \/ k[r[2]] = r[3] /\ k[r[1]] = r[4]

\* A path turned around is the 2-opt move of the four nodes, and gives a tour.
LEMMA PathFlippedTwoOpt ==
    ASSUME NEW T, NEW U, NEW O, NEW nx, NEW pv, Level(T, Node, O, Bits(T, O), nx, pv),
           IsTour(Ahead(T, O)), NEW q1, NEW q2, NEW q3, NEW q4,
           Proper(T, Bits(T, O), Node, q1, q2, q3, q4), PathFlipped(T, U, Node, O, <<q1, q2, q3, q4>>)
    PROVE  /\ IsTour(Ahead(U, O))
           /\ TwoOptMove(Ahead(T, O), Ahead(U, O), q1, q2, q3, q4)
           /\ Ahead(U, O)[q3] = q2 /\ Ahead(U, O)[q4] = q1
<1> DEFINE B == Bits(T, O)  C == Bits(U, O)  f == Ahead(T, O)  g == Behind(T, O)
<1>1. PICK D : /\ Arc(T, B, Node, D, q3, q1) /\ Flipped(T, B, U, C, Node, D, q3, q1)
               /\ q2 = Forth(T, B, q1) /\ q4 = Back(T, B, q3)
  BY DEF PathFlipped
<1>2. f \in [Node -> Node] /\ g \in [Node -> Node] /\ Inverses(f, g)
  BY AheadBehind
<1>3. \A x \in Node : f[x] = Forth(T, B, x) /\ g[x] = Back(T, B, x)
  BY DEF Ahead, Behind
<1>4. Ahead(U, O) = [x \in Node |-> Forth(U, C, x)]
  BY DEF Ahead
<1> HIDE DEF f, g, B, C
<1>5. /\ q1 \in Node /\ q2 \in Node /\ q3 \in Node /\ q4 \in Node
      /\ q1 # q2 /\ q1 # q3 /\ q1 # q4 /\ q2 # q3 /\ q2 # q4 /\ q3 # q4
  BY DEF Proper
<1>6. f[q1] = q2 /\ g[q3] = q4 /\ f[q4] = q3 /\ g[q2] = q1
  BY <1>1, <1>2, <1>3, <1>5 DEF Inverses
<1>7. D \subseteq Node /\ q1 \in D /\ q3 \in D /\ q2 \notin D /\ q4 \notin D
  BY <1>1 DEF Arc
<1>8. \A x \in D \ {q1} : f[x] \in D
  BY <1>1, <1>3, <1>7 DEF Arc
<1>9. \A x \in D \ {q3} : g[x] \in D
  BY <1>1, <1>3, <1>7 DEF Arc
<1>10. SideOf(f, g, D, q1, q2, q3, q4)
  BY <1>2, <1>5, <1>6, <1>7, <1>8, <1>9 DEF SideOf, f
<1>11. q3 \notin {q2, f[q2], g[q2]}
  BY <1>2, <1>5, <1>6 DEF Inverses
<1>12. Ahead(U, O) = NewSuc(f, g, D, q1, q2, q3, q4)
  <2>1. \A x \in Node : Forth(U, C, x) = IF x = q3 THEN q2 ELSE IF x = q4 THEN q1
                                         ELSE IF x \in D THEN g[x] ELSE f[x]
    BY <1>1, <1>3 DEF Flipped
  <2> QED
    BY <1>4, <2>1, Zenon DEF NewSuc
<1>13. Ahead(U, O)[q3] = q2 /\ Ahead(U, O)[q4] = q1
  BY <1>5, <1>12 DEF NewSuc
<1>14. /\ IsTour(Ahead(U, O))
       /\ TwoOptMove(Ahead(T, O), Ahead(U, O), q1, q2, q3, q4)
  BY <1>10, <1>11, <1>12, ReversalIsTwoOpt DEF f
<1> QED
  BY <1>13, <1>14

\* The quadruple l names the same edges.
SameCut(l, t1, t2, t3, t4) ==
    /\ {{l[1], l[2]}, {l[3], l[4]}} = {{t1, t2}, {t3, t4}}
    /\ {{l[2], l[3]}, {l[4], l[1]}} = {{t2, t3}, {t4, t1}}

\* The edges of a move are the same by any of its names.
LEMMA TurningEdges ==
    ASSUME NEW t1, NEW t2, NEW t3, NEW t4, NEW l \in Turnings(t1, t2, t3, t4)
    PROVE  SameCut(l, t1, t2, t3, t4)
<1>1. /\ {t1, t2} = {t2, t1} /\ {t3, t4} = {t4, t3} /\ {t2, t3} = {t3, t2} /\ {t4, t1} = {t1, t4}
  OBVIOUS
<1>2. /\ {{t1, t2}, {t3, t4}} = {{t3, t4}, {t1, t2}}
      /\ {{t2, t3}, {t4, t1}} = {{t4, t1}, {t2, t3}}
  OBVIOUS
<1>3. CASE l[1] = t1 /\ l[2] = t2 /\ l[3] = t3 /\ l[4] = t4
  BY <1>3 DEF SameCut
<1>4. CASE l[1] = t2 /\ l[2] = t1 /\ l[3] = t4 /\ l[4] = t3
  <2>1. /\ {l[1], l[2]} = {t1, t2} /\ {l[3], l[4]} = {t3, t4}
        /\ {l[2], l[3]} = {t4, t1} /\ {l[4], l[1]} = {t2, t3}
    BY <1>1, <1>4
  <2> QED
    BY <1>2, <2>1 DEF SameCut
<1>5. CASE l[1] = t3 /\ l[2] = t4 /\ l[3] = t1 /\ l[4] = t2
  <2>1. /\ {l[1], l[2]} = {t3, t4} /\ {l[3], l[4]} = {t1, t2}
        /\ {l[2], l[3]} = {t4, t1} /\ {l[4], l[1]} = {t2, t3}
    BY <1>5
  <2> QED
    BY <1>2, <2>1 DEF SameCut
<1>6. CASE l[1] = t4 /\ l[2] = t3 /\ l[3] = t2 /\ l[4] = t1
  <2>1. /\ {l[1], l[2]} = {t3, t4} /\ {l[3], l[4]} = {t1, t2}
        /\ {l[2], l[3]} = {t2, t3} /\ {l[4], l[1]} = {t4, t1}
    BY <1>1, <1>6
  <2> QED
    BY <1>2, <2>1 DEF SameCut
<1>7. \/ l = <<t1, t2, t3, t4>> \/ l = <<t2, t1, t4, t3>>
      \/ l = <<t3, t4, t1, t2>> \/ l = <<t4, t3, t2, t1>>
  BY DEF Turnings
<1>8. \/ l[1] = t1 /\ l[2] = t2 /\ l[3] = t3 /\ l[4] = t4
      \/ l[1] = t2 /\ l[2] = t1 /\ l[3] = t4 /\ l[4] = t3
      \/ l[1] = t3 /\ l[2] = t4 /\ l[3] = t1 /\ l[4] = t2
      \/ l[1] = t4 /\ l[2] = t3 /\ l[3] = t2 /\ l[4] = t1
  BY <1>7
<1> QED
  BY <1>3, <1>4, <1>5, <1>6, <1>8

\* So are the ways in which it has joined the nodes.
LEMMA RejoinedTurned ==
    ASSUME NEW k, NEW t1, NEW t2, NEW t3, NEW t4, NEW q \in Turnings(t1, t2, t3, t4), Rejoined(k, q),
           NEW l \in Turnings(t1, t2, t3, t4)
    PROVE  Rejoined(k, l)
<1>1. \/ k[t3] = t2 /\ k[t4] = t1
      \/ k[t2] = t3 /\ k[t1] = t4
  <2>1. CASE q = <<t1, t2, t3, t4>>
    BY <2>1 DEF Rejoined
  <2>2. CASE q = <<t2, t1, t4, t3>>
    BY <2>2 DEF Rejoined
  <2>3. CASE q = <<t3, t4, t1, t2>>
    BY <2>3 DEF Rejoined
  <2>4. CASE q = <<t4, t3, t2, t1>>
    BY <2>4 DEF Rejoined
  <2> QED
    BY <2>1, <2>2, <2>3, <2>4 DEF Turnings
<1>2. CASE l = <<t1, t2, t3, t4>>
  BY <1>1, <1>2 DEF Rejoined
<1>3. CASE l = <<t2, t1, t4, t3>>
  BY <1>1, <1>3 DEF Rejoined
<1>4. CASE l = <<t3, t4, t1, t2>>
  BY <1>1, <1>4 DEF Rejoined
<1>5. CASE l = <<t4, t3, t2, t1>>
  BY <1>1, <1>5 DEF Rejoined
<1> QED
  BY <1>2, <1>3, <1>4, <1>5 DEF Turnings

\* A proper move's edges are exchanged in the hash value as in the tour.
LEMMA HashOfMove ==
    ASSUME NEW T, NEW U, NEW O, NEW nx, NEW pv, Level(T, Node, O, Bits(T, O), nx, pv),
           IsTour(Ahead(T, O)), NEW t1, NEW t2, NEW t3, NEW t4,
           Proper(T, Bits(T, O), Node, t1, t2, t3, t4),
           TwoOptMove(Ahead(T, O), Ahead(U, O), t1, t2, t3, t4),
           NEW l \in Turnings(t1, t2, t3, t4)
    PROVE  UpdateHash(Edges(Ahead(T, O)), l) = Edges(Ahead(U, O))
<1> DEFINE f == Ahead(T, O)  g == Behind(T, O)
           e1 == {t1, t2}  e2 == {t3, t4}  e3 == {t2, t3}  e4 == {t4, t1}
<1>1. f \in [Node -> Node] /\ g \in [Node -> Node] /\ Inverses(f, g)
  BY AheadBehind
<1>2. /\ t1 \in Node /\ t2 \in Node /\ t3 \in Node /\ t4 \in Node
      /\ t1 # t2 /\ t1 # t3 /\ t1 # t4 /\ t2 # t3 /\ t2 # t4 /\ t3 # t4
      /\ (f[t1] = t2 /\ f[t4] = t3) \/ (g[t1] = t2 /\ g[t4] = t3)
  BY DEF Proper, Ahead, Behind
<1> HIDE DEF f, g
<1>3. /\ f[t1] = t2 \/ f[t2] = t1
      /\ f[t4] = t3 \/ f[t3] = t4
  BY <1>1, <1>2 DEF Inverses
<1>4. \A x \in Node : g[f[x]] = x
  BY <1>1 DEF Inverses
<1>5. e3 \notin Edges(f)
  <2> SUFFICES ASSUME NEW x \in Node, e3 = {x, f[x]} PROVE FALSE
    BY DEF Edges
  <2>1. (f[t2] = t3) \/ (f[t3] = t2)
    <3>1. (x = t2 /\ f[x] = t3) \/ (x = t3 /\ f[x] = t2)
      BY <1>2
    <3> QED
      BY <3>1
  <2> QED
    BY <1>1, <1>2, <1>4, <2>1 DEF Inverses
<1>6. e4 \notin Edges(f)
  <2> SUFFICES ASSUME NEW x \in Node, e4 = {x, f[x]} PROVE FALSE
    BY DEF Edges
  <2>1. (f[t4] = t1) \/ (f[t1] = t4)
    <3>1. (x = t4 /\ f[x] = t1) \/ (x = t1 /\ f[x] = t4)
      BY <1>2
    <3> QED
      BY <3>1
  <2> QED
    BY <1>1, <1>2, <1>4, <2>1 DEF Inverses
<1>7. Edges(Ahead(U, O)) = (Edges(f) \ {e1, e2}) \cup {e3, e4} /\ {e1, e2} \subseteq Edges(f)
  BY DEF TwoOptMove, f
<1>8. /\ {{l[1], l[2]}, {l[3], l[4]}} = {e1, e2}
      /\ {{l[2], l[3]}, {l[4], l[1]}} = {e3, e4}
  BY TurningEdges DEF SameCut
<1> DEFINE S == {{l[1], l[2]}, {l[3], l[4]}, {l[2], l[3]}, {l[4], l[1]}}
<1>9. S = {e1, e2} \cup {e3, e4}
  <2>1. S = {{l[1], l[2]}, {l[3], l[4]}} \cup {{l[2], l[3]}, {l[4], l[1]}}
    OBVIOUS
  <2> QED
    BY <1>8, <2>1
<1>10. UpdateHash(Edges(f), l) = (Edges(f) \ S) \cup (S \ Edges(f))
  BY DEF UpdateHash
<1> HIDE DEF e1, e2, e3, e4, S
<1>11. (Edges(f) \ S) \cup (S \ Edges(f)) = (Edges(f) \ {e1, e2}) \cup {e3, e4}
  BY <1>5, <1>6, <1>7, <1>9
<1> QED
  BY <1>7, <1>10, <1>11 DEF f

-----------------------------------------------------------------------------
(* What callers see of it. *)

\* SUC and PRD are the two readings, exchanged if Reversed is set.
LEMMA SeenIs ==
    ASSUME NEW X, NEW W, NEW O, Universe(X, W, Node, O), NEW T, TreeOfTwo(T, X, W, Node, O),
           T.type = 2, reversed \in BOOLEAN
    PROVE  /\ SucIn(T) = IF reversed THEN Behind(T, O) ELSE Ahead(T, O)
           /\ PrdIn(T) = IF reversed THEN Ahead(T, O) ELSE Behind(T, O)
<1>1. Shape(T, X, W) /\ Level(T, Node, O, Bits(T, O), T.suc, T.prd)
  BY DEF TreeOfTwo, TwoLevels
<1>2. \A x \in Node : /\ T.parent[x] \in O /\ T.rev[T.parent[x]] \in BOOLEAN
                      /\ Turned(T, T.parent[x]) = T.rev[T.parent[x]]
  <2> TAKE x \in Node
  <2>1. T.parent[x] \in O
    BY <1>1 DEF Level, Stretches, Typed
  <2>2. T.parent[x] \in W
    BY <2>1 DEF Universe
  <2>3. T.rev[T.parent[x]] \in BOOLEAN
    BY <1>1, <2>2 DEF Shape
  <2> QED
    BY <2>1, <2>3 DEF Turned
<1>3. \A x \in Node : T.parent[x] \in Bits(T, O) <=> T.rev[T.parent[x]]
  BY <1>2 DEF Bits
<1>4. CASE reversed
  <2>1. \A x \in Node : /\ (IF Backwards(T, x) THEN T.prd[x] ELSE T.suc[x]) = Back(T, Bits(T, O), x)
                        /\ (IF Backwards(T, x) THEN T.suc[x] ELSE T.prd[x]) = Forth(T, Bits(T, O), x)
    BY <1>2, <1>3, <1>4 DEF Backwards, Forth, Back
  <2>2. SucIn(T) = Behind(T, O)
    BY <2>1, Zenon DEF SucIn, Behind
  <2>3. PrdIn(T) = Ahead(T, O)
    BY <2>1, Zenon DEF PrdIn, Ahead
  <2> QED
    BY <1>4, <2>2, <2>3
<1>5. CASE ~reversed
  <2>1. \A x \in Node : /\ (IF Backwards(T, x) THEN T.prd[x] ELSE T.suc[x]) = Forth(T, Bits(T, O), x)
                        /\ (IF Backwards(T, x) THEN T.suc[x] ELSE T.prd[x]) = Back(T, Bits(T, O), x)
    BY <1>2, <1>3, <1>5 DEF Backwards, Forth, Back
  <2>2. SucIn(T) = Ahead(T, O)
    BY <2>1, Zenon DEF SucIn, Ahead
  <2>3. PrdIn(T) = Behind(T, O)
    BY <2>1, Zenon DEF PrdIn, Behind
  <2> QED
    BY <1>5, <2>2, <2>3
<1> QED
  BY <1>4, <1>5

\* What Flip_SL asserts and its early return make a proper move of it.
LEMMA ExchangeableProper ==
    ASSUME NEW X, NEW W, NEW O, Universe(X, W, Node, O), NEW T, TreeOfTwo(T, X, W, Node, O),
           T.type = 2, reversed \in BOOLEAN, IsTour(Ahead(T, O)),
           NEW t1 \in Node, NEW t2 \in Node, NEW t3 \in Node, Exchangeable(T, t1, t2, t3),
           NEW t4, t4 = IF SucIn(T)[t1] = t2 THEN PrdIn(T)[t3] ELSE SucIn(T)[t3]
    PROVE  Proper(T, Bits(T, O), Node, t1, t2, t3, t4)
<1> DEFINE f == Ahead(T, O)  g == Behind(T, O)
<1>1. f \in [Node -> Node] /\ g \in [Node -> Node] /\ \A x \in Node : f[g[x]] = x /\ g[f[x]] = x
  BY AheadBehind DEF TreeOfTwo, TwoLevels, Inverses
<1>2. \A x \in Node : f[x] = Forth(T, Bits(T, O), x) /\ g[x] = Back(T, Bits(T, O), x)
  BY DEF Ahead, Behind
<1>3. /\ SucIn(T) = IF reversed THEN g ELSE f
      /\ PrdIn(T) = IF reversed THEN f ELSE g
  BY SeenIs
<1>4. f[t1] = t2 \/ g[t1] = t2
  BY <1>2 DEF Exchangeable, Forth, Back
<1>5. t3 # t2 /\ t3 # f[t2] /\ t3 # g[t2]
  BY <1>2 DEF Exchangeable, Forth, Back
<1>6. \A x \in Node : f[x] # x
  <2> SUFFICES ASSUME NEW x \in Node, f[x] = x PROVE FALSE
    OBVIOUS
  <2>1. {x} = Node
    BY DEF IsTour, SingleCycle
  <2> QED
    BY <1>5, <2>1
<1> HIDE DEF f, g
<1>7. \/ f[t1] = t2 /\ t4 = g[t3]
      \/ g[t1] = t2 /\ t4 = f[t3]
  BY <1>3, <1>4
<1>8. t4 \in Node
  BY <1>1, <1>7
<1>9. CASE f[t1] = t2 /\ t4 = g[t3]
  <2>1. f[t4] = t3 /\ g[t2] = t1
    BY <1>1, <1>9
  <2>2. t1 # t2 /\ t1 # t3 /\ t1 # t4 /\ t2 # t3 /\ t2 # t4 /\ t3 # t4
    BY <1>1, <1>5, <1>6, <1>8, <1>9, <2>1
  <2>3. Forth(T, Bits(T, O), t1) = t2 /\ Forth(T, Bits(T, O), t4) = t3
    BY <1>2, <1>8, <1>9, <2>1
  <2> QED
    BY <1>8, <2>2, <2>3 DEF Proper
<1>10. CASE g[t1] = t2 /\ t4 = f[t3]
  <2>1. g[t4] = t3 /\ f[t2] = t1
    BY <1>1, <1>10
  <2>2. t1 # t2 /\ t1 # t3 /\ t1 # t4 /\ t2 # t3 /\ t2 # t4 /\ t3 # t4
    BY <1>1, <1>5, <1>6, <1>8, <1>10, <2>1
  <2>3. Back(T, Bits(T, O), t1) = t2 /\ Back(T, Bits(T, O), t4) = t3
    BY <1>2, <1>8, <1>10, <2>1
  <2> QED
    BY <1>8, <2>2, <2>3 DEF Proper
<1> QED
  BY <1>7, <1>9, <1>10

\* What Flip_SL does.
FlipDone(T, m, X, W, O, t1, t2, t3) ==
    /\ TreeOfTwo(m.T, X, W, Node, O) /\ Frame(T, m.T, X, W, Node, O)
    /\ m.r \in Node \X Node \X Node \X Node
    /\ IsTour(Ahead(m.T, O)) /\ UpdateHash(Edges(Ahead(T, O)), m.r) = Edges(Ahead(m.T, O))
    /\ Rejoined(Ahead(m.T, O), m.r)
    /\ \E t4 : /\ Proper(T, Bits(T, O), Node, t1, t2, t3, t4)
               /\ TwoOptMove(Ahead(T, O), Ahead(m.T, O), t1, t2, t3, t4)
               /\ m.r \in Turnings(t1, t2, t3, t4)

\* Flip_SL makes a 2-opt move, and the hash value follows.
LEMMA FLIPKeeps ==
    ASSUME NEW X, NEW W, NEW O, Universe(X, W, Node, O), NEW T, TreeOfTwo(T, X, W, Node, O),
           T.type = 2, reversed \in BOOLEAN, IsTour(Ahead(T, O)),
           NEW t1 \in Node, NEW t2 \in Node, NEW t3 \in Node, Exchangeable(T, t1, t2, t3)
    PROVE  FlipDone(T, FLIP(T, t1, t2, t3), X, W, O, t1, t2, t3)
<1> DEFINE t4 == IF SucIn(T)[t1] = t2 THEN PrdIn(T)[t3] ELSE SucIn(T)[t3]
           r == <<t1, t2, t3, t4>>
           S == Prepared(T, r, SegmentSize(T.type))
           m == MoveNodes(S, r, Local(S, r))
<1>1. FLIP(T, t1, t2, t3) = m
  BY DEF FLIP
<1>2. Proper(T, Bits(T, O), Node, t1, t2, t3, t4)
  BY ExchangeableProper
<1>3. Level(T, Node, O, Bits(T, O), T.suc, T.prd)
  BY DEF TreeOfTwo, TwoLevels
<1> HIDE DEF t4
<1>4. /\ TreeOfTwo(m.T, X, W, Node, O) /\ Frame(T, m.T, X, W, Node, O)
      /\ m.r \in Turnings(t1, t2, t3, t4)
      /\ \E q \in Turnings(t1, t2, t3, t4) : PathFlipped(T, m.T, Node, O, q)
  BY <1>2, MoveNodesKeeps
<1> HIDE DEF m, S, r
<1>5. PICK q \in Turnings(t1, t2, t3, t4) : PathFlipped(T, m.T, Node, O, q)
  BY <1>4
<1>6. Renamed(T, Bits(T, O), Node, t1, t2, t3, t4, q) /\ Renamed(T, Bits(T, O), Node, t1, t2, t3, t4, m.r)
  BY <1>2, <1>3, <1>4, TurningsIs
<1>7. PICK q1, q2, q3, q4 : q = <<q1, q2, q3, q4>> /\ Proper(T, Bits(T, O), Node, q1, q2, q3, q4)
  BY <1>6 DEF Renamed
<1>8. /\ IsTour(Ahead(m.T, O))
      /\ TwoOptMove(Ahead(T, O), Ahead(m.T, O), q1, q2, q3, q4)
      /\ Ahead(m.T, O)[q3] = q2 /\ Ahead(m.T, O)[q4] = q1
  BY <1>3, <1>5, <1>7, PathFlippedTwoOpt
<1>9. TwoOptMove(Ahead(T, O), Ahead(m.T, O), t1, t2, t3, t4)
  <2>1. /\ {{q[1], q[2]}, {q[3], q[4]}} = {{t1, t2}, {t3, t4}}
        /\ {{q[2], q[3]}, {q[4], q[1]}} = {{t2, t3}, {t4, t1}}
    BY TurningEdges DEF SameCut
  <2>2. q[1] = q1 /\ q[2] = q2 /\ q[3] = q3 /\ q[4] = q4
    BY <1>7
  <2>3. /\ {{q1, q2}, {q3, q4}} = {{t1, t2}, {t3, t4}}
        /\ {{q2, q3}, {q4, q1}} = {{t2, t3}, {t4, t1}}
    BY <2>1, <2>2
  <2> QED
    BY <1>8, <2>3 DEF TwoOptMove
<1>10. UpdateHash(Edges(Ahead(T, O)), m.r) = Edges(Ahead(m.T, O))
  BY <1>2, <1>3, <1>4, <1>9, HashOfMove
<1>11. m.r \in Node \X Node \X Node \X Node
  BY <1>6 DEF Renamed, Proper
<1>12. Rejoined(Ahead(m.T, O), m.r)
  <2>1. Rejoined(Ahead(m.T, O), q)
    BY <1>7, <1>8 DEF Rejoined
  <2> QED
    BY <1>4, <2>1, RejoinedTurned
<1> QED
  BY <1>1, <1>2, <1>4, <1>8, <1>9, <1>10, <1>11, <1>12 DEF FlipDone, m, S, r

-----------------------------------------------------------------------------
(* The order of a tour. *)

\* s follows f for n steps without meeting a node twice.
Runs(f, a, s, n) ==
    /\ s \in [1..n -> Node] /\ s[1] = a
    /\ \A i \in 1..n : i # n => s[i+1] = f[s[i]]
    /\ \A i, j \in 1..n : s[i] = s[j] => i = j

\* The nodes it meets.
Met(s, n) == {s[i] : i \in 1..n}

\* The order in which they are met numbers them along the tour.
LEMMA RunsNumbered ==
    ASSUME NEW f, NEW a, NEW n \in Nat \ {0}, NEW s, Runs(f, a, s, n)
    PROVE  /\ a \in Met(s, n) /\ s[n] \in Met(s, n)
           /\ Numbered(f, Met(s, n), n, [x \in Met(s, n) |-> CHOOSE i \in 1..n : s[i] = x], a, s[n])
<1> DEFINE D == Met(s, n)
           num == [x \in D |-> CHOOSE i \in 1..n : s[i] = x]
<1>1. \A i \in 1..n : s[i] \in D
  BY DEF Met
<1>2. \A x \in D : num[x] \in 1..n /\ s[num[x]] = x
  <2> TAKE x \in D
  <2>1. \E i \in 1..n : s[i] = x
    BY DEF Met
  <2> QED
    BY <2>1
<1> HIDE DEF num, D
<1>3. \A i \in 1..n : num[s[i]] = i
  BY <1>1, <1>2 DEF Runs
<1>4. 1 \in 1..n /\ n \in 1..n /\ s[1] = a
  BY DEF Runs
<1>5. \A x \in D : x # s[n] => f[x] \in D /\ num[f[x]] = num[x] + 1
  <2> TAKE x \in D
  <2> HAVE x # s[n]
  <2>1. num[x] \in 1..n /\ num[x] # n /\ num[x] + 1 \in 1..n
    BY <1>2
  <2>2. f[x] = s[num[x] + 1]
    BY <1>2, <2>1 DEF Runs
  <2> QED
    BY <1>1, <1>3, <2>1, <2>2
<1>6. \A x, y \in D : num[x] = num[y] => x = y
  BY <1>2
<1>7. num[a] = 1 /\ num[s[n]] = n /\ a \in D /\ s[n] \in D
  BY <1>1, <1>3, <1>4
<1> QED
  BY <1>2, <1>5, <1>6, <1>7 DEF Numbered, num, D

\* Following a tour from a, one meets every node once and comes back to a.
LEMMA TourNumbered ==
    ASSUME N \in Nat, NEW f, IsTour(f), NEW a \in Node
    PROVE  \E num : \E z \in Node : Numbered(f, Node, N, num, a, z) /\ f[z] = a
<1> DEFINE Good == {n \in Nat : n + 1 <= N => \E s : Runs(f, a, s, n + 1)}
<1>0. IsFiniteSet(Node) /\ N = Cardinality(Node) /\ N # 0
  BY NodeAssumption, FS_EmptySet DEF N
<1>1. 0 \in Good
  <2>1. Runs(f, a, [i \in 1..1 |-> a], 1)
    BY DEF Runs
  <2> QED
    BY <2>1
<1>2. ASSUME NEW n \in Nat, n \in Good PROVE n + 1 \in Good
  <2> SUFFICES ASSUME n + 2 <= N PROVE \E t : Runs(f, a, t, n + 2)
    OBVIOUS
  <2>1. PICK s : Runs(f, a, s, n + 1)
    BY <1>2
  <2> DEFINE D == Met(s, n + 1)  y == f[s[n+1]]
  <2>2. y \notin D
    <3> SUFFICES ASSUME y \in D PROVE FALSE
      OBVIOUS
    <3>1. PICK num : Numbered(f, D, n + 1, num, a, s[n+1]) /\ a \in D /\ s[n+1] \in D
      <4>1. n + 1 \in Nat \ {0}
        OBVIOUS
      <4>2. /\ a \in D /\ s[n+1] \in D
            /\ Numbered(f, D, n + 1, [x \in D |-> CHOOSE i \in 1..(n+1) : s[i] = x], a, s[n+1])
        BY ONLY <2>1, <4>1, RunsNumbered
      <4> QED
        BY <4>2, Zenon
    <3>2. \A x \in D : f[x] \in D
      BY <3>1 DEF Numbered
    <3>3. D \subseteq Node /\ D # {}
      BY <2>1, <3>1 DEF Runs, Met
    <3>4. D = Node
      BY <3>2, <3>3 DEF IsTour, SingleCycle
    <3> HIDE DEF D
    <3>5. Cardinality(D) = n + 1
      BY <3>1, NumberedSize
    <3> QED
      BY <1>0, <3>4, <3>5
  <2> DEFINE t == [i \in 1..(n+2) |-> IF i = n + 2 THEN y ELSE s[i]]
  <2>3. y \in Node
    BY <2>1 DEF Runs, IsTour
  <2>4. \A i \in 1..(n+2) : i # n + 2 => i \in 1..(n+1) /\ s[i] \in Node /\ s[i] # y
    BY <2>1, <2>2 DEF Runs, Met
  <2>5. t \in [1..(n+2) -> Node]
    BY <2>3, <2>4
  <2>6. t[1] = a
    BY <2>1 DEF Runs
  <2>7. \A i \in 1..(n+2) : i # n + 2 => t[i+1] = f[t[i]]
    BY <2>1, <2>4 DEF Runs
  <2>8. \A i, j \in 1..(n+2) : t[i] = t[j] => i = j
    BY <2>1, <2>4 DEF Runs
  <2> HIDE DEF t
  <2>9. Runs(f, a, t, n + 2)
    BY <2>5, <2>6, <2>7, <2>8 DEF Runs
  <2> QED
    BY <2>9
<1> HIDE DEF Good
<1>3. \A n \in Nat : n \in Good
  BY <1>1, <1>2, UpFromZero
<1>4. N - 1 \in Nat
  BY <1>0
<1>5. PICK s : Runs(f, a, s, N)
  <2>1. N - 1 \in Good
    BY <1>3, <1>4
  <2>2. \E s : Runs(f, a, s, (N - 1) + 1)
    BY <2>1 DEF Good
  <2>3. (N - 1) + 1 = N
    BY <1>4
  <2> QED
    BY <2>2, <2>3
<1> DEFINE D == Met(s, N)
<1>6. PICK num : Numbered(f, D, N, num, a, s[N]) /\ a \in D /\ s[N] \in D
  BY <1>0, <1>5, RunsNumbered
<1>7. D = Node
  <2>1. D \subseteq Node
    BY <1>5 DEF Runs, Met
  <2> HIDE DEF D
  <2>2. Cardinality(D) = N
    BY <1>0, <1>6, NumberedSize
  <2> QED
    BY <1>0, <2>1, <2>2, FS_Subset
<1>8. f[s[N]] = a
  <2>1. f[s[N]] \in D
    BY <1>6, <1>7 DEF IsTour
  <2>2. PICK j \in 1..N : f[s[N]] = s[j]
    BY <2>1 DEF Met
  <2>3. CASE j = 1
    BY <1>5, <2>2, <2>3 DEF Runs
  <2>4. CASE j # 1
    <3>1. j - 1 \in 1..N /\ j - 1 # N /\ (j - 1) + 1 = j /\ N \in 1..N
      BY <1>0, <2>4
    <3>2. s[j] = f[s[j-1]] /\ s[j-1] \in Node /\ s[N] \in Node
      BY <1>5, <3>1 DEF Runs
    <3>3. s[j-1] = s[N]
      BY <2>2, <3>2 DEF IsTour, Injective
    <3> QED
      BY <1>5, <3>1, <3>3 DEF Runs
  <2> QED
    BY <2>3, <2>4
<1> HIDE DEF D
<1>9. s[N] \in Node /\ Numbered(f, Node, N, num, a, s[N])
  BY <1>6, <1>7
<1> QED
  BY <1>8, <1>9, Zenon

-----------------------------------------------------------------------------
(* The sizes. *)

\* What the division of the code's int does to numbers that are not negative.
LEMMA DivIs ==
    ASSUME NEW a \in Nat, NEW k \in Nat \ {0}
    PROVE  /\ a \div k \in Nat /\ k * (a \div k) <= a /\ a < k * (a \div k) + k
OBVIOUS

\* (int) sqrt(n).
LEMMA SquareRootIs ==
    ASSUME NEW n \in Nat \ {0}
    PROVE  LET k == SquareRoot(n) IN k \in 1..n /\ k * k <= n /\ (k + 1) * (k + 1) > n
<1> DEFINE Good == {m \in Nat : \E k \in 1..(m+1) : k * k <= m + 1 /\ (k + 1) * (k + 1) > m + 1}
<1>1. 0 \in Good
  <2>1. 1 \in 1..(0+1) /\ 1 * 1 <= 0 + 1 /\ (1 + 1) * (1 + 1) > 0 + 1
    OBVIOUS
  <2> QED
    BY <2>1
<1>2. ASSUME NEW m \in Nat, m \in Good PROVE m + 1 \in Good
  <2>1. PICK k \in 1..(m+1) : k * k <= m + 1 /\ (k + 1) * (k + 1) > m + 1
    BY <1>2
  <2>2. k \in Nat /\ k * k \in Nat /\ (k + 1) * (k + 1) = k * k + 2 * k + 1
        /\ (k + 2) * (k + 2) = k * k + 4 * k + 4
    OBVIOUS
  <2>3. CASE (k + 1) * (k + 1) > m + 2
    <3>1. k \in 1..(m+2) /\ k * k <= m + 2
      BY <2>1, <2>2
    <3> QED
      BY <2>3, <3>1
  <2>4. CASE ~((k + 1) * (k + 1) > m + 2)
    <3> DEFINE j == k + 1
    <3>1. j \in 1..(m+2) /\ j * j <= m + 2
      BY <2>1, <2>2, <2>4
    <3>2. (j + 1) * (j + 1) > m + 2
      BY <2>1, <2>2
    <3> HIDE DEF j
    <3> QED
      BY <3>1, <3>2
  <2> QED
    BY <2>3, <2>4
<1> HIDE DEF Good
<1>3. \A m \in Nat : m \in Good
  BY <1>1, <1>2, UpFromZero
<1>4. n - 1 \in Nat /\ (n - 1) + 1 = n
  OBVIOUS
<1>5. n - 1 \in Good
  BY <1>3, <1>4
<1>6. \E k \in 1..n : k * k <= n /\ (k + 1) * (k + 1) > n
  BY <1>4, <1>5 DEF Good
<1> QED
  BY <1>6 DEF SquareRoot

\* More than one node makes more than one segment, and one super segment.
LEMMA Sizes ==
    ASSUME N \in Nat, N > 1
    PROVE  LET k == SegmentSize(2)
               K == SegmentCount(2)
           IN  /\ k \in 1..N /\ K \in 2..N /\ (K - 1) * k < N /\ N <= K * k
               /\ SuperSegmentSize(2) = N /\ SuperCount(2) = 1
<1> DEFINE k == SegmentSize(2)  K == SegmentCount(2)
<1>1. k = SquareRoot(N)
  BY DEF SegmentSize
<1>2. k \in 1..N /\ k * k <= N
  BY <1>1, SquareRootIs
<1>3. K = (N + k - 1) \div k
  BY DEF SegmentCount, Pieces
<1> HIDE DEF k, K
<1>4. N + k - 1 \in Nat /\ k \in Nat \ {0}
  BY <1>2
<1>5. K \in Nat /\ k * K <= N + k - 1 /\ N + k - 1 < k * K + k
  BY <1>3, <1>4, DivIs
<1>6. (K - 1) * k = k * K - k /\ K * k = k * K
  BY <1>4, <1>5
<1>7. (K - 1) * k < N /\ N <= K * k
  BY <1>2, <1>5, <1>6
<1>8. k < N
  <2> SUFFICES ASSUME k = N PROVE FALSE
    BY <1>2
  <2>1. N * N <= N
    BY <1>2
  <2> QED
    BY <2>1
<1>9. K > 1
  <2> SUFFICES ASSUME K = 0 \/ K = 1 PROVE FALSE
    BY <1>5
  <2>1. k * 0 = 0 /\ k * 1 = k
    BY <1>2
  <2> QED
    BY <1>5, <1>2, <1>8, <2>1
<1>10. K <= N
  <2> SUFFICES ASSUME K >= N + 1 PROVE FALSE
    BY <1>5
  <2>1. (K - 1) * k >= K - 1
    BY <1>2, <1>5, <1>9
  <2>2. (K - 1) * k \in Int /\ K - 1 \in Int /\ K - 1 >= N
    BY <1>2, <1>5
  <2> DEFINE p == (K - 1) * k
  <2>3. p \in Int /\ p < N /\ p >= K - 1
    BY <1>7, <2>1, <2>2
  <2> HIDE DEF p
  <2> QED
    BY <2>2, <2>3
<1>11. SuperSegmentSize(2) = N
  BY DEF SuperSegmentSize
<1>12. SuperCount(2) = (K + N - 1) \div N
  BY <1>11 DEF SuperCount, Pieces, K
<1>13. SuperCount(2) = 1
  <2> DEFINE q == (K + N - 1) \div N
  <2>1. K + N - 1 \in Nat /\ N \in Nat \ {0}
    BY <1>5, <1>9
  <2>2. q \in Nat /\ N * q <= K + N - 1 /\ K + N - 1 < N * q + N
    BY <2>1, DivIs
  <2> HIDE DEF q
  <2>3. q # 0
    <3>1. N * 0 = 0
      OBVIOUS
    <3> QED
      BY <1>5, <1>9, <2>2, <3>1
  <2>4. q < 2
    <3> SUFFICES ASSUME q >= 2 PROVE FALSE
      BY <2>2
    <3>1. N * q >= N * 2
      BY <2>2
    <3> QED
      BY <1>5, <1>10, <2>2, <3>1
  <2> QED
    BY <1>12, <2>2, <2>3, <2>4 DEF q
<1> QED
  BY <1>2, <1>5, <1>7, <1>9, <1>10, <1>11, <1>13 DEF k, K

-----------------------------------------------------------------------------
(* The tree nodes of two levels. *)

\* The segments, their super segment, all that hold others, and all tree nodes.
Seg == Segment(2)
Top == FirstSuper(2)
Holder == FirstSegment..LastSuper(2)
All == TreeNode(2)

\* The nodes are the numbers from 1 to N.
LEMMA NodesCounted == IsFiniteSet(Node) /\ N \in Nat /\ N # 0 /\ Node = 1..N
<1>1. IsFiniteSet(Node) /\ Node # {}
  BY NodeAssumption
<1>2. N \in Nat /\ N # 0
  BY <1>1, FS_CardinalityType, FS_EmptySet DEF N
<1> QED
  BY <1>1, <1>2, TreeAssumption DEF N

\* With two levels the segments follow the nodes, and one super segment ends the list.
LEMMA TreeNodes ==
    ASSUME N > 1
    PROVE  LET K == SegmentCount(2) IN
           /\ Universe(All, Holder, Node, Seg)
           /\ IsFiniteSet(Seg) /\ Cardinality(Seg) = K
           /\ Seg = (N + 1)..(N + K) /\ FirstSegment = N + 1 /\ FirstSegment \in Seg
           /\ Top = N + K + 1 /\ LastSuper(2) = Top
           /\ All = Node \cup Seg \cup {Top} /\ Holder = Seg \cup {Top}
           /\ Node \cap Seg = {} /\ Top \notin Node /\ Top \notin Seg
           /\ \A x \in Node : x < FirstSegment
           /\ \A P \in Seg : ~(P < FirstSegment) /\ P < Top
           /\ ~(Top < FirstSegment) /\ ~(Top < Top)
<1> DEFINE K == SegmentCount(2)
<1>1. N \in Nat /\ Node = 1..N /\ IsFiniteSet(Node)
  BY NodesCounted
<1>2. K \in 2..N /\ SuperCount(2) = 1
  BY <1>1, Sizes
<1> HIDE DEF K
<1>3. FirstSegment = N + 1 /\ Top = N + K + 1 /\ LastSuper(2) = Top
  BY <1>1, <1>2 DEF FirstSegment, Top, FirstSuper, LastSuper, K
<1>4. Seg = (N + 1)..(N + K) /\ Holder = (N + 1)..(N + K + 1) /\ All = 1..(N + K + 1)
  BY <1>1, <1>2, <1>3 DEF Seg, Segment, Holder, All, TreeNode, Top
<1>5. IsFiniteSet(Seg) /\ Cardinality(Seg) = K
  BY <1>1, <1>2, <1>4, FS_Interval
<1>6. /\ FirstSegment \in Seg
      /\ All = Node \cup Seg \cup {Top} /\ Holder = Seg \cup {Top}
      /\ Node \cap Seg = {} /\ Top \notin Node /\ Top \notin Seg
      /\ \A x \in Node : x < FirstSegment
      /\ \A P \in Seg : ~(P < FirstSegment) /\ P < Top
      /\ ~(Top < FirstSegment) /\ ~(Top < Top)
  BY <1>1, <1>2, <1>3, <1>4
<1>7. Universe(All, Holder, Node, Seg)
  <2>1. Node \cap Holder = {} /\ Null \notin Seg
    BY <1>1, <1>2, <1>4 DEF Null
  <2>2. Cardinality(Node) <= N /\ Cardinality(Seg) <= N
    BY <1>1, <1>2, <1>5 DEF N
  <2> QED
    BY <1>1, <1>5, <1>6, <2>1, <2>2 DEF Universe
<1> QED
  BY <1>3, <1>4, <1>5, <1>6, <1>7 DEF K

-----------------------------------------------------------------------------
(* The tree laid over a list. *)

\* A list of nodes that is a tour, and a ring of segments, each with its place.
ListOfTwo(f, place) ==
    /\ f \in [All -> All] /\ f[Top] = Top
    /\ IsTour([x \in Node |-> f[x]])
    /\ \A P \in Seg : /\ f[P] \in Seg /\ place[P] \in 1..SegmentCount(2)
                      /\ place[f[P]] = IF place[P] = SegmentCount(2) THEN 1 ELSE place[P] + 1
    /\ \A P, Q \in Seg : place[P] = place[Q] => P = Q
    /\ place[FirstSegment] = 1

\* What Layout makes of it, when num numbers the nodes along the list.
Laid(T, f, num, place) ==
    LET k == SegmentSize(2)
    IN  /\ T.type = 2 /\ T.suc = f
        /\ \A x \in Node : /\ T.prd[x] \in Node /\ f[T.prd[x]] = x
                           /\ T.rank[x] = num[x] /\ T.parent[x] \in Seg
                           /\ k * (place[T.parent[x]] - 1) < num[x] /\ num[x] <= k * place[T.parent[x]]
        /\ \A P \in Seg : /\ T.prd[P] \in Seg /\ f[T.prd[P]] = P
                          /\ T.rank[P] = place[P] /\ T.parent[P] = Top
                          /\ T.first[P] \in Node /\ T.parent[T.first[P]] = P
                          /\ T.last[P] \in Node /\ T.parent[T.last[P]] = P
                          /\ T.size[P] = Cardinality({x \in Node : T.parent[x] = P})
                          /\ ~T.rev[P]
        /\ \A x \in Node : /\ num[T.first[T.parent[x]]] <= num[x]
                           /\ num[x] <= num[T.last[T.parent[x]]]
        /\ ~T.rev[Top]

\* Every node has its number.
NumberedTour(f, num) ==
    /\ \A x \in Node : f[x] \in Node /\ num[x] \in 1..N
                       /\ num[f[x]] = IF num[x] = N THEN 1 ELSE num[x] + 1
    /\ \A x, y \in Node : num[x] = num[y] => x = y
    /\ \A i \in 1..N : \E x \in Node : num[x] = i

\* m is in the p-th piece of size k.
LEMMA PieceUnique ==
    ASSUME NEW k \in Nat \ {0}, NEW p \in Nat, NEW q \in Nat, NEW m \in Nat,
           k * (p - 1) < m, m <= k * p, k * (q - 1) < m, m <= k * q
    PROVE  p = q
<1>1. ASSUME NEW a \in Nat, NEW b \in Nat, k * (a - 1) < m, m <= k * b PROVE ~(b < a)
  <2> SUFFICES ASSUME b <= a - 1 PROVE FALSE
    OBVIOUS
  <2>1. k * b <= k * (a - 1) /\ k * b \in Int /\ k * (a - 1) \in Int
    OBVIOUS
  <2> QED
    BY <1>1, <2>1
<1> QED
  BY <1>1

\* Each segment gets a stretch of the nodes.
LEMMA LaidStretches ==
    ASSUME N > 1, NEW f, NEW place, ListOfTwo(f, place), NEW num, NumberedTour(f, num),
           NEW T, Laid(T, f, num, place)
    PROVE  Stretches(T, Node, Seg)
<1> DEFINE k == SegmentSize(2)  piece(x) == place[T.parent[x]]
<1>1. N \in Nat /\ k \in Nat \ {0} /\ SegmentCount(2) \in Nat
  BY NodesCounted, Sizes
<1> HIDE DEF k
<1>2. \A x \in Node : /\ num[x] \in Nat /\ num[x] \in 1..N /\ T.rank[x] = num[x] /\ T.parent[x] \in Seg
                      /\ T.suc[x] = f[x] /\ f[x] \in Node /\ T.prd[x] \in Node /\ f[T.prd[x]] = x
                      /\ piece(x) \in Nat
                      /\ k * (piece(x) - 1) < num[x] /\ num[x] <= k * piece(x)
                      /\ num[T.first[T.parent[x]]] <= num[x] /\ num[x] <= num[T.last[T.parent[x]]]
                      /\ num[f[x]] = IF num[x] = N THEN 1 ELSE num[x] + 1
  BY <1>1 DEF Laid, NumberedTour, ListOfTwo, k
<1>3. \A x, y \in Node : num[x] = num[y] => x = y
  BY DEF NumberedTour
<1>4. \A P, Q \in Seg : place[P] = place[Q] => P = Q
  BY DEF ListOfTwo
<1>5. \A P \in Seg : /\ T.first[P] \in Node /\ T.parent[T.first[P]] = P
                     /\ T.last[P] \in Node /\ T.parent[T.last[P]] = P
                     /\ T.size[P] = Cardinality({x \in Node : T.parent[x] = P})
  BY DEF Laid
<1>6. Typed(T, Node, Seg)
  BY <1>2 DEF Typed
<1>7. EndsHeld(T, Node, Seg)
  BY <1>5 DEF EndsHeld
<1>8. RankedFromFirst(T, Node)
  BY <1>2, <1>5 DEF RankedFromFirst
<1>9. RankedOnce(T, Node)
  BY <1>2, <1>3 DEF RankedOnce
\* Between two items of one piece there are only items of it.
<1>10. ASSUME NEW x \in Node, NEW y \in Node, NEW z \in Node, T.parent[x] = T.parent[z],
              num[x] <= num[y], num[y] <= num[z]
       PROVE  T.parent[y] = T.parent[x]
  <2> DEFINE p == piece(x)  q == piece(y)  m == num[y]
  <2>1. k * (p - 1) < num[x] /\ num[z] <= k * p /\ k * (q - 1) < m /\ m <= k * q
        /\ p \in Nat /\ q \in Nat /\ m \in Nat /\ num[x] \in Nat /\ num[z] \in Nat
        /\ num[x] <= m /\ m <= num[z]
    BY <1>2, <1>10
  <2> HIDE DEF p, q, m
  <2>2. k * (p - 1) \in Int /\ k * p \in Int
    BY <1>1, <2>1
  <2>3. k * (p - 1) < m /\ m <= k * p
    BY <2>1, <2>2
  <2>4. p = q
    BY <1>1, <2>1, <2>3, PieceUnique
  <2> QED
    BY <1>2, <1>4, <2>4 DEF p, q
<1>11. UpToLast(T, Node)
  <2> SUFFICES ASSUME NEW x \in Node, x # T.last[T.parent[x]]
               PROVE  T.parent[f[x]] = T.parent[x] /\ num[f[x]] = num[x] + 1
    BY <1>2 DEF UpToLast
  <2> DEFINE z == T.last[T.parent[x]]
  <2>1. z \in Node /\ T.parent[z] = T.parent[x] /\ num[x] <= num[z] /\ num[x] # num[z]
    BY <1>2, <1>3, <1>5
  <2> HIDE DEF z
  <2>2. num[x] + 1 <= num[z] /\ num[x] # N
    BY <1>1, <1>2, <2>1
  <2>3. num[f[x]] = num[x] + 1 /\ f[x] \in Node
    BY <1>2, <2>2
  <2>4. num[x] <= num[f[x]] /\ num[f[x]] <= num[z]
    BY <1>2, <2>2, <2>3
  <2> QED
    BY <1>10, <2>1, <2>3, <2>4
<1>12. DownToFirst(T, Node)
  <2> SUFFICES ASSUME NEW x \in Node, x # T.first[T.parent[x]]
               PROVE  T.parent[T.prd[x]] = T.parent[x] /\ num[T.prd[x]] = num[x] - 1
    BY <1>2 DEF DownToFirst
  <2> DEFINE z == T.first[T.parent[x]]  y == T.prd[x]
  <2>1. z \in Node /\ T.parent[z] = T.parent[x] /\ num[z] <= num[x] /\ num[x] # num[z]
    BY <1>2, <1>3, <1>5
  <2>2. y \in Node /\ f[y] = x
    BY <1>2
  <2> HIDE DEF z, y
  <2>3. num[x] # 1 /\ num[z] <= num[x] - 1
    BY <1>2, <2>1
  <2>4. num[x] = IF num[y] = N THEN 1 ELSE num[y] + 1
    BY <1>2, <2>2
  <2>5. num[y] = num[x] - 1
    BY <1>2, <2>2, <2>3, <2>4
  <2>6. num[z] <= num[y] /\ num[y] <= num[x]
    BY <1>2, <2>3, <2>5
  <2>7. T.parent[y] = T.parent[z]
    BY <1>10, <2>1, <2>2, <2>6
  <2> QED
    BY <2>1, <2>5, <2>7 DEF y
<1>13. Sized(T, Seg)
  <2> SUFFICES ASSUME NEW P \in Seg PROVE T.size[P] = num[T.last[P]] - num[T.first[P]] + 1
    <3>1. \A P \in Seg : T.rank[T.last[P]] = num[T.last[P]] /\ T.rank[T.first[P]] = num[T.first[P]]
      BY <1>2, <1>5
    <3> QED
      BY <3>1 DEF Sized
  <2> DEFINE D == {x \in Node : T.parent[x] = P}
             a == T.first[P]
             z == T.last[P]
             n == num[z] - num[a] + 1
             new == [x \in D |-> num[x] - num[a] + 1]
  <2>1. a \in D /\ z \in D
    BY <1>5
  <2>2. \A x \in D : x \in Node /\ T.parent[x] = P /\ num[a] <= num[x] /\ num[x] <= num[z] /\ num[x] \in Nat
    BY <1>2
  <2>3. \A x \in D : x # z => f[x] \in D /\ num[f[x]] = num[x] + 1
    BY <1>2, <1>11 DEF UpToLast
  <2>4. n \in Nat \ {0}
    BY <2>1, <2>2
  <2>5. Numbered(f, D, n, new, a, z)
    <3>1. \A x \in D : new[x] = num[x] - num[a] + 1
      OBVIOUS
    <3>2. \A x, y \in D : new[x] = new[y] => x = y
      BY <1>3, <2>1, <2>2, <3>1
    <3>3. \A x \in D : new[x] \in 1..n
      BY <2>1, <2>2, <3>1
    <3>4. \A x \in D : x # z => f[x] \in D /\ new[f[x]] = new[x] + 1
      BY <2>1, <2>2, <2>3, <3>1
    <3>5. new[a] = 1 /\ new[z] = n
      BY <2>1, <2>2, <3>1
    <3> HIDE DEF new, D, n, a, z
    <3> QED
      BY <3>2, <3>3, <3>4, <3>5 DEF Numbered
  <2>6. T.size[P] = Cardinality(D)
    BY <1>5
  <2> HIDE DEF D, a, z, n, new
  <2>7. Cardinality(D) = n
    BY <2>1, <2>4, <2>5, NumberedSize
  <2> QED
    BY <2>6, <2>7 DEF n, a, z
<1> QED
  BY <1>6, <1>7, <1>8, <1>9, <1>11, <1>12, <1>13 DEF Stretches

\* The pieces follow each other on the tour as the segments do on their ring.
LEMMA LaidJoined ==
    ASSUME N > 1, NEW f, NEW place, ListOfTwo(f, place), NEW num, NumberedTour(f, num),
           NEW T, Laid(T, f, num, place)
    PROVE  \A P \in Seg : f[T.last[P]] = T.first[f[P]]
<1> DEFINE k == SegmentSize(2)  K == SegmentCount(2)
<1> SUFFICES ASSUME NEW P \in Seg PROVE f[T.last[P]] = T.first[f[P]]
  OBVIOUS
<1>1. N \in Nat /\ k \in Nat \ {0} /\ K \in Nat \ {0} /\ (K - 1) * k < N /\ N <= K * k
  BY NodesCounted, Sizes
<1> HIDE DEF k, K
<1> DEFINE x == T.last[P]  y == f[x]  Q == T.parent[y]  p == place[P]  q == place[Q]  z == T.first[Q]
<1> DEFINE in(m, r) == k * (r - 1) < m /\ m <= k * r
<1>2. \A w \in Node : /\ num[w] \in 1..N /\ T.parent[w] \in Seg /\ f[w] \in Node
                      /\ in(num[w], place[T.parent[w]])
                      /\ num[T.first[T.parent[w]]] <= num[w] /\ num[w] <= num[T.last[T.parent[w]]]
                      /\ num[f[w]] = IF num[w] = N THEN 1 ELSE num[w] + 1
  BY DEF Laid, NumberedTour, k
<1>3. \A R \in Seg : /\ place[R] \in 1..K /\ f[R] \in Seg
                     /\ T.first[R] \in Node /\ T.parent[T.first[R]] = R
                     /\ T.last[R] \in Node /\ T.parent[T.last[R]] = R
                     /\ place[f[R]] = IF place[R] = K THEN 1 ELSE place[R] + 1
  BY DEF Laid, ListOfTwo, K
<1>4. \A v, w \in Node : num[v] = num[w] => v = w
  BY DEF NumberedTour
<1>21. x = T.last[P] /\ p = place[P]
  OBVIOUS
<1>22. y = f[x]
  OBVIOUS
<1>23. Q = T.parent[y]
  OBVIOUS
<1>24. z = T.first[Q]
  OBVIOUS
<1>25. q = place[Q]
  OBVIOUS
<1> HIDE DEF x, y, z, Q, p, q, in
<1>31. x \in Node /\ T.parent[x] = P /\ p \in 1..K
  BY <1>3, <1>21
<1>32. y \in Node /\ num[x] \in 1..N /\ num[y] = (IF num[x] = N THEN 1 ELSE num[x] + 1) /\ in(num[x], p)
  BY <1>2, <1>21, <1>22, <1>31
<1>33. Q \in Seg /\ num[y] \in 1..N
  BY <1>2, <1>23, <1>32
<1>34. in(num[y], q)
  BY <1>2, <1>23, <1>25, <1>32
<1>35. num[z] <= num[y]
  BY <1>2, <1>23, <1>24, <1>32
<1>36. num[y] <= num[T.last[Q]]
  BY <1>2, <1>23, <1>32
<1>37. z \in Node /\ T.parent[z] = Q
  BY <1>3, <1>24, <1>33
<1>38. q \in 1..K
  BY <1>3, <1>25, <1>33
<1>39. num[z] \in 1..N /\ in(num[z], q)
  BY <1>2, <1>25, <1>37
<1>6. /\ num[x] \in 1..N /\ num[y] \in 1..N /\ p \in 1..K /\ q \in 1..K /\ num[z] \in 1..N
      /\ num[y] = (IF num[x] = N THEN 1 ELSE num[x] + 1)
      /\ k * (p - 1) < num[x] /\ num[x] <= k * p /\ k * (q - 1) < num[y] /\ num[y] <= k * q
      /\ k * (q - 1) < num[z] /\ num[z] <= num[y]
  BY <1>31, <1>32, <1>33, <1>34, <1>35, <1>38, <1>39 DEF in
<1>7. Q = P => num[y] <= num[x]
  BY <1>21, <1>36
<1>17. \A R, S \in Seg : place[R] = place[S] => R = S
  BY DEF ListOfTwo
<1>8. Q = P <=> q = p
  BY <1>21, <1>25, <1>33, <1>17
<1>9. k * (p - 1) = k * p - k /\ k * (q - 1) = k * q - k /\ k * p \in Int /\ k * q \in Int
      /\ (K - 1) * k = k * K - k /\ k * K \in Int
  BY <1>1, <1>6
<1>10. CASE num[x] = N
  <2>1. num[y] = 1
    BY <1>6, <1>10
  <2>2. q = 1
    <3> SUFFICES ASSUME q >= 2 PROVE FALSE
      BY <1>6
    <3>1. k * (q - 1) >= 1 /\ k * (q - 1) \in Int
      <4>1. \A u, v \in Nat \ {0} : u * v \in Nat \ {0}
        OBVIOUS
      <4>2. q - 1 \in Nat \ {0}
        BY <1>6
      <4> QED
        BY <1>1, <4>1, <4>2, k * (q - 1) \in Nat \ {0}
    <3> QED
      BY <1>6, <2>1, <3>1
  <2>3. p = K
    <3> SUFFICES ASSUME p <= K - 1 PROVE FALSE
      BY <1>1, <1>6
    <3>1. k * p <= k * (K - 1) /\ k * (K - 1) = (K - 1) * k
      <4>1. \A u, v, w \in Nat : v <= w => u * v <= u * w
        OBVIOUS
      <4>2. p \in Nat /\ K - 1 \in Nat /\ k \in Nat
        BY <1>1, <1>6
      <4> QED
        BY <4>1, <4>2
    <3> DEFINE kp == k * p
               e == (K - 1) * k
    <3>2. kp <= e /\ e < N /\ N <= kp /\ kp \in Int /\ e \in Int
      <4>1. (K - 1) * k \in Int
        BY <1>1
      <4> QED
        BY <1>1, <1>6, <1>9, <1>10, <3>1, <4>1
    <3> HIDE DEF kp, e
    <3> QED
      BY <1>1, <3>2
  <2>4. Q = f[P]
    <3>1. place[f[P]] = q /\ f[P] \in Seg
      BY <1>3, <1>21, <2>2, <2>3
    <3> QED
      BY <1>25, <1>33, <1>17, <3>1
  <2>5. num[z] = num[y]
    BY <1>6, <2>1
  <2> QED
    <3>1. y = z
      BY <1>4, <1>32, <1>37, <2>5
    <3>2. z = T.first[f[P]]
      BY <1>24, <2>4
    <3> QED
      BY <1>21, <1>22, <3>1, <3>2
<1>11. CASE num[x] # N
  <2>1. num[y] = num[x] + 1
    BY <1>6, <1>11
  <2>2. q # p
    BY <1>6, <1>7, <1>8, <2>1
  <2>3. q = p + 1 /\ num[x] = k * p
    <3>1. ~(q <= p - 1)
      <4> SUFFICES ASSUME q <= p - 1 PROVE FALSE
        OBVIOUS
      <4>1. \A u, v, w \in Nat : v <= w => u * v <= u * w
        OBVIOUS
      <4>2. q \in Nat /\ p - 1 \in Nat /\ k \in Nat
        BY <1>1, <1>6
      <4>3. k * q <= k * (p - 1)
        BY <4>1, <4>2
      <4> DEFINE u == k * q
                 v == k * (p - 1)
      <4>4. u <= v /\ v < num[x] /\ num[y] <= u /\ u \in Int /\ v \in Int /\ num[x] \in Int
        BY <1>1, <1>6, <4>3
      <4> HIDE DEF u, v
      <4> QED
        BY <2>1, <4>4
    <3>2. ~(q >= p + 2)
      <4> SUFFICES ASSUME q >= p + 2 PROVE FALSE
        OBVIOUS
      <4>1. \A u, v, w \in Nat : v <= w => u * v <= u * w
        OBVIOUS
      <4>2. q - 1 \in Nat /\ p + 1 \in Nat /\ k \in Nat
        BY <1>1, <1>6
      <4>3. k * (p + 1) <= k * (q - 1) /\ k * (p + 1) = k * p + k
        BY <1>1, <1>6, <4>1, <4>2
      <4> DEFINE u == k * p
                 v == k * (q - 1)
      <4>4. u + k <= v /\ v < num[y] /\ num[x] <= u /\ u \in Int /\ v \in Int /\ num[x] \in Int
        BY <1>1, <1>6, <1>9, <4>3
      <4> HIDE DEF u, v
      <4> QED
        BY <1>1, <2>1, <4>4
    <3>3. q = p + 1
      BY <1>6, <2>2, <3>1, <3>2
    <3>4. k * (q - 1) = k * p
      BY <1>1, <1>6, <3>3
    <3> QED
      BY <1>6, <1>9, <2>1, <3>3, <3>4
  <2>4. Q = f[P]
    <3>1. place[f[P]] = q /\ f[P] \in Seg
      <4>1. p # K
        BY <1>1, <1>6, <2>3
      <4> QED
        BY <1>3, <1>21, <2>3, <4>1
    <3> QED
      BY <1>25, <1>33, <1>17, <3>1
  <2>5. num[z] = num[y]
    <3>1. k * (q - 1) = k * p
      BY <1>1, <1>6, <2>3
    <3> QED
      BY <1>6, <1>9, <2>1, <2>3, <3>1
  <2> QED
    <3>1. y = z
      BY <1>4, <1>32, <1>37, <2>5
    <3>2. z = T.first[f[P]]
      BY <1>24, <2>4
    <3> QED
      BY <1>21, <1>22, <3>1, <3>2
<1> QED
  BY <1>10, <1>11

\* The tree laid over a list is a tree of two levels, in which the list is read.
LEMMA LaidIsTree ==
    ASSUME N > 1, NEW f, NEW place, ListOfTwo(f, place), NEW num, NumberedTour(f, num),
           NEW T, Laid(T, f, num, place), Shape(T, All, Holder)
    PROVE  /\ TreeOfTwo(T, All, Holder, Node, Seg)
           /\ Ahead(T, Seg) = [x \in Node |-> f[x]]
<1> DEFINE K == SegmentCount(2)
<1>1. K \in Nat /\ K > 1 /\ IsFiniteSet(Seg) /\ Cardinality(Seg) = K
  BY NodesCounted, Sizes, TreeNodes
<1> HIDE DEF K
<1>2. Bits(T, Seg) = {}
  BY DEF Bits, Laid
<1>3. Stretches(T, Node, Seg)
  BY LaidStretches
<1>4. T.suc = f
  BY DEF Laid
<1>5. \A P \in Seg : f[P] \in Seg /\ place[P] \in 1..K /\ place[f[P]] = IF place[P] = K THEN 1 ELSE place[P] + 1
  BY DEF ListOfTwo, K
<1>6. \A P, Q \in Seg : place[P] = place[Q] => P = Q
  BY DEF ListOfTwo
<1>7. \A P \in Seg : T.prd[P] \in Seg /\ f[T.prd[P]] = P /\ T.rank[P] = place[P]
  BY DEF Laid
<1>8. \A P, Q \in Seg : f[P] = f[Q] => P = Q
  <2> SUFFICES ASSUME NEW P \in Seg, NEW Q \in Seg, f[P] = f[Q] PROVE P = Q
    OBVIOUS
  <2>1. place[P] \in 1..K /\ place[Q] \in 1..K
        /\ (IF place[P] = K THEN 1 ELSE place[P] + 1) = (IF place[Q] = K THEN 1 ELSE place[Q] + 1)
    BY <1>5
  <2>2. place[P] = place[Q]
    BY <1>1, <2>1
  <2> QED
    BY <1>6, <2>2
<1>9. Linked(Seg, T.suc, T.prd)
  <2>1. \A P \in Seg : f[P] # P
    <3> SUFFICES ASSUME NEW P \in Seg, f[P] = P PROVE FALSE
      OBVIOUS
    <3>1. place[P] \in 1..K /\ place[P] = IF place[P] = K THEN 1 ELSE place[P] + 1
      BY <1>5
    <3> QED
      BY <1>1, <3>1
  <2>2. \A P \in Seg : T.prd[f[P]] = P
    BY <1>5, <1>7, <1>8
  <2> QED
    BY <1>4, <1>5, <1>7, <2>1, <2>2 DEF Linked
<1>10. \A x, y \in Node : f[x] = f[y] => x = y
  BY DEF ListOfTwo, IsTour, Injective
<1>11. Joined(T, Seg, {}, T.suc, T.prd)
  <2> SUFFICES ASSUME NEW P \in Seg
               PROVE  f[T.last[P]] = T.first[f[P]] /\ T.prd[T.first[P]] = T.last[T.prd[P]]
    BY <1>4 DEF Joined, Forth, Back, Entry, Exit
  <2>1. f[T.last[P]] = T.first[f[P]]
    BY LaidJoined
  <2>2. f[T.last[T.prd[P]]] = T.first[P]
    BY <1>7, LaidJoined
  <2>3. /\ T.first[P] \in Node /\ T.last[T.prd[P]] \in Node
        /\ T.prd[T.first[P]] \in Node /\ f[T.prd[T.first[P]]] = T.first[P]
    BY <1>7 DEF Laid
  <2> QED
    BY <1>10, <2>1, <2>2, <2>3
<1>12. RingRanked(T.rank, Seg, T.suc, 1)
  <2>1. \A P \in Seg : T.rank[P] = place[P] /\ T.rank[T.suc[P]] = place[f[P]] /\ T.rank[P] \in 1..(1 + K - 1)
    BY <1>1, <1>4, <1>5, <1>7
  <2>2. \A P \in Seg : \/ T.rank[T.suc[P]] = T.rank[P] + 1
                       \/ T.rank[P] = 1 + K - 1 /\ T.rank[T.suc[P]] = 1
    BY <1>1, <1>5, <2>1
  <2> QED
    BY <1>1, <1>6, <2>1, <2>2 DEF RingRanked
<1>13. TreeOfTwo(T, All, Holder, Node, Seg)
  <2>1. OwnerRing(T, Seg, 1)
    BY <1>9, <1>12 DEF OwnerRing
  <2> QED
    BY <1>2, <1>3, <1>9, <1>11, <2>1 DEF TreeOfTwo, TwoLevels, Level
<1>14. Ahead(T, Seg) = [x \in Node |-> f[x]]
  <2>1. \A x \in Node : Forth(T, Bits(T, Seg), x) = f[x]
    BY <1>2, <1>4 DEF Forth
  <2> QED
    BY <2>1, Zenon DEF Ahead
<1> QED
  BY <1>13, <1>14

-----------------------------------------------------------------------------
(* What Layout makes is laid over its list. *)

\* What P holds.
Held(T, P) == {y \in All : T.parent[y] = P}

\* x has the least, and the greatest, rank of what P holds.
Least(T, P, x) == x \in Held(T, P) /\ \A z \in Held(T, P) : T.rank[x] <= T.rank[z]
Greatest(T, P, x) == x \in Held(T, P) /\ \A z \in Held(T, P) : T.rank[x] >= T.rank[z]

\* The fields that Layout gives a tree of two levels.
LaidOut(T, f) ==
    /\ T.type = 2 /\ T.suc = f
    /\ T.prd = [x \in All |-> T.prd[x]]
    /\ \A x, y \in All : f[y] = x => T.prd[x] \in All /\ f[T.prd[x]] = x
    /\ T.rank = [x \in All |-> IF x < FirstSegment THEN IndexIn(Ring(f, FirstNode), x)
                               ELSE IF x < Top THEN IndexIn(Ring(f, FirstSegment), x)
                               ELSE IndexIn(Ring(f, Top), x)]
    /\ T.parent = [x \in All |->
                      IF x < FirstSegment
                      THEN Ring(f, FirstSegment)[((T.rank[x] - 1) \div SegmentSize(2)) + 1]
                      ELSE IF x < Top THEN Ring(f, Top)[((T.rank[x] - 1) \div SuperSegmentSize(2)) + 1]
                      ELSE Null]
    /\ T.rev = [P \in Holder |-> FALSE]
    /\ T.first = [P \in Holder |-> T.first[P]]
    /\ T.last = [P \in Holder |-> T.last[P]]
    /\ \A P \in Holder, x \in All : /\ Least(T, P, x) => Least(T, P, T.first[P])
                                    /\ Greatest(T, P, x) => Greatest(T, P, T.last[P])
    /\ T.size = [P \in Holder |-> Cardinality(Held(T, P))]

\* The fields, as Layout defines them.
LEMMA LayoutFields ==
    ASSUME NEW f, f \in [All -> All]
    PROVE  /\ LaidOut(Layout(2, f), f)
           /\ Layout(2, f) = [type |-> 2, suc |-> f, prd |-> Layout(2, f).prd, rank |-> Layout(2, f).rank,
                              parent |-> Layout(2, f).parent, rev |-> Layout(2, f).rev,
                              first |-> Layout(2, f).first, last |-> Layout(2, f).last,
                              size |-> Layout(2, f).size]
<1> DEFINE T == Layout(2, f)
           nodes  == Ring(f, FirstNode)
           segs   == Ring(f, FirstSegment)
           supers == Ring(f, FirstSuper(2))
           rank   == [x \in DOMAIN f |->
                         IF x < FirstSegment THEN IndexIn(nodes, x)
                         ELSE IF x < FirstSuper(2) THEN IndexIn(segs, x) ELSE IndexIn(supers, x)]
           piece(x, size) == ((rank[x] - 1) \div size) + 1
           parent == [x \in DOMAIN f |->
                         IF x < FirstSegment THEN segs[piece(x, SegmentSize(2))]
                         ELSE IF x < FirstSuper(2) THEN supers[piece(x, SuperSegmentSize(2))] ELSE Null]
           prd == [x \in DOMAIN f |-> CHOOSE y \in DOMAIN f : f[y] = x]
           held(P) == {x \in DOMAIN f : parent[x] = P}
           owners == FirstSegment..LastSuper(2)
           rev == [P \in owners |-> FALSE]
           first == [P \in owners |-> CHOOSE x \in held(P) : \A y \in held(P) : rank[x] <= rank[y]]
           last == [P \in owners |-> CHOOSE x \in held(P) : \A y \in held(P) : rank[x] >= rank[y]]
           size == [P \in owners |-> Cardinality(held(P))]
<1>1. T = [type |-> 2, suc |-> f, prd |-> prd, rank |-> rank, parent |-> parent, rev |-> rev,
           first |-> first, last |-> last, size |-> size]
  BY DEF Layout
<1>2. All = DOMAIN f /\ owners = Holder /\ FirstSuper(2) = Top
  BY DEF Holder, Top
<1> HIDE DEF rank, parent, prd, rev, first, last, size, T
<1>3. /\ T.type = 2 /\ T.suc = f /\ T.prd = prd /\ T.rank = rank /\ T.parent = parent /\ T.rev = rev
      /\ T.first = first /\ T.last = last /\ T.size = size
  BY <1>1
<1>4. T = [type |-> 2, suc |-> f, prd |-> T.prd, rank |-> T.rank, parent |-> T.parent, rev |-> T.rev,
           first |-> T.first, last |-> T.last, size |-> T.size]
  BY <1>1, <1>3
<1>5. LaidOut(T, f)
  <2>1. /\ T.prd = [x \in All |-> T.prd[x]]
        /\ \A x, y \in All : f[y] = x => T.prd[x] \in All /\ f[T.prd[x]] = x
    <3>1. prd = [x \in All |-> prd[x]]
      BY <1>2 DEF prd
    <3>2. ASSUME NEW x \in All, NEW y \in All, f[y] = x PROVE prd[x] \in All /\ f[prd[x]] = x
      <4>1. prd[x] = CHOOSE w \in DOMAIN f : f[w] = x
        BY <1>2 DEF prd
      <4>2. \E w \in DOMAIN f : f[w] = x
        BY <1>2, <3>2
      <4> QED
        BY <1>2, <4>1, <4>2
    <3> QED
      BY <1>3, <3>1, <3>2
  <2>2. T.rank = [x \in All |-> IF x < FirstSegment THEN IndexIn(Ring(f, FirstNode), x)
                               ELSE IF x < Top THEN IndexIn(Ring(f, FirstSegment), x)
                               ELSE IndexIn(Ring(f, Top), x)]
    BY <1>2, <1>3, Zenon DEF rank
  <2>3. T.parent = [x \in All |->
                      IF x < FirstSegment
                      THEN Ring(f, FirstSegment)[((T.rank[x] - 1) \div SegmentSize(2)) + 1]
                      ELSE IF x < Top THEN Ring(f, Top)[((T.rank[x] - 1) \div SuperSegmentSize(2)) + 1]
                      ELSE Null]
    BY <1>2, <1>3, Zenon DEF parent
  <2>4. T.rev = [P \in Holder |-> FALSE]
    BY <1>2, <1>3, Zenon DEF rev
  <2>5. \A P : held(P) = Held(T, P)
    BY <1>2, <1>3 DEF Held
  <2>6. first = [P \in Holder |-> first[P]] /\ last = [P \in Holder |-> last[P]]
    BY <1>2 DEF first, last
  <2>7. ASSUME NEW P \in Holder
        PROVE  /\ first[P] = CHOOSE x \in held(P) : \A y \in held(P) : rank[x] <= rank[y]
               /\ last[P] = CHOOSE x \in held(P) : \A y \in held(P) : rank[x] >= rank[y]
               /\ size[P] = Cardinality(held(P))
    BY <1>2 DEF first, last, size
  <2> HIDE DEF held
  <2>8. ASSUME NEW P \in Holder, NEW x \in All
        PROVE  /\ Least(T, P, x) => Least(T, P, T.first[P])
               /\ Greatest(T, P, x) => Greatest(T, P, T.last[P])
    <3>1. held(P) = Held(T, P) /\ rank = T.rank
      BY <1>3, <2>5
    <3>2. ASSUME Least(T, P, x) PROVE Least(T, P, T.first[P])
      <4>1. \E w \in held(P) : \A y \in held(P) : rank[w] <= rank[y]
        BY <3>1, <3>2 DEF Least
      <4>2. first[P] \in held(P) /\ \A y \in held(P) : rank[first[P]] <= rank[y]
        BY <2>7, <4>1
      <4> QED
        BY <1>3, <3>1, <4>2 DEF Least
    <3>3. ASSUME Greatest(T, P, x) PROVE Greatest(T, P, T.last[P])
      <4>1. \E w \in held(P) : \A y \in held(P) : rank[w] >= rank[y]
        BY <3>1, <3>3 DEF Greatest
      <4>2. last[P] \in held(P) /\ \A y \in held(P) : rank[last[P]] >= rank[y]
        BY <2>7, <4>1
      <4> QED
        BY <1>3, <3>1, <4>2 DEF Greatest
    <3> QED
      BY <3>2, <3>3
  <2>9. T.size = [P \in Holder |-> Cardinality(Held(T, P))]
    <3>1. \A P \in Holder : size[P] = Cardinality(Held(T, P))
      BY <2>5, <2>7
    <3>2. size = [P \in Holder |-> size[P]]
      BY <1>2 DEF size
    <3> QED
      BY <1>3, <3>1, <3>2, Zenon
  <2>10. T.first = [P \in Holder |-> T.first[P]] /\ T.last = [P \in Holder |-> T.last[P]]
    BY <1>3, <2>6
  <2> QED
    BY <1>3, <2>1, <2>2, <2>3, <2>4, <2>8, <2>9, <2>10 DEF LaidOut
<1> QED
  BY <1>4, <1>5 DEF T

\* A ring that nothing else leads into is gone through in the order of the places.
LEMMA RingFrom ==
    ASSUME N \in Nat, NEW f, NEW D, D \subseteq DOMAIN f, NEW n \in 1..N, NEW num, NEW a \in D, NEW z \in D,
           Numbered(f, D, n, num, a, z), f[z] = a, \A y \in DOMAIN f : f[y] = a => y = z
    PROVE  Visits(Ring(f, a), D, n, num, z)
<1>1. (CHOOSE y \in DOMAIN f : f[y] = a) = z
  <2> DEFINE c == CHOOSE y \in DOMAIN f : f[y] = a
  <2>1. c \in DOMAIN f /\ f[c] = a
    OBVIOUS
  <2> QED
    BY <2>1
<1>2. Ring(f, a) = Path(f, a, z)
  BY <1>1 DEF Ring
<1> QED
  BY <1>2, WalkByNumber

\* As is one whose items are numbered from a on, where no two items have the same
\* successor.
LEMMA RingIs ==
    ASSUME N \in Nat, NEW f, NEW D, D \subseteq DOMAIN f, \A x, y \in DOMAIN f : f[x] = f[y] => x = y,
           NEW n \in 1..N, NEW num, NEW a \in D, NEW z \in D, Numbered(f, D, n, num, a, z), f[z] = a
    PROVE  Visits(Ring(f, a), D, n, num, z)
<1>1. \A y \in DOMAIN f : f[y] = a => y = z
  OBVIOUS
<1> QED
  BY <1>1, RingFrom

\* No two tree nodes have the same successor.
LEMMA ListInjective ==
    ASSUME N > 1, NEW f, NEW place, ListOfTwo(f, place)
    PROVE  /\ \A x, y \in All : f[x] = f[y] => x = y
           /\ \A P \in Seg : \E Q \in Seg : f[Q] = P
           /\ \E z \in Seg : place[z] = SegmentCount(2) /\ f[z] = FirstSegment
<1> DEFINE K == SegmentCount(2)
<1>1. /\ K \in Nat /\ K > 1 /\ IsFiniteSet(Seg) /\ Cardinality(Seg) = K /\ FirstSegment \in Seg
      /\ All = Node \cup Seg \cup {Top} /\ Node \cap Seg = {} /\ Top \notin Node /\ Top \notin Seg
  BY NodesCounted, Sizes, TreeNodes
<1>2. \A P \in Seg : f[P] \in Seg /\ place[P] \in 1..K /\ place[f[P]] = IF place[P] = K THEN 1 ELSE place[P] + 1
  BY DEF ListOfTwo
<1>3. \A P, Q \in Seg : place[P] = place[Q] => P = Q
  BY DEF ListOfTwo
<1>4. \A P, Q \in Seg : f[P] = f[Q] => P = Q
  <2> SUFFICES ASSUME NEW P \in Seg, NEW Q \in Seg, f[P] = f[Q] PROVE P = Q
    OBVIOUS
  <2> HIDE DEF K
  <2>1. place[P] \in 1..K /\ place[Q] \in 1..K
        /\ (IF place[P] = K THEN 1 ELSE place[P] + 1) = (IF place[Q] = K THEN 1 ELSE place[Q] + 1)
    BY <1>2
  <2>2. place[P] = place[Q]
    BY <1>1, <2>1
  <2> QED
    BY <1>3, <2>2
<1>5. \A x, y \in Node : f[x] \in Node /\ (f[x] = f[y] => x = y)
  BY DEF ListOfTwo, IsTour, Injective
<1>6. \A x, y \in All : f[x] = f[y] => x = y
  <2>1. f[Top] = Top
    BY DEF ListOfTwo
  <2> QED
    BY <1>1, <1>2, <1>4, <1>5, <2>1
<1>7. \A P \in Seg : \E Q \in Seg : f[Q] = P
  <2> DEFINE g == [P \in Seg |-> f[P]]
  <2>1. g \in Injection(Seg, Seg)
    BY <1>2, <1>4 DEF Injection, IsInjective
  <2>2. g \in Surjection(Seg, Seg)
    BY <1>1, <2>1, FS_Injection
  <2> QED
    BY <2>2 DEF Surjection
<1>8. \E z \in Seg : place[z] = K /\ f[z] = FirstSegment
  <2>1. PICK z \in Seg : f[z] = FirstSegment
    BY <1>1, <1>7
  <2>2. place[FirstSegment] = 1
    BY DEF ListOfTwo
  <2> HIDE DEF K
  <2>3. place[z] = K
    BY <1>1, <1>2, <2>1, <2>2
  <2> QED
    BY <2>1, <2>3
<1> QED
  BY <1>6, <1>7, <1>8 DEF K

\* The walks that Layout numbers nodes and segments by.
LEMMA ListWalks ==
    ASSUME N > 1, NEW f, NEW place, ListOfTwo(f, place)
    PROVE  \E num : /\ NumberedTour(f, num)
                    /\ \A x \in Node : IndexIn(Ring(f, FirstNode), x) = num[x]
                    /\ \A P \in Seg : IndexIn(Ring(f, FirstSegment), P) = place[P]
                    /\ \A i \in 1..SegmentCount(2) : /\ Ring(f, FirstSegment)[i] \in Seg
                                                     /\ place[Ring(f, FirstSegment)[i]] = i
                    /\ Ring(f, Top)[1] = Top /\ IndexIn(Ring(f, Top), Top) = 1
<1> DEFINE K == SegmentCount(2)
           g == [x \in Node |-> f[x]]
<1>1. /\ N \in Nat /\ K \in 1..N /\ FirstSegment \in Seg
      /\ All = Node \cup Seg \cup {Top} /\ Node \cap Seg = {} /\ Top \notin Node /\ Top \notin Seg
  BY NodesCounted, Sizes, TreeNodes
<1>2. DOMAIN f = All /\ f[Top] = Top /\ IsTour(g) /\ FirstNode \in Node
  BY TreeAssumption DEF ListOfTwo
<1>3. \A x, y \in DOMAIN f : f[x] = f[y] => x = y
  BY <1>2, ListInjective
<1>5. PICK nm : \E w \in Node : Numbered(g, Node, N, nm, FirstNode, w) /\ g[w] = FirstNode
  BY <1>1, <1>2, TourNumbered
<1>6. PICK w \in Node : Numbered(g, Node, N, nm, FirstNode, w) /\ g[w] = FirstNode
  BY <1>5
<1>7. Numbered(f, Node, N, nm, FirstNode, w) /\ f[w] = FirstNode
  BY <1>6 DEF Numbered
<1> HIDE DEF g, K
<1>8. Visits(Ring(f, FirstNode), Node, N, nm, w)
  <2>1. N \in 1..N /\ Node \subseteq DOMAIN f
    BY <1>1, <1>2
  <2> QED
    BY <1>1, <1>2, <1>3, <1>7, <2>1, RingIs
<1>9. NumberedTour(f, nm)
  <2>1. \A x \in Node : nm[x] \in 1..N /\ f[x] \in Node
    BY <1>2, <1>6 DEF Numbered, IsTour, g
  <2>2. \A x \in Node : nm[f[x]] = IF nm[x] = N THEN 1 ELSE nm[x] + 1
    <3> TAKE x \in Node
    <3>1. CASE x = w
      BY <1>7, <3>1 DEF Numbered
    <3>2. CASE x # w
      <4>1. nm[f[x]] = nm[x] + 1 /\ nm[w] = N /\ nm[x] # nm[w]
        BY <1>7, <3>2 DEF Numbered
      <4> QED
        BY <4>1
    <3> QED
      BY <3>1, <3>2
  <2>3. \A x, y \in Node : nm[x] = nm[y] => x = y
    BY <1>7 DEF Numbered
  <2>4. \A i \in 1..N : \E x \in Node : nm[x] = i
    <3>1. N \in Nat \ {0}
      BY <1>1
    <3> QED
      BY <1>2, <1>7, <3>1, NumberedSize
  <2> QED
    BY <2>1, <2>2, <2>3, <2>4 DEF NumberedTour
<1>10. PICK e \in Seg : place[e] = K /\ f[e] = FirstSegment
  BY ListInjective DEF K
<1>11. Numbered(f, Seg, K, place, FirstSegment, e)
  <2>1. \A P \in Seg : /\ f[P] \in Seg /\ place[P] \in 1..K
                       /\ place[f[P]] = IF place[P] = K THEN 1 ELSE place[P] + 1
    BY DEF ListOfTwo, K
  <2>2. \A P, Q \in Seg : place[P] = place[Q] => P = Q
    BY DEF ListOfTwo
  <2>3. place[FirstSegment] = 1
    BY DEF ListOfTwo
  <2>4. \A P \in Seg : P # e => place[f[P]] = place[P] + 1
    BY <1>10, <2>1, <2>2
  <2> QED
    BY <1>10, <2>1, <2>2, <2>3, <2>4 DEF Numbered
<1>12. Visits(Ring(f, FirstSegment), Seg, K, place, e)
  <2>1. Seg \subseteq DOMAIN f
    BY <1>1, <1>2
  <2> QED
    BY <1>1, <1>3, <1>10, <1>11, <2>1, RingIs
<1>13. Visits(Ring(f, Top), {Top}, 1, [x \in {Top} |-> 1], Top)
  <2>1. Numbered(f, {Top}, 1, [x \in {Top} |-> 1], Top, Top)
    BY DEF Numbered
  <2>2. {Top} \subseteq DOMAIN f /\ 1 \in 1..N
    BY <1>1, <1>2
  <2> QED
    BY <1>1, <1>2, <1>3, <2>1, <2>2, RingIs
<1>14. Ring(f, Top)[1] = Top /\ IndexIn(Ring(f, Top), Top) = 1
  BY <1>13 DEF Visits
<1>15. \A x \in Node : IndexIn(Ring(f, FirstNode), x) = nm[x]
  BY <1>8 DEF Visits
<1>16. \A P \in Seg : IndexIn(Ring(f, FirstSegment), P) = place[P]
  BY <1>12 DEF Visits
<1>17. \A i \in 1..K : Ring(f, FirstSegment)[i] \in Seg /\ place[Ring(f, FirstSegment)[i]] = i
  BY <1>12 DEF Visits
<1> QED
  BY <1>9, <1>14, <1>15, <1>16, <1>17, Zenon DEF K

\* x is in P's piece of the numbers.
InPiece(num, place, x, P) ==
    SegmentSize(2) * (place[P] - 1) < num[x] /\ num[x] <= SegmentSize(2) * place[P]

\* Nodes and segments get the parents of their pieces, and their ranks.
LEMMA LayoutParents ==
    ASSUME N > 1, NEW f, NEW place, ListOfTwo(f, place), NEW num, NumberedTour(f, num),
           \A x \in Node : IndexIn(Ring(f, FirstNode), x) = num[x],
           \A P \in Seg : IndexIn(Ring(f, FirstSegment), P) = place[P],
           \A i \in 1..SegmentCount(2) : /\ Ring(f, FirstSegment)[i] \in Seg
                                         /\ place[Ring(f, FirstSegment)[i]] = i,
           Ring(f, Top)[1] = Top, IndexIn(Ring(f, Top), Top) = 1,
           NEW T, LaidOut(T, f)
    PROVE  /\ \A x \in Node : /\ T.rank[x] = num[x] /\ T.parent[x] \in Seg
                              /\ InPiece(num, place, x, T.parent[x])
           /\ \A P \in Seg : T.rank[P] = place[P] /\ T.parent[P] = Top
           /\ T.rank[Top] = 1 /\ T.parent[Top] = Null
<1> DEFINE K == SegmentCount(2)  k == SegmentSize(2)
<1>1. /\ N \in Nat /\ k \in Nat \ {0} /\ K \in 1..N /\ N <= K * k
      /\ SuperSegmentSize(2) = N
  BY NodesCounted, Sizes
<1>2. /\ All = Node \cup Seg \cup {Top} /\ Node \cap Seg = {} /\ Top \notin Node /\ Top \notin Seg
      /\ \A x \in Node : x < FirstSegment
      /\ \A P \in Seg : ~(P < FirstSegment) /\ P < Top
      /\ ~(Top < FirstSegment) /\ ~(Top < Top)
  BY TreeNodes
<1>3. \A x \in Node : num[x] \in 1..N
  BY DEF NumberedTour
<1>4. \A P \in Seg : place[P] \in 1..K
  BY DEF ListOfTwo
<1> HIDE DEF K, k
<1>5. /\ \A x \in Node : T.rank[x] = num[x]
      /\ \A P \in Seg : T.rank[P] = place[P]
      /\ T.rank[Top] = 1
  <2>1. \A x \in All : T.rank[x] = IF x < FirstSegment THEN IndexIn(Ring(f, FirstNode), x)
                                   ELSE IF x < Top THEN IndexIn(Ring(f, FirstSegment), x)
                                   ELSE IndexIn(Ring(f, Top), x)
    BY DEF LaidOut
  <2>2. ASSUME NEW x \in Node PROVE T.rank[x] = num[x]
    BY <1>2, <2>1
  <2>3. ASSUME NEW P \in Seg PROVE T.rank[P] = place[P]
    BY <1>2, <2>1
  <2>4. T.rank[Top] = 1
    BY <1>2, <2>1
  <2> QED
    BY <2>2, <2>3, <2>4
<1>6. \A x \in All : T.parent[x] =
         IF x < FirstSegment THEN Ring(f, FirstSegment)[((T.rank[x] - 1) \div k) + 1]
         ELSE IF x < Top THEN Ring(f, Top)[((T.rank[x] - 1) \div N) + 1]
         ELSE Null
  BY <1>1 DEF LaidOut, k
<1>7. ASSUME NEW x \in Node PROVE T.parent[x] \in Seg /\ InPiece(num, place, x, T.parent[x])
  <2> DEFINE m == num[x] - 1
             d == m \div k
             P == T.parent[x]
  <2>1. P = Ring(f, FirstSegment)[d + 1]
    <3>1. T.rank[x] = num[x] /\ x < FirstSegment /\ x \in All
      BY <1>2, <1>5
    <3> QED
      BY <1>6, <3>1
  <2>2. m \in Nat /\ num[x] = m + 1 /\ m < N
    BY <1>1, <1>3
  <2> HIDE DEF m, P
  <2>3. d \in Nat /\ k * d <= m /\ m < k * d + k
    BY <1>1, <2>2, DivIs
  <2> HIDE DEF d
  <2>4. d + 1 \in 1..K
    <3> SUFFICES ASSUME K <= d PROVE FALSE
      BY <1>1, <2>3
    <3>1. \A a, b, c \in Nat : b <= c => a * b <= a * c
      OBVIOUS
    <3>2. k * K <= k * d
      BY <1>1, <2>3, <3>1
    <3> DEFINE u == k * K
               v == k * d
    <3>3. u <= v /\ v <= m /\ N <= u /\ u \in Int /\ v \in Int
      BY <1>1, <2>3, <3>2
    <3> HIDE DEF u, v
    <3> QED
      BY <1>1, <2>2, <3>3
  <2>5. P \in Seg /\ place[P] = d + 1
    BY <2>1, <2>4 DEF K
  <2>6. k * (place[P] - 1) < num[x] /\ num[x] <= k * place[P]
    <3>1. place[P] - 1 = d /\ k * place[P] = k * d + k /\ k * d \in Int
      BY <1>1, <2>3, <2>5
    <3> DEFINE u == k * d
    <3>2. u <= m /\ m < u + k /\ u \in Int
      BY <2>3, <3>1
    <3>3. k * (place[P] - 1) = u /\ k * place[P] = u + k
      BY <3>1
    <3> HIDE DEF u
    <3> QED
      BY <1>1, <2>2, <3>2, <3>3
  <2> QED
    BY <2>5, <2>6 DEF P, InPiece, k
<1>8. ASSUME NEW P \in Seg PROVE T.parent[P] = Top
  <2>1. place[P] - 1 \in Nat /\ place[P] - 1 < N
    BY <1>1, <1>4
  <2>2. (place[P] - 1) \div N = 0
    BY <1>1, <2>1
  <2>3. T.parent[P] = Ring(f, Top)[((T.rank[P] - 1) \div N) + 1]
    BY <1>2, <1>6
  <2> QED
    BY <1>5, <2>2, <2>3
<1>9. T.parent[Top] = Null
  BY <1>2, <1>6
<1> QED
  BY <1>5, <1>7, <1>8, <1>9

\* Every piece has a least and a greatest number.
LEMMA PieceEnds ==
    ASSUME N > 1, NEW f, NEW place, ListOfTwo(f, place), NEW num, NumberedTour(f, num), NEW P \in Seg
    PROVE  /\ \E x \in Node : /\ InPiece(num, place, x, P)
                              /\ \A y \in Node : InPiece(num, place, y, P) => num[x] <= num[y]
           /\ \E x \in Node : /\ InPiece(num, place, x, P)
                              /\ \A y \in Node : InPiece(num, place, y, P) => num[x] >= num[y]
<1> DEFINE K == SegmentCount(2)  k == SegmentSize(2)  p == place[P]
           u == k * (p - 1)
           v == k * p
           e == IF v < N THEN v ELSE N
<1>1. N \in Nat /\ k \in Nat \ {0} /\ K \in Nat /\ (K - 1) * k < N
  BY NodesCounted, Sizes
<1>2. p \in 1..K
  BY DEF ListOfTwo
<1>3. \A y \in Node : num[y] \in 1..N
  BY DEF NumberedTour
<1>4. \A i \in 1..N : \E x \in Node : num[x] = i
  BY DEF NumberedTour
<1>5. \A y \in Node : InPiece(num, place, y, P) <=> u < num[y] /\ num[y] <= v
  BY DEF InPiece
<1> HIDE DEF K, k, p
<1>6. u \in Nat /\ v = u + k
  <2>1. \A a, b \in Nat : a * b \in Nat
    OBVIOUS
  <2>2. p - 1 \in Nat /\ k \in Nat
    BY <1>1, <1>2
  <2>3. k * p = k * (p - 1) + k
    BY <1>1, <1>2
  <2> QED
    BY <2>1, <2>2, <2>3
<1>7. u < N
  <2>1. \A a, b, c \in Nat : b <= c => a * b <= a * c
    OBVIOUS
  <2>2. p - 1 \in Nat /\ K - 1 \in Nat /\ p - 1 <= K - 1 /\ k \in Nat
    BY <1>1, <1>2
  <2>3. u <= k * (K - 1)
    BY <2>1, <2>2
  <2>4. k * (K - 1) = (K - 1) * k /\ k * (K - 1) \in Int
    BY <2>2
  <2> DEFINE w == k * (K - 1)
  <2>5. u <= w /\ w < N /\ w \in Int
    BY <1>1, <2>3, <2>4
  <2> HIDE DEF u, w
  <2> QED
    BY <1>1, <1>6, <2>5
<1> HIDE DEF u, v
<1>8. u + 1 \in 1..N /\ u < u + 1 /\ u + 1 <= v
  BY <1>1, <1>6, <1>7
<1>9. e \in 1..N /\ u < e /\ e <= v
  BY <1>1, <1>6, <1>7
<1>10. PICK x \in Node : num[x] = u + 1
  BY <1>4, <1>8
<1>11. PICK y \in Node : num[y] = e
  BY <1>4, <1>9
<1>12. InPiece(num, place, x, P) /\ \A w \in Node : InPiece(num, place, w, P) => num[x] <= num[w]
  <2>1. InPiece(num, place, x, P)
    BY <1>5, <1>8, <1>10
  <2>2. ASSUME NEW w \in Node, u < num[w] PROVE num[x] <= num[w]
    BY <1>3, <1>6, <1>10, <2>2
  <2> QED
    BY <1>5, <2>1, <2>2
<1>13. InPiece(num, place, y, P) /\ \A w \in Node : InPiece(num, place, w, P) => num[y] >= num[w]
  <2>1. InPiece(num, place, y, P)
    BY <1>5, <1>9, <1>11
  <2>2. ASSUME NEW w \in Node, num[w] <= v PROVE num[y] >= num[w]
    <3>1. num[w] \in 1..N
      BY <1>3
    <3> QED
      BY <1>1, <1>6, <1>11, <2>2, <3>1
  <2> QED
    BY <1>5, <2>1, <2>2
<1> QED
  BY <1>12, <1>13

\* The tree that Layout makes is laid over its list.
LEMMA LayoutIs ==
    ASSUME N > 1, NEW f, NEW place, ListOfTwo(f, place)
    PROVE  \E num : /\ NumberedTour(f, num) /\ Laid(Layout(2, f), f, num, place)
                    /\ Shape(Layout(2, f), All, Holder)
                    /\ Layout(2, f).parent[Top] = Null
<1> DEFINE T == Layout(2, f)  k == SegmentSize(2)
<1>1. f \in [All -> All]
  BY DEF ListOfTwo
<1>2. LaidOut(T, f)
  BY <1>1, LayoutFields
<1>3. PICK num : /\ NumberedTour(f, num)
                 /\ \A x \in Node : IndexIn(Ring(f, FirstNode), x) = num[x]
                 /\ \A P \in Seg : IndexIn(Ring(f, FirstSegment), P) = place[P]
                 /\ \A i \in 1..SegmentCount(2) : /\ Ring(f, FirstSegment)[i] \in Seg
                                                  /\ place[Ring(f, FirstSegment)[i]] = i
                 /\ Ring(f, Top)[1] = Top /\ IndexIn(Ring(f, Top), Top) = 1
  BY ListWalks
<1>4. T = [type |-> 2, suc |-> f, prd |-> T.prd, rank |-> T.rank, parent |-> T.parent, rev |-> T.rev,
           first |-> T.first, last |-> T.last, size |-> T.size]
  BY <1>1, LayoutFields
<1> HIDE DEF T
<1>5. /\ \A x \in Node : T.rank[x] = num[x] /\ T.parent[x] \in Seg /\ InPiece(num, place, x, T.parent[x])
      /\ \A P \in Seg : T.rank[P] = place[P] /\ T.parent[P] = Top
      /\ T.rank[Top] = 1 /\ T.parent[Top] = Null
  <2> HIDE DEF k
  <2> QED
    BY <1>2, <1>3, LayoutParents
<1>6. /\ All = Node \cup Seg \cup {Top} /\ Holder = Seg \cup {Top} /\ FirstSegment \in Seg
      /\ Node \cap Seg = {} /\ Top \notin Node /\ Top \notin Seg /\ Null \notin Seg /\ Null # Top
  <2>1. Top = N + SegmentCount(2) + 1 /\ N \in Nat /\ SegmentCount(2) \in 2..N
    BY TreeNodes, NodesCounted, Sizes
  <2>2. Null # Top
    BY <2>1 DEF Null
  <2> QED
    BY <2>2, TreeNodes DEF Universe
<1>7. \A x \in Node : num[x] \in 1..N /\ num[x] \in Int
  BY <1>3, NodesCounted DEF NumberedTour
<1>8. \A P \in Seg : place[P] \in 1..SegmentCount(2) /\ place[P] \in Nat
  BY Sizes, NodesCounted DEF ListOfTwo
\* A node is in the piece of its parent and in no other.
<1>9. ASSUME NEW P \in Seg, NEW x \in Node PROVE T.parent[x] = P <=> InPiece(num, place, x, P)
  <2> DEFINE Q == T.parent[x]
  <2>1. Q \in Seg /\ InPiece(num, place, x, Q)
    BY <1>5
  <2> HIDE DEF Q
  <2>2. ASSUME InPiece(num, place, x, P) PROVE Q = P
    <3>1. place[P] \in Nat /\ place[Q] \in Nat /\ k \in Nat \ {0} /\ num[x] \in Nat
      BY <1>7, <1>8, <2>1, Sizes, NodesCounted
    <3>2. /\ k * (place[P] - 1) < num[x] /\ num[x] <= k * place[P]
          /\ k * (place[Q] - 1) < num[x] /\ num[x] <= k * place[Q]
      BY <2>1, <2>2 DEF InPiece
    <3> HIDE DEF k
    <3>3. place[P] = place[Q]
      BY <3>1, <3>2, PieceUnique
    <3> QED
      BY <2>1, <3>3 DEF ListOfTwo
  <2> QED
    BY <2>1, <2>2 DEF Q
<1>10. ASSUME NEW P \in Seg PROVE Held(T, P) = {x \in Node : T.parent[x] = P}
  BY <1>5, <1>6 DEF Held
<1>11. Held(T, Top) = Seg
  BY <1>5, <1>6 DEF Held
\* First and last.
<1>21. \A P \in Holder, x \in All : /\ Least(T, P, x) => Least(T, P, T.first[P])
                                    /\ Greatest(T, P, x) => Greatest(T, P, T.last[P])
  BY <1>2 DEF LaidOut
<1>12. ASSUME NEW P \in Seg PROVE Least(T, P, T.first[P]) /\ Greatest(T, P, T.last[P])
  <2>1. PICK x \in Node : /\ InPiece(num, place, x, P)
                          /\ \A y \in Node : InPiece(num, place, y, P) => num[x] <= num[y]
    BY <1>3, PieceEnds
  <2>2. PICK z \in Node : /\ InPiece(num, place, z, P)
                          /\ \A y \in Node : InPiece(num, place, y, P) => num[z] >= num[y]
    BY <1>3, PieceEnds
  <2>3. Least(T, P, x)
    <3>1. x \in Held(T, P)
      BY <1>9, <1>10, <2>1
    <3>2. ASSUME NEW y \in Held(T, P) PROVE T.rank[x] <= T.rank[y]
      <4>1. y \in Node /\ InPiece(num, place, y, P)
        BY <1>9, <1>10
      <4> QED
        BY <1>5, <2>1, <4>1
    <3> QED
      BY <3>1, <3>2 DEF Least
  <2>4. Greatest(T, P, z)
    <3>1. z \in Held(T, P)
      BY <1>9, <1>10, <2>2
    <3>2. ASSUME NEW y \in Held(T, P) PROVE T.rank[z] >= T.rank[y]
      <4>1. y \in Node /\ InPiece(num, place, y, P)
        BY <1>9, <1>10
      <4> QED
        BY <1>5, <2>2, <4>1
    <3> QED
      BY <3>1, <3>2 DEF Greatest
  <2> QED
    <3>1. P \in Holder /\ x \in All /\ z \in All
      BY <1>6
    <3> QED
      BY <1>21, <2>3, <2>4, <3>1, Zenon
<1>13. T.first[Top] \in All /\ T.last[Top] \in All
  <2>1. PICK z \in Seg : place[z] = SegmentCount(2)
    BY ListInjective
  <2>2. Least(T, Top, FirstSegment)
    <3>1. place[FirstSegment] = 1
      BY DEF ListOfTwo
    <3> QED
      BY <1>5, <1>6, <1>8, <1>11, <3>1 DEF Least
  <2>3. Greatest(T, Top, z)
    <3>1. \A P \in Seg : place[P] <= SegmentCount(2)
      BY <1>8, Sizes, NodesCounted
    <3> QED
      BY <1>5, <1>11, <2>1, <3>1 DEF Greatest
  <2>4. Least(T, Top, T.first[Top]) /\ Greatest(T, Top, T.last[Top])
    <3>1. Top \in Holder /\ FirstSegment \in All /\ z \in All
      BY <1>6
    <3> QED
      BY <1>21, <2>2, <2>3, <3>1, Zenon
  <2> QED
    BY <2>4 DEF Least, Greatest, Held
\* Predecessors.
<1>14. ASSUME NEW x \in Node PROVE T.prd[x] \in Node /\ f[T.prd[x]] = x
  <2>1. \A y \in Node : f[y] \in Node /\ num[f[y]] = IF num[y] = N THEN 1 ELSE num[y] + 1
    BY <1>3 DEF NumberedTour
  <2>2. PICK y \in Node : num[y] = IF num[x] = 1 THEN N ELSE num[x] - 1
    <3>1. (IF num[x] = 1 THEN N ELSE num[x] - 1) \in 1..N
      BY <1>7, NodesCounted
    <3> QED
      BY <1>3, <3>1 DEF NumberedTour
  <2>3. num[f[y]] = num[x] /\ f[y] \in Node
    BY <1>7, <2>1, <2>2, NodesCounted
  <2>4. f[y] = x
    BY <1>3, <2>3 DEF NumberedTour
  <2>5. T.prd[x] \in All /\ f[T.prd[x]] = x
    BY <1>2, <1>6, <2>4 DEF LaidOut
  <2>6. f[Top] = Top /\ \A P \in Seg : f[P] \in Seg
    BY DEF ListOfTwo
  <2> QED
    BY <1>6, <2>5, <2>6
<1>15. ASSUME NEW P \in Seg PROVE T.prd[P] \in Seg /\ f[T.prd[P]] = P
  <2>1. PICK Q \in Seg : f[Q] = P
    BY ListInjective
  <2>2. T.prd[P] \in All /\ f[T.prd[P]] = P
    BY <1>2, <1>6, <2>1 DEF LaidOut
  <2>3. f[Top] = Top
    BY DEF ListOfTwo
  <2>4. \A x \in Node : f[x] \in Node
    BY <1>3 DEF NumberedTour
  <2> QED
    BY <1>6, <2>2, <2>3, <2>4
<1>16. T.prd[Top] \in All
  <2>1. f[Top] = Top
    BY DEF ListOfTwo
  <2> QED
    BY <1>2, <1>6, <2>1 DEF LaidOut
<1>17. \A P \in Holder : ~T.rev[P]
  <2>1. T.rev = [P \in Holder |-> FALSE]
    BY <1>2 DEF LaidOut
  <2> QED
    BY <2>1, Zenon
<1>18. ASSUME NEW P \in Seg PROVE T.size[P] = Cardinality({x \in Node : T.parent[x] = P})
  <2>1. T.size[P] = Cardinality(Held(T, P))
    BY <1>2, <1>6 DEF LaidOut
  <2> QED
    BY <1>10, <2>1
<1>19. Laid(T, f, num, place)
  <2>1. T.type = 2 /\ T.suc = f
    BY <1>2 DEF LaidOut
  <2>2. ASSUME NEW x \in Node
        PROVE  /\ T.prd[x] \in Node /\ f[T.prd[x]] = x
               /\ T.rank[x] = num[x] /\ T.parent[x] \in Seg
               /\ k * (place[T.parent[x]] - 1) < num[x] /\ num[x] <= k * place[T.parent[x]]
    BY <1>5, <1>14 DEF InPiece
  <2>3. ASSUME NEW P \in Seg
        PROVE  /\ T.prd[P] \in Seg /\ f[T.prd[P]] = P
               /\ T.rank[P] = place[P] /\ T.parent[P] = Top
               /\ T.first[P] \in Node /\ T.parent[T.first[P]] = P
               /\ T.last[P] \in Node /\ T.parent[T.last[P]] = P
               /\ T.size[P] = Cardinality({x \in Node : T.parent[x] = P})
               /\ ~T.rev[P]
    <3>1. T.first[P] \in Held(T, P) /\ T.last[P] \in Held(T, P)
      BY <1>12 DEF Least, Greatest
    <3> QED
      BY <1>5, <1>6, <1>10, <1>15, <1>17, <1>18, <3>1
  <2>4. ASSUME NEW x \in Node
        PROVE  num[T.first[T.parent[x]]] <= num[x] /\ num[x] <= num[T.last[T.parent[x]]]
    <3> DEFINE P == T.parent[x]
    <3>1. P \in Seg
      BY <1>5
    <3>2. x \in Held(T, P)
      BY <3>1, <1>10
    <3> HIDE DEF P
    <3>3. T.first[P] \in Node /\ T.last[P] \in Node
      BY <2>3, <3>1
    <3>4. T.rank[T.first[P]] <= T.rank[x] /\ T.rank[T.last[P]] >= T.rank[x]
      BY <1>12, <3>1, <3>2 DEF Least, Greatest
    <3>5. num[T.first[P]] <= num[x] /\ num[T.last[P]] >= num[x]
      BY <1>5, <3>3, <3>4
    <3>6. num[T.last[P]] \in Int /\ num[x] \in Int
      BY <1>7, <3>3
    <3> QED
      BY <3>5, <3>6 DEF P
  <2>5. ~T.rev[Top]
    BY <1>6, <1>17
  <2> HIDE DEF k
  <2> QED
    BY <2>1, <2>2, <2>3, <2>4, <2>5 DEF Laid, k
<1>20. Shape(T, All, Holder)
  <2>1. T.type = 2 /\ T.suc \in [All -> All]
    BY <1>1, <1>2 DEF LaidOut
  <2>2. T.prd \in [All -> All]
    <3>1. T.prd = [x \in All |-> T.prd[x]]
      BY <1>2 DEF LaidOut
    <3>2. \A x \in All : T.prd[x] \in All
      BY <1>6, <1>14, <1>15, <1>16
    <3> QED
      BY <3>1, <3>2
  <2>3. T.rank \in [All -> Int]
    <3>1. T.rank = [x \in All |-> T.rank[x]]
      BY <1>2 DEF LaidOut
    <3>2. \A x \in All : T.rank[x] \in Int
      BY <1>5, <1>6, <1>7, <1>8
    <3> QED
      BY <3>1, <3>2
  <2>4. T.parent \in [All -> All \cup {Null}]
    <3>1. T.parent = [x \in All |-> T.parent[x]]
      BY <1>2 DEF LaidOut
    <3>2. \A x \in All : T.parent[x] \in All \cup {Null}
      BY <1>5, <1>6
    <3> QED
      BY <3>1, <3>2
  <2>5. T.rev \in [Holder -> BOOLEAN]
    BY <1>2 DEF LaidOut
  <2>6. T.first \in [Holder -> All] /\ T.last \in [Holder -> All]
    <3>1. T.first = [P \in Holder |-> T.first[P]] /\ T.last = [P \in Holder |-> T.last[P]]
      BY <1>2 DEF LaidOut
    <3>2. \A P \in Holder : T.first[P] \in All /\ T.last[P] \in All
      BY <1>6, <1>12, <1>13 DEF Least, Greatest, Held
    <3> QED
      BY <3>1, <3>2
  <2>7. T.size \in [Holder -> Int]
    <3>1. \A P \in Holder : IsFiniteSet(Held(T, P))
      <4>1. IsFiniteSet(Node) /\ IsFiniteSet(Seg)
        BY NodesCounted, TreeNodes
      <4>2. \A P \in Seg : Held(T, P) \subseteq Node
        BY <1>10
      <4> QED
        BY <1>6, <1>11, <4>1, <4>2, FS_Subset
    <3>2. \A P \in Holder : Cardinality(Held(T, P)) \in Int
      BY <3>1, FS_CardinalityType
    <3> QED
      BY <1>2, <3>2 DEF LaidOut
  <2> QED
    BY <1>4, <2>1, <2>2, <2>3, <2>4, <2>5, <2>6, <2>7 DEF Shape
<1> QED
  BY <1>3, <1>5, <1>19, <1>20 DEF T

-----------------------------------------------------------------------------
(* The tree when LinKernighan is entered, first and again. *)

\* A tree of two levels under one super segment.
GoodTree(T) ==
    /\ T.type = 2 /\ TreeOfTwo(T, All, Holder, Node, Seg)
    /\ T.suc[Top] = Top /\ T.parent[Top] = Null /\ ~T.rev[Top]
    /\ \A P \in Seg : T.parent[P] = Top

\* The tree laid over a list is such a tree, and it is read as the list.
LEMMA LayoutOfList ==
    ASSUME N > 1, NEW f, NEW place, ListOfTwo(f, place)
    PROVE  GoodTree(Layout(2, f)) /\ Ahead(Layout(2, f), Seg) = [x \in Node |-> f[x]]
<1> DEFINE T == Layout(2, f)
<1>1. PICK num : /\ NumberedTour(f, num) /\ Laid(T, f, num, place) /\ Shape(T, All, Holder)
                 /\ T.parent[Top] = Null
  BY LayoutIs
<1> HIDE DEF T
<1>2. TreeOfTwo(T, All, Holder, Node, Seg) /\ Ahead(T, Seg) = [x \in Node |-> f[x]]
  BY <1>1, LaidIsTree
<1>3. T.type = 2 /\ T.suc[Top] = Top /\ ~T.rev[Top] /\ \A P \in Seg : T.parent[P] = Top
  BY <1>1 DEF Laid, ListOfTwo
<1> QED
  BY <1>1, <1>2, <1>3 DEF GoodTree, T

\* The rings that AllocateSegments links.
LEMMA AllocatedList ==
    ASSUME N > 1, NEW f \in Tours
    PROVE  /\ ListOfTwo(AllocateSegments(2, f), [P \in Seg |-> P - N])
           /\ [x \in Node |-> AllocateSegments(2, f)[x]] = f
<1> DEFINE K == SegmentCount(2)  h == AllocateSegments(2, f)
<1>1. N \in Nat /\ K \in 2..N
  BY NodesCounted, Sizes
<1>2. /\ Seg = (N + 1)..(N + K) /\ FirstSegment = N + 1 /\ FirstSegment \in Seg
      /\ Top = N + K + 1 /\ LastSuper(2) = Top /\ FirstSuper(2) = Top
      /\ All = Node \cup Seg \cup {Top} /\ Node \cap Seg = {} /\ Top \notin Node /\ Top \notin Seg
  BY TreeNodes DEF Top
<1>3. f \in [Node -> Node] /\ IsTour(f)
  BY DEF Tours, IsTour
<1>4. h = [x \in All |-> IF x \in Node THEN f[x]
                         ELSE IF x = Top - 1 THEN FirstSegment
                         ELSE IF x = Top THEN Top ELSE x + 1]
  BY <1>2, Zenon DEF AllocateSegments, All
<1> HIDE DEF h, K
<1>5. ASSUME NEW x \in Node PROVE h[x] = f[x] /\ h[x] \in Node
  BY <1>2, <1>3, <1>4
<1>6. h[Top] = Top
  BY <1>1, <1>2, <1>4
<1>7. ASSUME NEW P \in Seg PROVE h[P] = IF P = N + K THEN N + 1 ELSE P + 1
  <2>1. h[P] = IF P = Top - 1 THEN FirstSegment ELSE IF P = Top THEN Top ELSE P + 1
    BY <1>2, <1>4
  <2> QED
    BY <1>1, <1>2, <2>1
<1>8. ASSUME NEW P \in Seg
      PROVE  /\ h[P] \in Seg /\ P - N \in 1..K
             /\ h[P] - N = IF P - N = K THEN 1 ELSE (P - N) + 1
  <2>1. P \in (N + 1)..(N + K)
    BY <1>2
  <2>2. CASE P = N + K
    BY <1>1, <1>2, <1>7, <2>2
  <2>3. CASE P # N + K
    <3>1. h[P] = P + 1
      BY <1>7, <2>3
    <3> QED
      BY <1>1, <1>2, <2>1, <2>3, <3>1
  <2> QED
    BY <2>2, <2>3
<1>9. [x \in Node |-> h[x]] = f
  <2>1. \A x \in Node : h[x] = f[x]
    BY <1>5
  <2>2. f = [x \in Node |-> f[x]]
    BY <1>3
  <2> QED
    BY <2>1, <2>2, Zenon
<1>10. h \in [All -> All]
  <2>1. \A x \in All : h[x] \in All
    BY <1>2, <1>5, <1>6, <1>8
  <2>2. h = [x \in All |-> h[x]]
    BY <1>4
  <2> QED
    BY <2>1, <2>2
<1>11. ListOfTwo(h, [P \in Seg |-> P - N])
  <2> DEFINE place == [P \in Seg |-> P - N]
  <2>1. \A P \in Seg : place[P] = P - N /\ P \in Int
    BY <1>1, <1>2
  <2> HIDE DEF place
  <2>2. \A P \in Seg : /\ h[P] \in Seg /\ place[P] \in 1..K
                       /\ place[h[P]] = IF place[P] = K THEN 1 ELSE place[P] + 1
    BY <1>8, <2>1
  <2>3. \A P, Q \in Seg : place[P] = place[Q] => P = Q
    BY <1>1, <2>1
  <2>4. place[FirstSegment] = 1
    BY <1>1, <1>2, <2>1
  <2> QED
    BY <1>3, <1>6, <1>9, <1>10, <2>2, <2>3, <2>4 DEF ListOfTwo, K, place
<1> QED
  BY <1>9, <1>11 DEF h

\* The lists that LinKernighan leaves are the tour as it is read, and the ring of
\* segments.
LEMMA NormalizedIsList ==
    ASSUME N > 1, NEW T, GoodTree(T), IsTour(SucIn(T))
    PROVE  /\ \E place : ListOfTwo(NormalizedList(T), place)
           /\ [x \in Node |-> NormalizedList(T)[x]] = SucIn(T)
<1> DEFINE h == NormalizedList(T)  K == SegmentCount(2)
<1>1. /\ Universe(All, Holder, Node, Seg) /\ IsFiniteSet(Seg) /\ Cardinality(Seg) = K
      /\ FirstSegment \in Seg /\ All = Node \cup Seg \cup {Top}
      /\ Node \cap Seg = {} /\ Top \notin Node /\ Top \notin Seg
  BY TreeNodes
<1>2. Shape(T, All, Holder) /\ T.suc \in [All -> All]
  BY DEF GoodTree, TreeOfTwo, TwoLevels, Shape
<1>3. SucIn(T) \in [Node -> Node]
  BY DEF IsTour
<1>4. h = [x \in All |-> IF x \in Node THEN SucIn(T)[x]
                         ELSE IF T.parent[x] # Null /\ T.rev[T.parent[x]] THEN T.prd[x] ELSE T.suc[x]]
  BY <1>2 DEF NormalizedList
<1> HIDE DEF h, K
<1>5. ASSUME NEW x \in Node PROVE h[x] = SucIn(T)[x] /\ h[x] \in Node
  BY <1>1, <1>3, <1>4
<1>6. ASSUME NEW P \in Seg PROVE h[P] = T.suc[P]
  <2>1. ~T.rev[T.parent[P]]
    BY DEF GoodTree
  <2> QED
    BY <1>1, <1>4, <2>1
<1>7. h[Top] = Top
  <2>1. T.parent[Top] = Null /\ T.suc[Top] = Top
    BY DEF GoodTree
  <2> QED
    BY <1>1, <1>4, <2>1
<1>8. PICK b \in Int : Linked(Seg, T.suc, T.prd) /\ RingRanked(T.rank, Seg, T.suc, b)
  BY DEF GoodTree, TreeOfTwo, OwnerRing
<1>9. \A P \in Seg : T.suc[P] \in Seg
  BY <1>8 DEF Linked
<1> DEFINE place == [P \in Seg |-> PlaceFrom(T.rank, K, FirstSegment, P)]
<1>10. /\ place[FirstSegment] = 1
       /\ \A P \in Seg : place[P] \in 1..K
       /\ \A P, Q \in Seg : place[P] = place[Q] => P = Q
       /\ \A P \in Seg : place[T.suc[P]] = IF place[P] = K THEN 1 ELSE place[P] + 1
  <2>1. /\ PlaceFrom(T.rank, K, FirstSegment, FirstSegment) = 1
        /\ \A P \in Seg : PlaceFrom(T.rank, K, FirstSegment, P) \in 1..K
        /\ \A P, Q \in Seg : PlaceFrom(T.rank, K, FirstSegment, P) = PlaceFrom(T.rank, K, FirstSegment, Q)
                                 => P = Q
        /\ \A P \in Seg : PlaceFrom(T.rank, K, FirstSegment, T.suc[P])
                             = IF PlaceFrom(T.rank, K, FirstSegment, P) = K THEN 1
                               ELSE PlaceFrom(T.rank, K, FirstSegment, P) + 1
    BY <1>1, <1>8, <1>9, RingPlaces
  <2>2. \A P \in Seg : place[P] = PlaceFrom(T.rank, K, FirstSegment, P)
    OBVIOUS
  <2> HIDE DEF place
  <2> QED
    BY <1>1, <1>9, <2>1, <2>2
<1> HIDE DEF place
<1>11. [x \in Node |-> h[x]] = SucIn(T)
  <2>1. SucIn(T) = [x \in Node |-> SucIn(T)[x]]
    BY <1>3
  <2>2. \A x \in Node : h[x] = SucIn(T)[x]
    BY <1>5
  <2> QED
    BY <2>1, <2>2, Zenon
<1>12. h \in [All -> All]
  <2>1. \A x \in All : h[x] \in All
    BY <1>1, <1>5, <1>6, <1>7, <1>9
  <2>2. h = [x \in All |-> h[x]]
    BY <1>4
  <2> QED
    BY <2>1, <2>2
<1>13. ListOfTwo(h, place)
  <2>1. IsTour([x \in Node |-> h[x]])
    BY <1>11
  <2>2. \A P \in Seg : /\ h[P] \in Seg /\ place[P] \in 1..K
                       /\ place[h[P]] = IF place[P] = K THEN 1 ELSE place[P] + 1
    BY <1>6, <1>9, <1>10
  <2> QED
    BY <1>7, <1>10, <1>12, <2>1, <2>2 DEF ListOfTwo, K
<1> QED
  BY <1>11, <1>13 DEF h

-----------------------------------------------------------------------------
(* Invariance. *)

\* What FLIP pushes.
Record == Node \X Node \X Node \X Node

\* The inductive invariant: the tree is well formed, the nodes are read from it as
\* a tour, and the hash value is the one of this tour.
IInv ==
    /\ GoodTree(tour) /\ IsTour(Ahead(tour, Seg))
    /\ hash = Edges(Ahead(tour, Seg))
    /\ reversed \in BOOLEAN
    /\ stack \in Seq(Record) /\ checkPoint \in Nat

\* What a caller sees when Reversed is rv.
Reading(T, rv) == IF rv THEN Behind(T, Seg) ELSE Ahead(T, Seg)

\* SUC and PRD read the tree in opposite directions, and both are tours.
LEMMA ReadingIs ==
    ASSUME NEW T, GoodTree(T), IsTour(Ahead(T, Seg))
    PROVE  /\ IsTour(Behind(T, Seg)) /\ Edges(Behind(T, Seg)) = Edges(Ahead(T, Seg))
           /\ Inverses(Ahead(T, Seg), Behind(T, Seg)) /\ Inverses(Behind(T, Seg), Ahead(T, Seg))
<1>1. Level(T, Node, Seg, Bits(T, Seg), T.suc, T.prd)
  BY DEF GoodTree, TreeOfTwo, TwoLevels
<1>2. /\ Ahead(T, Seg) \in [Node -> Node] /\ Behind(T, Seg) \in [Node -> Node]
      /\ Inverses(Ahead(T, Seg), Behind(T, Seg))
  BY <1>1, AheadBehind
<1> QED
  BY <1>2, InverseIsTour, InverseEdges

\* SUC as it is computed node by node, for any tree and either direction.
LEMMA ReadByNode ==
    ASSUME N > 1, NEW T, GoodTree(T), NEW rv \in BOOLEAN
    PROVE  [x \in Node |-> IF rv # Turned(T, T.parent[x]) THEN T.prd[x] ELSE T.suc[x]]
               = Reading(T, rv)
<1>1. TreeOfTwo(T, All, Holder, Node, Seg) /\ T.type = 2 /\ Universe(All, Holder, Node, Seg)
  BY TreeNodes DEF GoodTree
<1>2. \A x \in Node : T.parent[x] \in Seg /\ T.rev[T.parent[x]] \in BOOLEAN
  BY <1>1 DEF TreeOfTwo, TwoLevels, Level, Stretches, Typed, Shape, Universe
<1>3. \A x \in Node : (IF rv # Turned(T, T.parent[x]) THEN T.prd[x] ELSE T.suc[x])
                          = IF rv THEN Back(T, Bits(T, Seg), x) ELSE Forth(T, Bits(T, Seg), x)
  <2> TAKE x \in Node
  <2> DEFINE P == T.parent[x]  B == Bits(T, Seg)
  <2>1. P \in Seg /\ T.rev[P] \in BOOLEAN
    BY <1>2
  <2>2. Turned(T, P) = T.rev[P]
    BY <1>1 DEF Turned
  <2>3. P \in B <=> T.rev[P]
    BY <2>1 DEF Bits
  <2>4. /\ Forth(T, B, x) = IF P \in B THEN T.prd[x] ELSE T.suc[x]
        /\ Back(T, B, x) = IF P \in B THEN T.suc[x] ELSE T.prd[x]
    BY DEF Forth, Back
  <2> HIDE DEF P, B
  <2>5. rv # Turned(T, P) <=> (rv <=> ~(P \in B))
    BY <2>1, <2>2, <2>3
  <2>6. (IF rv # Turned(T, P) THEN T.prd[x] ELSE T.suc[x])
           = IF rv THEN Back(T, B, x) ELSE Forth(T, B, x)
    <3>1. CASE rv
      BY <2>4, <2>5, <3>1, Zenon
    <3>2. CASE ~rv
      BY <2>4, <2>5, <3>2, Zenon
    <3> QED
      BY <3>1, <3>2
  <2> QED
    BY <2>6 DEF P, B
<1>4. CASE rv
  BY <1>3, <1>4, Zenon DEF Reading, Behind
<1>5. CASE ~rv
  BY <1>3, <1>5, Zenon DEF Reading, Ahead
<1> QED
  BY <1>4, <1>5

\* What SUC reads after a step.
LEMMA SeenNext ==
    ASSUME N > 1, GoodTree(tour'), reversed' \in BOOLEAN
    PROVE  SUC' = Reading(tour', reversed')
<1>1. SUC' = [x \in Node |-> IF reversed' # Turned(tour', tour'.parent[x])
                             THEN tour'.prd[x] ELSE tour'.suc[x]]
  BY DEF SUC, SucIn, Backwards
<1>2. [x \in Node |-> IF reversed' # Turned(tour', tour'.parent[x])
                      THEN tour'.prd[x] ELSE tour'.suc[x]] = Reading(tour', reversed')
  BY ReadByNode
<1> QED
  BY <1>1, <1>2

\* What a caller sees.
LEMMA Seen ==
    ASSUME N > 1, GoodTree(tour), reversed \in BOOLEAN
    PROVE  SUC = Reading(tour, reversed) /\ PRD = Reading(tour, ~reversed)
<1>1. Universe(All, Holder, Node, Seg)
  BY TreeNodes
<1>2. TreeOfTwo(tour, All, Holder, Node, Seg) /\ tour.type = 2
  BY DEF GoodTree
<1>3. /\ SucIn(tour) = IF reversed THEN Behind(tour, Seg) ELSE Ahead(tour, Seg)
      /\ PrdIn(tour) = IF reversed THEN Ahead(tour, Seg) ELSE Behind(tour, Seg)
  BY <1>1, <1>2, SeenIs
<1> QED
  BY <1>3 DEF SUC, PRD, Reading

\* The tree stays under its super segment.
LEMMA FrameKeepsGood ==
    ASSUME N > 1, NEW T, GoodTree(T), NEW U, TreeOfTwo(U, All, Holder, Node, Seg),
           Frame(T, U, All, Holder, Node, Seg)
    PROVE  GoodTree(U)
<1>1. /\ All = Node \cup Seg \cup {Top} /\ Holder = Seg \cup {Top}
      /\ Node \cap Seg = {} /\ Top \notin Node /\ Top \notin Seg
  BY TreeNodes
<1>2. U.type = 2
  BY DEF GoodTree, Frame
<1>3. U.suc[Top] = Top /\ U.parent[Top] = Null /\ \A P \in Seg : U.parent[P] = Top
  BY <1>1 DEF GoodTree, Frame
<1>4. ~U.rev[Top]
  <2>1. Top \in Holder \ Seg
    BY <1>1
  <2>2. U.rev[Top] = T.rev[Top] /\ ~T.rev[Top]
    BY <2>1 DEF GoodTree, Frame
  <2> QED
    BY <2>2
<1> QED
  BY <1>2, <1>3, <1>4 DEF GoodTree

\* What a call of Flip_SL leads to.
Moved(m, t1, t2, t3) ==
    /\ GoodTree(m.T) /\ IsTour(Ahead(m.T, Seg)) /\ m.r \in Record
    /\ UpdateHash(hash, m.r) = Edges(Ahead(m.T, Seg))
    /\ Rejoined(Ahead(m.T, Seg), m.r)
    /\ \E t4 : /\ Proper(tour, Bits(tour, Seg), Node, t1, t2, t3, t4)
               /\ TwoOptMove(Ahead(tour, Seg), Ahead(m.T, Seg), t1, t2, t3, t4)
               /\ m.r \in Turnings(t1, t2, t3, t4)

\* A call with nodes that may be exchanged leads there.
LEMMA FLIPMoves ==
    ASSUME N > 1, IInv, NEW t1 \in Node, NEW t2 \in Node, NEW t3 \in Node,
           Exchangeable(tour, t1, t2, t3)
    PROVE  Moved(FLIP(tour, t1, t2, t3), t1, t2, t3)
<1> DEFINE m == FLIP(tour, t1, t2, t3)
<1>1. Universe(All, Holder, Node, Seg)
  BY TreeNodes
<1>2. /\ GoodTree(tour) /\ TreeOfTwo(tour, All, Holder, Node, Seg) /\ tour.type = 2
      /\ reversed \in BOOLEAN /\ IsTour(Ahead(tour, Seg)) /\ hash = Edges(Ahead(tour, Seg))
  BY DEF IInv, GoodTree
<1>3. FlipDone(tour, m, All, Holder, Seg, t1, t2, t3)
  BY <1>1, <1>2, FLIPKeeps
<1> HIDE DEF m
<1>4. GoodTree(m.T)
  BY <1>2, <1>3, FrameKeepsGood DEF FlipDone
<1> QED
  BY <1>2, <1>3, <1>4 DEF Moved, FlipDone, Record, m

\* The invariant holds when LinKernighan is first entered.
LEMMA InitHolds ==
    ASSUME N > 1, TreeTypes = {2}, Init
    PROVE  IInv
<1>1. PICK f \in InitialTours : tour = Layout(2, AllocateSegments(2, f))
  BY DEF Init
<1>2. f \in Tours
  BY TreeAssumption
<1> DEFINE h == AllocateSegments(2, f)  place == [P \in Seg |-> P - N]
<1>3. ListOfTwo(h, place) /\ [x \in Node |-> h[x]] = f
  BY <1>2, AllocatedList
<1> HIDE DEF h, place
<1>4. GoodTree(tour) /\ Ahead(tour, Seg) = f
  BY <1>1, <1>3, LayoutOfList DEF h
<1>5. reversed = FALSE /\ stack = <<>> /\ checkPoint = 0 /\ hash = Edges(SUC)
  BY DEF Init
<1>6. SUC = Ahead(tour, Seg)
  BY <1>4, <1>5, Seen DEF Reading
<1>7. IsTour(f)
  BY <1>2 DEF Tours
<1>8. stack \in Seq(Record) /\ checkPoint \in Nat /\ reversed \in BOOLEAN
  BY <1>5, EmptySeq
<1>9. IsTour(Ahead(tour, Seg)) /\ hash = Edges(Ahead(tour, Seg))
  BY <1>4, <1>5, <1>6, <1>7
<1> QED
  BY <1>4, <1>8, <1>9 DEF IInv

\* The stack in hand.
LEMMA StackTypes ==
    ASSUME stack \in Seq(Record)
    PROVE  /\ Len(stack) \in Nat
           /\ \A r \in Record : Append(stack, r) \in Seq(Record)
           /\ stack # <<>> => Last(stack) \in Record /\ Front(stack) \in Seq(Record)
           /\ Len(stack) > 1 => Front(stack) \in Seq(Record) /\ Front(stack) # <<>>
                                /\ Front(Front(stack)) \in Seq(Record)
<1>1. \A s \in Seq(Record) : s # <<>> => Front(s) \in Seq(Record) /\ Len(Front(s)) = Len(s) - 1
                                         /\ Last(s) \in Record
  <2> SUFFICES ASSUME NEW s \in Seq(Record), s # <<>>
               PROVE  Front(s) \in Seq(Record) /\ Len(Front(s)) = Len(s) - 1 /\ Last(s) \in Record
    OBVIOUS
  <2>1. Len(s) \in Nat /\ Len(s) > 0 /\ \A i \in 1..Len(s) : s[i] \in Record
    OBVIOUS
  <2>2. 1 \in Int /\ Len(s) - 1 \in Int /\ \A i \in 1..(Len(s) - 1) : s[i] \in Record
    BY <2>1
  <2> DEFINE n == Len(s) - 1
  <2>3. SubSeq(s, 1, n) \in Seq(Record) /\ Len(SubSeq(s, 1, n)) = IF 1 <= n THEN n - 1 + 1 ELSE 0
    <3> HIDE DEF n
    <3> QED
      BY <2>2, SubSeqProperties DEF n
  <2>4. (IF 1 <= n THEN n - 1 + 1 ELSE 0) = n
    <3>1. n \in Nat
      BY <2>1
    <3> HIDE DEF n
    <3> QED
      BY <3>1
  <2>5. Last(s) \in Record
    BY <2>1 DEF Last
  <2>6. Front(s) = SubSeq(s, 1, n)
    BY DEF Front
  <2> HIDE DEF n
  <2>7. Front(s) \in Seq(Record) /\ Len(Front(s)) = n
    BY <2>3, <2>4, <2>6, Zenon
  <2> QED
    BY <2>5, <2>7 DEF n
<1>2. Len(stack) > 1 => stack # <<>>
  OBVIOUS
<1>3. Len(stack) > 1 => Len(Front(stack)) > 0
  BY <1>1, <1>2
<1> QED
  BY <1>1, <1>2, <1>3

\* The tree that LinKernighan lays when it is entered again is read as the tour
\* that it left.
LEMMA ReenterKeeps ==
    ASSUME N > 1, IInv, Reenter
    PROVE  IInv' /\ Ahead(tour', Seg) = SUC /\ ~reversed'
<1>1. /\ GoodTree(tour) /\ IsTour(Ahead(tour, Seg)) /\ reversed \in BOOLEAN /\ tour.type = 2
      /\ stack \in Seq(Record)
  BY DEF IInv, GoodTree
<1>2. SUC = Reading(tour, reversed) /\ IsTour(Reading(tour, reversed))
  BY <1>1, Seen, ReadingIs DEF Reading
<1>3. IsTour(SucIn(tour)) /\ SUC = SucIn(tour)
  BY <1>2 DEF SUC
<1> DEFINE h == NormalizedList(tour)
<1>4. PICK place : ListOfTwo(h, place)
  BY <1>1, <1>3, NormalizedIsList
<1>5. [x \in Node |-> h[x]] = SUC
  BY <1>1, <1>3, NormalizedIsList
<1> HIDE DEF h
<1>6. tour' = Layout(2, h)
  BY <1>1 DEF Reenter, h
<1>7. GoodTree(tour') /\ Ahead(tour', Seg) = SUC
  BY <1>4, <1>5, <1>6, LayoutOfList
<1>8. reversed' = FALSE /\ checkPoint' = 0 /\ hash' = Edges(SUC') /\ stack' = stack
  BY DEF Reenter
<1>9. SUC' = Ahead(tour', Seg)
  BY <1>7, <1>8, SeenNext DEF Reading
<1>10. IsTour(Ahead(tour', Seg)) /\ hash' = Edges(Ahead(tour', Seg))
  BY <1>3, <1>7, <1>8, <1>9
<1>11. stack' \in Seq(Record) /\ checkPoint' \in Nat /\ reversed' \in BOOLEAN
  BY <1>1, <1>8
<1> QED
  BY <1>7, <1>8, <1>10, <1>11 DEF IInv

\* A step that leaves the tree and its hash value alone.
LEMMA SameTreeKeeps ==
    ASSUME IInv, tour' = tour, hash' = hash, reversed' \in BOOLEAN, checkPoint' \in Nat,
           stack' \in Seq(Record)
    PROVE  IInv'
BY DEF IInv, GoodTree

\* A step that makes a move.
LEMMA MoveKeeps ==
    ASSUME N > 1, IInv, NEW t1 \in Node, NEW t2 \in Node, NEW t3 \in Node,
           Exchangeable(tour, t1, t2, t3), NEW m, m = FLIP(tour, t1, t2, t3),
           tour' = m.T, hash' = UpdateHash(hash, m.r), reversed' = reversed,
           checkPoint' = checkPoint, stack' \in Seq(Record)
    PROVE  IInv'
<1>1. Moved(m, t1, t2, t3)
  BY FLIPMoves
<1>2. GoodTree(tour') /\ IsTour(Ahead(tour', Seg)) /\ hash' = Edges(Ahead(tour', Seg))
  BY <1>1 DEF Moved
<1>3. reversed' \in BOOLEAN /\ checkPoint' \in Nat
  BY DEF IInv
<1> QED
  BY <1>2, <1>3 DEF IInv

\* What Swap1 does with the tree.
LEMMA Swap1Is ==
    ASSUME IInv, NEW t1, NEW t2, NEW t3, Swap1(t1, t2, t3)
    PROVE  LET m == FLIP(tour, t1, t2, t3) IN
           /\ Exchangeable(tour, t1, t2, t3)
           /\ tour' = m.T /\ hash' = UpdateHash(hash, m.r) /\ stack' = Append(stack, m.r)
           /\ reversed' = reversed /\ checkPoint' = checkPoint
BY DEF Swap1

\* And UndoMove.
LEMMA UndoIs ==
    ASSUME IInv, UndoMove
    PROVE  LET r == Last(stack)
               m == FLIP(tour, r[3], r[2], r[1])
           IN  /\ r[1] \in Node /\ r[2] \in Node /\ r[3] \in Node
               /\ reversed' = reversed /\ checkPoint' = checkPoint /\ stack' \in Seq(Record)
               /\ IF Exchangeable(tour, r[3], r[2], r[1])
                  THEN tour' = m.T /\ hash' = UpdateHash(hash, m.r)
                  ELSE tour' = tour /\ hash' = hash
<1> DEFINE r == Last(stack)
<1>1. stack \in Seq(Record) /\ checkPoint \in Nat /\ Len(stack) > checkPoint
  BY DEF IInv, UndoMove
<1>2. Len(stack) \in Nat /\ stack # <<>>
  BY <1>1
<1>3. r \in Record /\ Front(stack) \in Seq(Record)
  BY <1>1, <1>2, StackTypes
<1>4. Len(stack) > checkPoint + 1 => Front(Front(stack)) \in Seq(Record)
  <2>1. Len(stack) > checkPoint + 1 => Len(stack) > 1
    BY <1>1, <1>2
  <2> QED
    BY <1>1, <2>1, StackTypes
<1>5. r[1] \in Node /\ r[2] \in Node /\ r[3] \in Node
  BY <1>3 DEF Record
<1>6. reversed' = reversed /\ checkPoint' = checkPoint
  BY DEF UndoMove
<1> HIDE DEF r
<1>7. CASE Exchangeable(tour, r[3], r[2], r[1])
  BY <1>3, <1>5, <1>6, <1>7 DEF UndoMove, r
<1>8. CASE ~Exchangeable(tour, r[3], r[2], r[1])
  BY <1>3, <1>4, <1>5, <1>6, <1>8 DEF UndoMove, r
<1> QED
  BY <1>7, <1>8 DEF r

\* And every action keeps it.
LEMMA StepKeeps ==
    ASSUME N > 1, IInv, [Next]_vars
    PROVE  IInv'
<1>1. stack \in Seq(Record) /\ checkPoint \in Nat /\ reversed \in BOOLEAN /\ Len(stack) \in Nat
  BY DEF IInv
<1>2. CASE Reenter
  BY <1>2, ReenterKeeps
<1>3. CASE Turn
  BY <1>1, <1>3, SameTreeKeeps DEF Turn
<1>4. ASSUME NEW t1 \in Callers, NEW t2 \in Node, BestMove(t1, t2) PROVE IInv'
  <2>1. tour' = tour /\ hash' = hash /\ stack' = stack /\ checkPoint' = Len(stack) /\ reversed' \in BOOLEAN
    BY <1>1, <1>4 DEF BestMove
  <2> QED
    BY <1>1, <2>1, SameTreeKeeps
<1>5. ASSUME NEW t1 \in Node, NEW t2 \in Node, NEW t3 \in Node, Swap1(t1, t2, t3) PROVE IInv'
  <2> DEFINE m == FLIP(tour, t1, t2, t3)
  <2>1. /\ Exchangeable(tour, t1, t2, t3)
        /\ tour' = m.T /\ hash' = UpdateHash(hash, m.r) /\ stack' = Append(stack, m.r)
        /\ reversed' = reversed /\ checkPoint' = checkPoint
    BY <1>5, Swap1Is
  <2>2. Moved(m, t1, t2, t3)
    BY <2>1, FLIPMoves
  <2> HIDE DEF m
  <2>3. stack' \in Seq(Record)
    <3>1. m.r \in Record
      BY <2>2 DEF Moved
    <3> QED
      BY <1>1, <2>1, <3>1
  <2> QED
    BY <2>1, <2>3, MoveKeeps DEF m
<1>6. CASE StoreTour
  <2>1. tour' = tour /\ hash' = hash /\ stack' = <<>> /\ checkPoint' = 0 /\ reversed' = reversed
    BY <1>6 DEF StoreTour
  <2>2. stack' \in Seq(Record)
    BY <2>1, EmptySeq
  <2> QED
    BY <1>1, <2>1, <2>2, SameTreeKeeps
<1>7. ASSUME NEW t1 \in Callers \cup {Null}, RestoreTour(t1) PROVE IInv'
  <2>1. tour' = tour /\ hash' = hash /\ stack' = stack /\ checkPoint' \in Nat /\ reversed' = reversed
    BY <1>1, <1>7 DEF RestoreTour
  <2> QED
    BY <1>1, <2>1, SameTreeKeeps
<1>8. CASE UndoMove
  <2> DEFINE r == Last(stack)  m == FLIP(tour, r[3], r[2], r[1])
  <2>1. /\ r[1] \in Node /\ r[2] \in Node /\ r[3] \in Node
        /\ reversed' = reversed /\ checkPoint' = checkPoint /\ stack' \in Seq(Record)
        /\ IF Exchangeable(tour, r[3], r[2], r[1])
           THEN tour' = m.T /\ hash' = UpdateHash(hash, m.r)
           ELSE tour' = tour /\ hash' = hash
    BY <1>8, UndoIs
  <2> HIDE DEF r
  <2>2. CASE Exchangeable(tour, r[3], r[2], r[1])
    <3> HIDE DEF m
    <3> QED
      BY <2>1, <2>2, MoveKeeps DEF m
  <2>3. CASE ~Exchangeable(tour, r[3], r[2], r[1])
    BY <1>1, <2>1, <2>3, SameTreeKeeps
  <2> QED
    BY <2>2, <2>3
<1>9. CASE EndRestore
  BY <1>1, <1>9, SameTreeKeeps DEF EndRestore
<1>10. CASE UNCHANGED vars
  BY <1>1, <1>10, SameTreeKeeps DEF vars
<1> QED
  BY <1>2, <1>3, <1>4, <1>5, <1>6, <1>7, <1>8, <1>9, <1>10 DEF Next

\* With the two-level tree, the default, the invariant holds throughout.
THEOREM Invariance ==
    ASSUME N > 1, TreeTypes = {2}
    PROVE  Spec => []IInv
<1>1. Init => IInv
  BY InitHolds
<1>2. IInv /\ [Next]_vars => IInv'
  BY StepKeeps
<1> QED
  BY <1>1, <1>2, PTL DEF Spec

\* With the two-level tree, a caller of SUC and PRD reads one cycle through all
\* nodes, both ways round, and the hash value is the one of this cycle, after
\* whatever moves, splits of segments, undone moves and re-entries.
THEOREM TreeIsTour ==
    ASSUME N > 1, TreeTypes = {2}
    PROVE  Spec => []ListIsTour
<1>1. IInv => ListIsTour
  <2> SUFFICES ASSUME IInv PROVE ListIsTour
    OBVIOUS
  <2>1. /\ GoodTree(tour) /\ IsTour(Ahead(tour, Seg)) /\ reversed \in BOOLEAN
        /\ hash = Edges(Ahead(tour, Seg))
    BY DEF IInv
  <2>2. SUC = Reading(tour, reversed) /\ PRD = Reading(tour, ~reversed)
    BY <2>1, Seen
  <2>3. /\ IsTour(Behind(tour, Seg)) /\ Edges(Behind(tour, Seg)) = Edges(Ahead(tour, Seg))
        /\ Inverses(Ahead(tour, Seg), Behind(tour, Seg)) /\ Inverses(Behind(tour, Seg), Ahead(tour, Seg))
    BY <2>1, ReadingIs
  <2> QED
    BY <2>1, <2>2, <2>3 DEF ListIsTour, Reading
<1> QED
  BY <1>1, Invariance, PTL

-----------------------------------------------------------------------------
(* The segments. *)

\* A walk along the ring of segments from any of them meets all.
LEMMA RingMeetsAll ==
    ASSUME N > 1, NEW T, GoodTree(T), NEW f, DOMAIN f = All, NEW a \in Seg,
           \A x \in Node : f[x] \in Node, \A P \in Seg : f[P] = T.suc[P], f[Top] = Top
    PROVE  ToSet(Ring(f, a)) = Seg
<1> DEFINE K == SegmentCount(2)
<1>1. /\ N \in Nat /\ K \in 2..N /\ IsFiniteSet(Seg) /\ Cardinality(Seg) = K
      /\ All = Node \cup Seg \cup {Top} /\ Node \cap Seg = {} /\ Top \notin Node /\ Top \notin Seg
  BY NodesCounted, Sizes, TreeNodes
<1>2. PICK b \in Int : Linked(Seg, T.suc, T.prd) /\ RingRanked(T.rank, Seg, T.suc, b)
  BY DEF GoodTree, TreeOfTwo, OwnerRing
<1>3. \A P \in Seg : /\ T.suc[P] \in Seg /\ T.prd[P] \in Seg
                     /\ T.suc[T.prd[P]] = P /\ T.prd[T.suc[P]] = P
  BY <1>2 DEF Linked
<1> HIDE DEF K
<1> DEFINE place == [P \in Seg |-> PlaceFrom(T.rank, K, a, P)]
           z == T.prd[a]
<1>4. /\ place[a] = 1
      /\ \A P \in Seg : place[P] \in 1..K
      /\ \A P, Q \in Seg : place[P] = place[Q] => P = Q
      /\ \A P \in Seg : place[T.suc[P]] = IF place[P] = K THEN 1 ELSE place[P] + 1
  <2>1. /\ PlaceFrom(T.rank, K, a, a) = 1
        /\ \A P \in Seg : PlaceFrom(T.rank, K, a, P) \in 1..K
        /\ \A P, Q \in Seg : PlaceFrom(T.rank, K, a, P) = PlaceFrom(T.rank, K, a, Q) => P = Q
        /\ \A P \in Seg : PlaceFrom(T.rank, K, a, T.suc[P])
                             = IF PlaceFrom(T.rank, K, a, P) = K THEN 1
                               ELSE PlaceFrom(T.rank, K, a, P) + 1
    BY <1>1, <1>2, <1>3, RingPlaces
  <2>2. \A P \in Seg : place[P] = PlaceFrom(T.rank, K, a, P)
    OBVIOUS
  <2> HIDE DEF place
  <2> QED
    BY <1>3, <2>1, <2>2
<1> HIDE DEF place
<1>5. z \in Seg /\ f[z] = a /\ \A y \in DOMAIN f : f[y] = a => y = z
  BY <1>1, <1>3
<1>6. place[z] = K
  <2>1. T.suc[z] = a
    BY <1>3
  <2> HIDE DEF z
  <2> QED
    BY <1>1, <1>4, <1>5, <2>1
<1> HIDE DEF z
<1>7. Numbered(f, Seg, K, place, a, z)
  <2>1. \A P \in Seg : P # z => f[P] \in Seg /\ place[f[P]] = place[P] + 1
    BY <1>3, <1>4, <1>5, <1>6
  <2> QED
    BY <1>4, <1>6, <2>1 DEF Numbered
<1>8. Visits(Ring(f, a), Seg, K, place, z)
  <2>1. Seg \subseteq DOMAIN f /\ K \in 1..N
    BY <1>1
  <2> QED
    BY <1>1, <1>5, <1>7, <2>1, RingFrom
<1> QED
  BY <1>8 DEF Visits

\* With the two-level tree, each segment is the stretch of the list between its
\* ends, of Size nodes with consecutive ranks, after however many splits.
THEOREM SegmentsHold ==
    ASSUME N > 1, TreeTypes = {2}
    PROVE  Spec => []SegmentsHoldTheirNodes
<1>1. IInv => SegmentsHoldTheirNodes
  <2> SUFFICES ASSUME IInv, NEW P \in Seg
               PROVE  LET run == Path(tour.suc, tour.first[P], tour.last[P]) IN
                      /\ Last(run) = tour.last[P]
                      /\ ToSet(run) = {x \in DOMAIN tour.suc : tour.parent[x] = P}
                      /\ Len(run) = tour.size[P]
                      /\ \A i \in DOMAIN run : tour.rank[run[i]] = tour.rank[run[1]] + i - 1
    <3>1. IInv => Segment(tour.type) \cup (IF tour.type = 3 THEN Super(3) ELSE {}) = Seg
      BY DEF IInv, GoodTree, Seg
    <3> QED
      BY <3>1, Zenon DEF SegmentsHoldTheirNodes
  <2> DEFINE T == tour
             a == T.first[P]
             z == T.last[P]
             D == Inner(T, Node, a, z)
             n == T.rank[z] - T.rank[a] + 1
             run == Path(T.suc, a, z)
  <2>1. GoodTree(T)
    BY DEF IInv
  <2>2. Stretches(T, Node, Seg) /\ DOMAIN T.suc = All /\ \A x \in Node : T.rank[x] \in Int
    BY <2>1 DEF GoodTree, TreeOfTwo, TwoLevels, Level, Shape, Stretches, Typed
  <2>3. /\ N \in Nat /\ IsFiniteSet(Node) /\ Cardinality(Node) <= N
        /\ All = Node \cup Seg \cup {Top} /\ Node \cap Seg = {} /\ Top \notin Seg /\ Null \notin Seg
    BY TreeNodes DEF Universe
  <2> HIDE DEF T
  <2>4. /\ a \in Node /\ z \in Node /\ T.parent[a] = P /\ T.parent[z] = P
        /\ T.size[P] = n
        /\ \A x \in Node : T.parent[x] = P => T.rank[a] <= T.rank[x] /\ T.rank[x] <= T.rank[z]
    BY <2>2 DEF Stretches, EndsHeld, Sized, RankedFromFirst
  <2>5. /\ n \in 1..N /\ DOMAIN run = 1..n /\ Len(run) = n
        /\ \A i \in 1..n : T.rank[run[i]] = T.rank[a] + i - 1
        /\ Last(run) = z /\ ToSet(run) = D
    <3> HIDE DEF a, z
    <3>1. T.rank[a] <= T.rank[z] /\ T.parent[z] = T.parent[a]
      BY <2>4
    <3> QED
      BY <2>2, <2>3, <2>4, <3>1, StretchWalk
  <2>6. D = {x \in DOMAIN T.suc : T.parent[x] = P}
    <3>1. D = {x \in Node : T.parent[x] = P}
      BY <2>4 DEF Inner
    <3>2. \A x \in All : T.parent[x] = P => x \in Node
      BY <2>1, <2>3 DEF GoodTree
    <3> QED
      BY <2>2, <2>3, <3>1, <3>2
  <2>7. \A i \in DOMAIN run : T.rank[run[i]] = T.rank[run[1]] + i - 1
    <3> DEFINE c == T.rank[a]
    <3>1. c \in Int
      BY <2>2, <2>4
    <3> HIDE DEF c, run, n
    <3>2. T.rank[run[1]] = c
      BY <2>5, <3>1 DEF c
    <3> QED
      BY <2>5, <3>1, <3>2 DEF c
  <2> QED
    BY <2>4, <2>5, <2>6, <2>7 DEF T
<1> QED
  BY <1>1, Invariance, PTL

\* With the two-level tree, the segments form one ring with consecutive ranks, and
\* where one ends, read in its own direction, the next one begins.
THEOREM SegmentsRing ==
    ASSUME N > 1, TreeTypes = {2}
    PROVE  Spec => []SegmentsFormRing
<1>1. IInv => SegmentsFormRing
  <2> SUFFICES ASSUME IInv PROVE SegmentsFormRing
    OBVIOUS
  <2> DEFINE T == tour
             next == NormalizedList(tour)
             exit(s)  == IF Turned(tour, s) THEN tour.first[s] ELSE tour.last[s]
             entry(s) == IF Turned(tour, s) THEN tour.last[s] ELSE tour.first[s]
             ring(f, S) == {f[P] : P \in S} = S /\ \A P \in S : ToSet(Ring(f, P)) = S
             B == Bits(tour, Seg)
  <2>1. /\ GoodTree(tour) /\ IsTour(Ahead(tour, Seg)) /\ reversed \in BOOLEAN
        /\ tour.type = 2 /\ tour.suc[Top] = Top /\ tour.parent[Top] = Null /\ ~tour.rev[Top]
        /\ \A P \in Seg : tour.parent[P] = Top
    BY DEF IInv, GoodTree
  <2>2. /\ All = Node \cup Seg \cup {Top} /\ Node \cap Seg = {} /\ Top \notin Node /\ Top \notin Seg
        /\ Universe(All, Holder, Node, Seg)
    BY TreeNodes
  <2>3. /\ Level(tour, Node, Seg, B, tour.suc, tour.prd) /\ Shape(tour, All, Holder)
        /\ DOMAIN tour.suc = All
    BY <2>1 DEF GoodTree, TreeOfTwo, TwoLevels, Shape
  <2>4. PICK b \in Int : Linked(Seg, tour.suc, tour.prd) /\ RingRanked(tour.rank, Seg, tour.suc, b)
    BY <2>1 DEF GoodTree, TreeOfTwo, OwnerRing
  <2>5. \A P \in Seg : /\ tour.suc[P] \in Seg /\ tour.prd[P] \in Seg
                       /\ tour.suc[tour.prd[P]] = P /\ tour.prd[tour.suc[P]] = P
    BY <2>4 DEF Linked
  <2>6. SUC = Reading(tour, reversed) /\ IsTour(SUC)
    BY <2>1, Seen, ReadingIs DEF Reading
  <2>7. next = [x \in All |-> IF x \in Node THEN SUC[x]
                  ELSE IF tour.parent[x] # Null /\ tour.rev[tour.parent[x]] THEN tour.prd[x] ELSE tour.suc[x]]
    BY <2>3 DEF NormalizedList, SUC
  <2> HIDE DEF next
  <2>8. \A P \in Seg : next[P] = tour.suc[P]
    BY <2>1, <2>2, <2>7
  <2>9. next[Top] = Top /\ \A x \in Node : next[x] \in Node
    <3>1. next[Top] = Top
      BY <2>1, <2>2, <2>7
    <3>2. \A x \in Node : SUC[x] \in Node
      BY <2>6 DEF IsTour
    <3> QED
      BY <2>2, <2>7, <3>1, <3>2
  <2>10. ring(tour.suc, Seg)
    <3>1. \A x \in Node : tour.suc[x] \in Node
      BY <2>3 DEF Level, Stretches, Typed
    <3>2. \A P \in Seg : ToSet(Ring(tour.suc, P)) = Seg
      BY <2>1, <2>3, <3>1, RingMeetsAll
    <3>3. {tour.suc[P] : P \in Seg} = Seg
      BY <2>5
    <3> QED
      BY <3>2, <3>3
  <2>11. ring(next, Seg)
    <3>1. DOMAIN next = All
      BY <2>7
    <3>2. \A P \in Seg : ToSet(Ring(next, P)) = Seg
      BY <2>1, <2>8, <2>9, <3>1, RingMeetsAll
    <3>3. {next[P] : P \in Seg} = Seg
      BY <2>5, <2>8
    <3> QED
      BY <3>2, <3>3
  <2>12. ASSUME NEW P \in Seg
         PROVE  LET Q == tour.suc[P] IN
                /\ tour.prd[Q] = P
                /\ tour.rank[Q] - tour.rank[P] \in {1, 1 - Cardinality(Seg)}
    <3> DEFINE Q == tour.suc[P]
    <3>1. Q \in Seg /\ tour.prd[Q] = P
      BY <2>5
    <3>2. /\ tour.rank[P] \in Int /\ Cardinality(Seg) \in Int
          /\ \/ tour.rank[Q] = tour.rank[P] + 1
             \/ tour.rank[P] = b + Cardinality(Seg) - 1 /\ tour.rank[Q] = b
      <4>1. Cardinality(Seg) \in Int
        BY <2>2, FS_CardinalityType DEF Universe
      <4>2. tour.rank[P] \in Int
        BY <2>2, <2>3 DEF Shape
      <4> QED
        BY <2>4, <4>1, <4>2 DEF RingRanked
    <3> HIDE DEF Q
    <3>3. tour.rank[Q] - tour.rank[P] \in {1, 1 - Cardinality(Seg)}
      BY <3>2
    <3> QED
      BY <3>1, <3>3 DEF Q
  <2>13. ASSUME NEW s \in Seg PROVE exit(s) = Exit(tour, B, s) /\ entry(s) = Entry(tour, B, s)
    <3>1. Turned(tour, s) = tour.rev[s]
      BY <2>1 DEF Turned
    <3>2. s \in B <=> tour.rev[s]
      BY DEF Bits
    <3> QED
      BY <3>1, <3>2 DEF Exit, Entry
  <2>14. ASSUME NEW s \in Seg
         PROVE  SucIn(tour)[IF reversed THEN entry(next[s]) ELSE exit(s)]
                    = IF reversed THEN exit(s) ELSE entry(next[s])
    <3> DEFINE Q == tour.suc[s]
    <3>1. Q \in Seg /\ next[s] = Q /\ tour.prd[Q] = s
      BY <2>5, <2>8
    <3> HIDE DEF Q
    <3>2. /\ exit(s) = Exit(tour, B, s) /\ entry(Q) = Entry(tour, B, Q)
      BY <2>13, <3>1
    <3>3. Exit(tour, B, s) \in Node /\ Entry(tour, B, Q) \in Node
      BY <2>3, <3>1 DEF Level, Stretches, EndsHeld, Exit, Entry
    <3>4. /\ Forth(tour, B, Exit(tour, B, s)) = Entry(tour, B, Q)
          /\ Back(tour, B, Entry(tour, B, Q)) = Exit(tour, B, s)
      BY <2>3, <3>1 DEF Level, Joined, Q
    <3>5. /\ Ahead(tour, Seg)[Exit(tour, B, s)] = Entry(tour, B, Q)
          /\ Behind(tour, Seg)[Entry(tour, B, Q)] = Exit(tour, B, s)
      BY <3>3, <3>4 DEF Ahead, Behind
    <3>6. SucIn(tour) = IF reversed THEN Behind(tour, Seg) ELSE Ahead(tour, Seg)
      BY <2>6 DEF SUC, Reading
    <3> HIDE DEF exit, entry, B
    <3>7. CASE reversed
      BY <3>1, <3>2, <3>5, <3>6, <3>7
    <3>8. CASE ~reversed
      BY <3>1, <3>2, <3>5, <3>6, <3>8
    <3> QED
      BY <3>7, <3>8
  <2>15. (IF tour.type = 3 THEN Super(3) ELSE Segment(2)) = Seg /\ Segment(tour.type) = Seg
    BY <2>1 DEF Seg
  <2> QED
    BY <2>10, <2>11, <2>12, <2>14, <2>15 DEF SegmentsFormRing, next
<1> QED
  BY <1>1, Invariance, PTL

-----------------------------------------------------------------------------
(* The tree of two levels implements the abstract tour. *)

\* CyclicTour's notions are those of Cycles.
LEMMA SameNotions ==
    /\ Tour!Tours = Tours
    /\ \A f, g : Tour!Inverses(f, g) <=> Inverses(f, g)
    /\ \A f, g, t1, t2, t3, t4 :
           Tour!TwoOptMove(f, g, t1, t2, t3, t4) <=> TwoOptMove(f, g, t1, t2, t3, t4)
<1>1. \A f : Tour!IsTour(f) <=> IsTour(f)
  BY DEF IsTour, Injective, SingleCycle, Tour!IsTour, Tour!Injective, Tour!SingleCycle
<1>2. \A f : Tour!Edges(f) = Edges(f)
  BY DEF Edges, Tour!Edges
<1>3. Tour!Tours = Tours
  BY <1>1 DEF Tours, Tour!Tours
<1>4. \A f, g : Tour!Inverses(f, g) <=> Inverses(f, g)
  BY DEF Inverses, Tour!Inverses
<1> QED
  BY <1>2, <1>3, <1>4 DEF TwoOptMove, Tour!TwoOptMove

\* A 2-opt move is the same with its edges read the other way round, and one with
\* four different nodes removes the edge {t1,t2}.
LEMMA MoveOtherWay ==
    ASSUME NEW f, NEW g, NEW t1 \in Node, NEW t2 \in Node, NEW t3 \in Node, NEW t4 \in Node,
           TwoOptMove(f, g, t1, t2, t3, t4), t1 # t3, t2 # t4
    PROVE  /\ TwoOptMove(f, g, t2, t1, t4, t3)
           /\ g[t1] # t2 /\ g[t2] # t1
<1>1. /\ {t1, t2} = {t2, t1} /\ {t3, t4} = {t4, t3} /\ {t2, t3} = {t3, t2} /\ {t4, t1} = {t1, t4}
  OBVIOUS
<1>2. {{t2, t3}, {t4, t1}} = {{t1, t4}, {t3, t2}}
  BY <1>1
<1>3. TwoOptMove(f, g, t2, t1, t4, t3)
  BY <1>1, <1>2 DEF TwoOptMove
<1>4. {t1, t2} # {t2, t3} /\ {t1, t2} # {t4, t1}
  OBVIOUS
<1>5. {t1, t2} \notin Edges(g)
  BY <1>4 DEF TwoOptMove
<1>6. {t1, g[t1]} \in Edges(g) /\ {t2, g[t2]} \in Edges(g)
  BY DEF Edges
<1> QED
  BY <1>1, <1>3, <1>5, <1>6

\* A move of the tree is a move of the tour that its caller reads.
LEMMA MoveSeen ==
    ASSUME N > 1, IInv, IInv', NEW t1 \in Node, NEW t2 \in Node, NEW t3 \in Node,
           Exchangeable(tour, t1, t2, t3), tour' = FLIP(tour, t1, t2, t3).T, reversed' = reversed
    PROVE  Tour!Next
<1>1. Moved(FLIP(tour, t1, t2, t3), t1, t2, t3)
  BY FLIPMoves
<1> DEFINE B == Bits(tour, Seg)
<1>2. PICK t4 : /\ Proper(tour, B, Node, t1, t2, t3, t4)
                /\ TwoOptMove(Ahead(tour, Seg), Ahead(tour', Seg), t1, t2, t3, t4)
  BY <1>1 DEF Moved
<1>3. /\ GoodTree(tour) /\ IsTour(Ahead(tour, Seg)) /\ reversed \in BOOLEAN
      /\ GoodTree(tour') /\ IsTour(Ahead(tour', Seg)) /\ reversed' \in BOOLEAN
  BY DEF IInv
<1>4. /\ IsTour(Behind(tour, Seg)) /\ Edges(Behind(tour, Seg)) = Edges(Ahead(tour, Seg))
      /\ Inverses(Ahead(tour, Seg), Behind(tour, Seg))
  BY <1>3, ReadingIs
<1>5. IsTour(Behind(tour', Seg)) /\ Edges(Behind(tour', Seg)) = Edges(Ahead(tour', Seg))
  BY <1>3, ReadingIs
<1>6. SUC = Reading(tour, reversed) /\ SUC' = Reading(tour', reversed)
  BY <1>3, Seen, SeenNext
<1>7. SUC' \in Tours
  BY <1>3, <1>5, <1>6 DEF Reading, Tours, IsTour
<1>8. TwoOptMove(SUC, SUC', t1, t2, t3, t4)
  BY <1>2, <1>4, <1>5, <1>6 DEF Reading, TwoOptMove
<1>9. /\ t4 \in Node /\ t1 # t2 /\ t1 # t3 /\ t1 # t4 /\ t2 # t3 /\ t2 # t4 /\ t3 # t4
      /\ \/ Forth(tour, B, t1) = t2 /\ Forth(tour, B, t4) = t3
         \/ Back(tour, B, t1) = t2 /\ Back(tour, B, t4) = t3
  BY <1>2 DEF Proper
<1>10. \A x \in Node : Ahead(tour, Seg)[x] = Forth(tour, B, x) /\ Behind(tour, Seg)[x] = Back(tour, B, x)
  BY DEF Ahead, Behind
<1>11. \/ SUC[t1] = t2 /\ SUC[t4] = t3
       \/ SUC[t2] = t1 /\ SUC[t3] = t4
  BY <1>4, <1>6, <1>9, <1>10 DEF Reading, Inverses
<1>12. \A x, y \in Node : SUC[x] = SUC[y] => x = y
  BY <1>3, <1>4, <1>6 DEF Reading, IsTour, Injective
<1>13. TwoOptMove(SUC, SUC', t2, t1, t4, t3) /\ SUC'[t1] # t2 /\ SUC'[t2] # t1
  BY <1>8, <1>9, MoveOtherWay
<1>14. CASE SUC[t1] = t2 /\ SUC[t4] = t3
  <2>1. t3 # SUC[t2] /\ t2 # SUC[t3]
    BY <1>9, <1>12, <1>14
  <2>2. Tour!Flip(t1, t4)
    BY <1>7, <1>8, <1>9, <1>13, <1>14, <2>1, SameNotions DEF Tour!Flip
  <2> QED
    BY <1>9, <2>2 DEF Tour!Next
<1>15. CASE SUC[t2] = t1 /\ SUC[t3] = t4
  <2>1. t4 # SUC[t1] /\ t1 # SUC[t4]
    BY <1>9, <1>12, <1>15
  <2>2. Tour!Flip(t2, t3)
    BY <1>7, <1>9, <1>13, <1>15, <2>1, SameNotions DEF Tour!Flip
  <2> QED
    BY <1>9, <2>2 DEF Tour!Next
<1> QED
  BY <1>11, <1>14, <1>15

\* A step that leaves the tree alone changes at most the direction.
LEMMA DirectionSeen ==
    ASSUME N > 1, IInv, IInv', tour' = tour
    PROVE  [Tour!Next]_SUC
<1>1. /\ GoodTree(tour) /\ IsTour(Ahead(tour, Seg)) /\ reversed \in BOOLEAN
      /\ GoodTree(tour') /\ reversed' \in BOOLEAN
  BY DEF IInv
<1>2. /\ IsTour(Behind(tour, Seg))
      /\ Inverses(Ahead(tour, Seg), Behind(tour, Seg)) /\ Inverses(Behind(tour, Seg), Ahead(tour, Seg))
  BY <1>1, ReadingIs
<1>3. SUC = Reading(tour, reversed) /\ SUC' = Reading(tour, reversed')
  BY <1>1, Seen, SeenNext
<1>4. CASE reversed' = reversed
  BY <1>3, <1>4
<1>5. CASE reversed' # reversed
  <2>1. SUC' \in [Node -> Node]
    BY <1>1, <1>2, <1>3 DEF Reading, IsTour
  <2>2. Inverses(SUC, SUC')
    BY <1>1, <1>2, <1>3, <1>5 DEF Reading
  <2> QED
    BY <2>1, <2>2, SameNotions DEF Tour!Turn, Tour!Next
<1> QED
  BY <1>4, <1>5

\* A step of the tree is a step of the tour, or not seen.
LEMMA StepSeen ==
    ASSUME N > 1, IInv, IInv', [Next]_vars
    PROVE  [Tour!Next]_SUC
<1>1. CASE Reenter
  <2>1. Ahead(tour', Seg) = SUC /\ ~reversed' /\ GoodTree(tour') /\ reversed' \in BOOLEAN
    BY <1>1, ReenterKeeps DEF IInv
  <2>2. SUC' = Reading(tour', reversed')
    BY <2>1, SeenNext
  <2> QED
    BY <2>1, <2>2 DEF Reading
<1>2. CASE Turn
  BY <1>2, DirectionSeen DEF Turn
<1>3. ASSUME NEW t1 \in Callers, NEW t2 \in Node, BestMove(t1, t2) PROVE [Tour!Next]_SUC
  BY <1>3, DirectionSeen DEF BestMove
<1>4. ASSUME NEW t1 \in Node, NEW t2 \in Node, NEW t3 \in Node, Swap1(t1, t2, t3)
      PROVE  [Tour!Next]_SUC
  <2>1. /\ Exchangeable(tour, t1, t2, t3)
        /\ tour' = FLIP(tour, t1, t2, t3).T /\ reversed' = reversed
    BY <1>4, Swap1Is
  <2> QED
    BY <2>1, MoveSeen
<1>5. CASE StoreTour
  BY <1>5, DirectionSeen DEF StoreTour
<1>6. ASSUME NEW t1 \in Callers \cup {Null}, RestoreTour(t1) PROVE [Tour!Next]_SUC
  BY <1>6, DirectionSeen DEF RestoreTour
<1>7. CASE UndoMove
  <2> DEFINE r == Last(stack)
  <2>1. /\ r[1] \in Node /\ r[2] \in Node /\ r[3] \in Node /\ reversed' = reversed
        /\ IF Exchangeable(tour, r[3], r[2], r[1])
           THEN tour' = FLIP(tour, r[3], r[2], r[1]).T
           ELSE tour' = tour
    BY <1>7, UndoIs
  <2> HIDE DEF r
  <2>2. CASE Exchangeable(tour, r[3], r[2], r[1])
    BY <2>1, <2>2, MoveSeen
  <2>3. CASE ~Exchangeable(tour, r[3], r[2], r[1])
    BY <2>1, <2>3, DirectionSeen
  <2> QED
    BY <2>2, <2>3
<1>8. CASE EndRestore
  BY <1>8, DirectionSeen DEF EndRestore
<1>9. CASE UNCHANGED vars
  BY <1>9, DirectionSeen DEF vars
<1> QED
  BY <1>1, <1>2, <1>3, <1>4, <1>5, <1>6, <1>7, <1>8, <1>9 DEF Next

\* Through SUC, the tree of two levels is the abstract tour: a caller sees 2-opt
\* moves and changes of direction, and nothing else; splitting and merging
\* segments, reversal bits and the list laid out anew are never seen.
THEOREM Implements ==
    ASSUME N > 1, TreeTypes = {2}
    PROVE  Spec => ImplementsTour
<1>1. Init => Tour!Init
  <2> SUFFICES ASSUME Init PROVE Tour!Init
    OBVIOUS
  <2>1. IInv
    BY InitHolds
  <2>2. /\ GoodTree(tour) /\ IsTour(Ahead(tour, Seg)) /\ reversed = FALSE
    BY <2>1 DEF IInv, Init
  <2>3. SUC = Ahead(tour, Seg)
    BY <2>2, Seen DEF Reading
  <2>4. SUC \in Tours
    BY <2>2, <2>3 DEF Tours, IsTour
  <2> QED
    BY <2>4, SameNotions DEF Tour!Init
<1>2. IInv /\ IInv' /\ [Next]_vars => [Tour!Next]_SUC
  BY StepSeen
<1> QED
  BY <1>1, <1>2, Invariance, PTL DEF Spec, ImplementsTour, Tour!Spec
-----------------------------------------------------------------------------
(* RestoreTour. *)

\* The edges E after the move r.
AfterMove(E, r) == (E \ {{r[1], r[2]}, {r[3], r[4]}}) \cup {{r[2], r[3]}, {r[4], r[1]}}

\* The move that r records has made the tour k of one with the edges E.
Makes(E, k, r) ==
    /\ r \in Record /\ r[1] # r[3] /\ r[2] # r[4] /\ r[1] # r[2] /\ r[3] # r[4]
    /\ {r[1], r[2]} \in E /\ {r[3], r[4]} \in E
    /\ {r[2], r[3]} \notin E /\ {r[4], r[1]} \notin E
    /\ Edges(k) = AfterMove(E, r)
    /\ Rejoined(k, r)

\* The whole chain is being given up: the check point means nothing any more.
GivenUp == undo.running /\ undo.t1 = Null

\* h are the tours since the one last kept, each made by the record above the one
\* before it; the hash value is the one of the last.
TourHistory(h) ==
    /\ h \in [0..Len(stack) -> Tours]
    /\ Edges(h[0]) = kept
    /\ \A i \in 1..Len(stack) : Makes(Edges(h[i-1]), h[i], stack[i])
    /\ Edges(h[Len(stack)]) = hash
    /\ IF GivenUp THEN checkPoint = 0 ELSE Edges(mark) = Edges(h[checkPoint])

RestoreInv ==
    /\ checkPoint <= Len(stack)
    /\ undo \in {NoUndo} \cup [running : {TRUE}, t1 : Callers \cup {Null}]
    /\ mark \in Tours
    /\ \E h \in [0..Len(stack) -> Tours] : TourHistory(h)

\* The record of a move, whichever of its names it has, says what the move has done.
LEMMA RecordMakes ==
    ASSUME N > 1, IInv, NEW m, NEW t1, NEW t2, NEW t3, Moved(m, t1, t2, t3)
    PROVE  Makes(Edges(Ahead(tour, Seg)), Ahead(m.T, Seg), m.r)
<1> DEFINE B == Bits(tour, Seg)  f == Ahead(tour, Seg)  g == Behind(tour, Seg)
           k == Ahead(m.T, Seg)  r == m.r
<1>1. PICK t4 : /\ Proper(tour, B, Node, t1, t2, t3, t4) /\ TwoOptMove(f, k, t1, t2, t3, t4)
                /\ r \in Turnings(t1, t2, t3, t4)
  BY DEF Moved
<1>2. Level(tour, Node, Seg, B, tour.suc, tour.prd) /\ IsTour(f) /\ GoodTree(tour)
  BY DEF IInv, GoodTree, TreeOfTwo, TwoLevels
<1>3. Renamed(tour, B, Node, t1, t2, t3, t4, r)
  BY <1>1, <1>2, TurningsIs
<1>4. PICK u1, u2, u3, u4 : r = <<u1, u2, u3, u4>> /\ Proper(tour, B, Node, u1, u2, u3, u4)
  BY <1>3 DEF Renamed
<1>5. r[1] = u1 /\ r[2] = u2 /\ r[3] = u3 /\ r[4] = u4
  BY <1>4
<1>6. TwoOptMove(f, k, u1, u2, u3, u4)
  <2>1. /\ {{r[1], r[2]}, {r[3], r[4]}} = {{t1, t2}, {t3, t4}}
        /\ {{r[2], r[3]}, {r[4], r[1]}} = {{t2, t3}, {t4, t1}}
    <3>1. r \in Turnings(t1, t2, t3, t4)
      BY <1>1
    <3> HIDE DEF r
    <3>2. SameCut(r, t1, t2, t3, t4)
      BY ONLY <3>1, TurningEdges
    <3> QED
      BY <3>2 DEF SameCut
  <2>2. /\ {{u1, u2}, {u3, u4}} = {{t1, t2}, {t3, t4}}
        /\ {{u2, u3}, {u4, u1}} = {{t2, t3}, {t4, t1}}
    BY <1>5, <2>1
  <2> QED
    BY <1>1, <2>2 DEF TwoOptMove
<1>7. Rejoined(k, r) /\ r \in Record
  BY DEF Moved
<1>8. /\ f \in [Node -> Node] /\ g \in [Node -> Node] /\ Inverses(f, g)
  BY <1>2, AheadBehind
<1>9. \A x \in Node : f[x] = Forth(tour, B, x) /\ g[x] = Back(tour, B, x)
  BY DEF Ahead, Behind
<1> HIDE DEF f, g, k, r, B
<1>10. /\ u1 \in Node /\ u2 \in Node /\ u3 \in Node /\ u4 \in Node
       /\ u1 # u2 /\ u1 # u3 /\ u1 # u4 /\ u2 # u3 /\ u2 # u4 /\ u3 # u4
       /\ \/ Forth(tour, B, u1) = u2 /\ Forth(tour, B, u4) = u3
          \/ Back(tour, B, u1) = u2 /\ Back(tour, B, u4) = u3
  BY <1>4 DEF Proper
<1>11. \/ f[u1] = u2 /\ f[u4] = u3
       \/ f[u2] = u1 /\ f[u3] = u4
  BY <1>8, <1>9, <1>10 DEF Inverses
<1>12. \A x, y \in Node : {x, y} \in Edges(f) => f[x] = y \/ f[y] = x
  <2> TAKE x, y \in Node
  <2> HAVE {x, y} \in Edges(f)
  <2>1. PICK w \in Node : {x, y} = {w, f[w]}
    BY DEF Edges
  <2>2. (x = w /\ y = f[w]) \/ (y = w /\ x = f[w]) \/ (x = w /\ y = w)
    BY <2>1
  <2> QED
    BY <2>1, <2>2
<1>13. \A x, y \in Node : f[x] = f[y] => x = y
  BY <1>2 DEF IsTour, Injective
<1>14. {u2, u3} \notin Edges(f) /\ {u4, u1} \notin Edges(f)
  <2>1. f[u2] # u3 /\ f[u3] # u2 /\ f[u4] # u1 /\ f[u1] # u4
    BY <1>10, <1>11, <1>13
  <2> QED
    BY <1>10, <1>12, <2>1
<1>15. /\ {u1, u2} \in Edges(f) /\ {u3, u4} \in Edges(f)
       /\ Edges(k) = (Edges(f) \ {{u1, u2}, {u3, u4}}) \cup {{u2, u3}, {u4, u1}}
  BY <1>6 DEF TwoOptMove
<1>16. Edges(k) = AfterMove(Edges(f), r)
  BY <1>5, <1>15 DEF AfterMove
<1>17. Makes(Edges(f), k, r)
  BY <1>5, <1>7, <1>10, <1>14, <1>15, <1>16 DEF Makes
<1> QED
  BY <1>17 DEF f, k, r

\* What RestoreTour calls for a record goes through, and takes the edges back to
\* what they were, whichever direction the tour has now and however the segments
\* have been split and merged since.
LEMMA UndoesRecord ==
    ASSUME N > 1, IInv, NEW E, NEW k \in Tours, NEW r, Makes(E, k, r), Edges(k) = hash
    PROVE  /\ Exchangeable(tour, r[3], r[2], r[1])
           /\ Edges(Ahead(FLIP(tour, r[3], r[2], r[1]).T, Seg)) = E
<1> DEFINE B == Bits(tour, Seg)  f == Ahead(tour, Seg)  g == Behind(tour, Seg)
           m == FLIP(tour, r[3], r[2], r[1])
<1>1. /\ r[1] \in Node /\ r[2] \in Node /\ r[3] \in Node /\ r[4] \in Node
      /\ r[1] # r[3] /\ r[2] # r[4] /\ r[1] # r[2] /\ r[3] # r[4]
  BY DEF Makes, Record
<1>2. GoodTree(tour) /\ IsTour(f) /\ Edges(f) = Edges(k) /\ IsTour(k)
  BY DEF IInv, Tours
<1>3. f \in [Node -> Node] /\ g \in [Node -> Node] /\ Inverses(f, g)
  BY <1>2, AheadBehind DEF GoodTree, TreeOfTwo, TwoLevels
<1>4. k = f \/ k = g
  BY <1>2, <1>3, SameEdges
<1>5. \A x \in Node : {f[x], g[x]} = {tour.suc[x], tour.prd[x]}
  BY DEF Ahead, Behind, Forth, Back
<1>6. \A x \in Node : f[x] = Forth(tour, B, x) /\ g[x] = Back(tour, B, x)
  BY DEF Ahead, Behind
<1> HIDE DEF f, g, B, m
<1>7. \/ f[r[3]] = r[2] /\ f[r[4]] = r[1]
      \/ f[r[2]] = r[3] /\ f[r[1]] = r[4]
  <2>1. \/ k[r[3]] = r[2] /\ k[r[4]] = r[1]
        \/ k[r[2]] = r[3] /\ k[r[1]] = r[4]
    BY DEF Makes, Rejoined
  <2> QED
    BY <1>1, <1>3, <1>4, <2>1 DEF Inverses
<1>8. Edges(f) = AfterMove(E, r)
  BY <1>2 DEF Makes
<1>9. {r[1], r[2]} \notin Edges(f)
  <2>1. {r[1], r[2]} # {r[2], r[3]} /\ {r[1], r[2]} # {r[4], r[1]}
    BY <1>1
  <2> QED
    BY <1>8, <2>1 DEF AfterMove
<1>10. r[1] # f[r[2]] /\ r[1] # g[r[2]]
  <2>1. {r[2], f[r[2]]} \in Edges(f) /\ {g[r[2]], f[g[r[2]]]} \in Edges(f)
    BY <1>1, <1>3 DEF Edges
  <2>2. f[g[r[2]]] = r[2]
    BY <1>1, <1>3 DEF Inverses
  <2>3. {r[1], r[2]} = {r[2], r[1]}
    OBVIOUS
  <2> QED
    BY <1>9, <2>1, <2>2, <2>3
<1>11. f[r[3]] = r[2] \/ g[r[3]] = r[2]
  BY <1>1, <1>3, <1>7 DEF Inverses
<1>12. Exchangeable(tour, r[3], r[2], r[1])
  <2>1. tour.suc[r[3]] = r[2] \/ tour.prd[r[3]] = r[2]
    BY <1>1, <1>5, <1>11
  <2>2. r[1] # tour.suc[r[2]] /\ r[1] # tour.prd[r[2]]
    BY <1>1, <1>5, <1>10
  <2> QED
    BY <1>1, <2>1, <2>2 DEF Exchangeable
<1>13. Moved(m, r[3], r[2], r[1])
  BY <1>1, <1>12, FLIPMoves DEF m
<1>14. PICK t4 : /\ Proper(tour, B, Node, r[3], r[2], r[1], t4)
                 /\ TwoOptMove(f, Ahead(m.T, Seg), r[3], r[2], r[1], t4)
  BY <1>13 DEF Moved, f, B
<1>15. /\ t4 \in Node
       /\ \/ f[r[3]] = r[2] /\ f[t4] = r[1]
          \/ g[r[3]] = r[2] /\ g[t4] = r[1]
  BY <1>1, <1>6, <1>14 DEF Proper
<1>16. t4 = r[4]
  <2>1. ~(f[r[3]] = r[2] /\ f[r[2]] = r[3])
    BY <1>1, <1>2, NoPair
  <2>2. \A x, y \in Node : f[x] = f[y] => x = y
    BY <1>2 DEF IsTour, Injective
  <2>3. CASE f[r[3]] = r[2] /\ f[t4] = r[1]
    BY <1>1, <1>7, <1>15, <2>1, <2>2, <2>3
  <2>4. CASE g[r[3]] = r[2] /\ g[t4] = r[1]
    <3>1. f[r[2]] = r[3] /\ f[r[1]] = t4
      BY <1>1, <1>3, <1>15, <2>4 DEF Inverses
    <3> QED
      BY <1>7, <2>1, <3>1
  <2> QED
    BY <1>15, <2>3, <2>4
<1>17. Edges(Ahead(m.T, Seg))
         = (Edges(f) \ {{r[3], r[2]}, {r[1], r[4]}}) \cup {{r[2], r[1]}, {r[4], r[3]}}
  BY <1>14, <1>16 DEF TwoOptMove
<1>18. (Edges(f) \ {{r[3], r[2]}, {r[1], r[4]}}) \cup {{r[2], r[1]}, {r[4], r[3]}} = E
  <2>1. /\ {r[3], r[2]} = {r[2], r[3]} /\ {r[1], r[4]} = {r[4], r[1]}
        /\ {r[2], r[1]} = {r[1], r[2]} /\ {r[4], r[3]} = {r[3], r[4]}
    OBVIOUS
  <2>2. /\ {r[1], r[2]} \in E /\ {r[3], r[4]} \in E
        /\ {r[2], r[3]} \notin E /\ {r[4], r[1]} \notin E
    BY DEF Makes
  <2>3. Edges(f) = (E \ {{r[1], r[2]}, {r[3], r[4]}}) \cup {{r[2], r[3]}, {r[4], r[1]}}
    BY <1>8 DEF AfterMove
  <2> DEFINE a == {r[1], r[2]}  b == {r[3], r[4]}  c == {r[2], r[3]}  d == {r[4], r[1]}
  <2> HIDE DEF a, b, c, d
  <2>4. ((E \ {a, b}) \cup {c, d}) \ {c, d} = E \ {a, b}
    <3>1. c \notin E /\ d \notin E
      BY <2>2 DEF c, d
    <3> QED
      BY <3>1
  <2>5. (E \ {a, b}) \cup {a, b} = E
    <3>1. a \in E /\ b \in E
      BY <2>2 DEF a, b
    <3> QED
      BY <3>1
  <2>6. Edges(f) = (E \ {a, b}) \cup {c, d}
    BY <2>3 DEF a, b, c, d
  <2>7. (Edges(f) \ {c, d}) \cup {a, b} = E
    BY <2>4, <2>5, <2>6
  <2> QED
    BY <2>1, <2>7 DEF a, b, c, d
<1> QED
  BY <1>12, <1>17, <1>18 DEF m

\* A step that makes and undoes no move, and at most sets the check point here.
LEMMA SameHistory ==
    ASSUME RestoreInv, stack \in Seq(Record), stack' = stack, hash' = hash, kept' = kept,
           undo' \in {NoUndo} \cup [running : {TRUE}, t1 : Callers \cup {Null}],
           mark' \in Tours, checkPoint' \in 0..Len(stack),
           IF GivenUp' THEN checkPoint' = 0
           ELSE \/ ~GivenUp /\ Edges(mark') = Edges(mark) /\ checkPoint' = checkPoint
                \/ Edges(mark') = hash /\ checkPoint' = Len(stack)
    PROVE  RestoreInv'
<1>1. PICK h \in [0..Len(stack) -> Tours] : TourHistory(h)
  BY DEF RestoreInv
<1>2. /\ Edges(h[0]) = kept /\ Edges(h[Len(stack)]) = hash
      /\ \A i \in 1..Len(stack) : Makes(Edges(h[i-1]), h[i], stack[i])
      /\ ~GivenUp => Edges(mark) = Edges(h[checkPoint])
  BY <1>1 DEF TourHistory
<1>3. IF GivenUp' THEN checkPoint' = 0 ELSE Edges(mark') = Edges(h[checkPoint'])
  BY <1>2
<1>4. TourHistory(h)'
  BY <1>1, <1>2, <1>3 DEF TourHistory
<1>5. checkPoint' <= Len(stack)
  OBVIOUS
<1> QED
  BY <1>4, <1>5 DEF RestoreInv

\* A move of the search: its tour is added to the history.
LEMMA MoveAdds ==
    ASSUME N > 1, IInv, IInv', RestoreInv,
           NEW t1 \in Node, NEW t2 \in Node, NEW t3 \in Node, Swap1(t1, t2, t3)
    PROVE  RestoreInv'
<1> DEFINE n == Len(stack)  m == FLIP(tour, t1, t2, t3)  k1 == Ahead(tour', Seg)
<1>1. PICK h \in [0..n -> Tours] : TourHistory(h)
  BY DEF RestoreInv
<1>2. /\ ~undo.running /\ undo' = undo /\ Exchangeable(tour, t1, t2, t3)
      /\ tour' = m.T /\ stack' = Append(stack, m.r)
      /\ checkPoint' = checkPoint /\ kept' = kept /\ mark' = mark
  BY Swap1Is DEF Swap1, past
<1>3. /\ stack \in Seq(Record) /\ n \in Nat /\ checkPoint \in 0..n /\ mark \in Tours
      /\ undo \in {NoUndo} \cup [running : {TRUE}, t1 : Callers \cup {Null}]
      /\ ~GivenUp /\ ~GivenUp'
  <2>1. ~GivenUp /\ ~GivenUp'
    BY <1>2 DEF GivenUp
  <2>2. stack \in Seq(Record) /\ n \in Nat /\ checkPoint \in 0..n
    BY DEF IInv, RestoreInv
  <2> QED
    BY <2>1, <2>2 DEF RestoreInv
<1>4. Moved(m, t1, t2, t3)
  BY <1>2, FLIPMoves
<1>5. /\ Makes(hash, k1, m.r) /\ m.r \in Record
      /\ k1 \in Tours /\ hash' = Edges(k1)
  <2>1. Makes(Edges(Ahead(tour, Seg)), Ahead(m.T, Seg), m.r)
    BY <1>4, RecordMakes
  <2>2. k1 \in Tours /\ hash' = Edges(k1) /\ hash = Edges(Ahead(tour, Seg))
    BY DEF IInv, Tours, IsTour
  <2> QED
    BY <1>2, <2>1, <2>2 DEF Makes
<1>6. /\ Edges(h[0]) = kept /\ Edges(h[n]) = hash
      /\ \A i \in 1..n : Makes(Edges(h[i-1]), h[i], stack[i])
      /\ Edges(mark) = Edges(h[checkPoint])
  BY <1>1, <1>3 DEF TourHistory
<1> HIDE DEF m, k1
<1> PICK k \in [0..(n+1) -> Tours] : k = [i \in 0..(n+1) |-> IF i <= n THEN h[i] ELSE k1]
  <2>1. \A i \in 0..(n+1) : i <= n => h[i] \in Tours
    BY <1>3
  <2> QED
    BY <1>5, <2>1
<1>7. Len(stack') = n + 1 /\ stack'[n+1] = m.r /\ \A i \in 1..n : stack'[i] = stack[i]
  BY <1>2, <1>3, <1>5
<1>8. k[n+1] = k1 /\ \A i \in 0..n : k[i] = h[i]
  BY <1>3
<1>9. ASSUME NEW i \in 1..(n+1) PROVE Makes(Edges(k[i-1]), k[i], stack'[i])
  <2>1. CASE i \in 1..n
    <3>1. i-1 \in 0..n /\ i \in 0..n
      BY <1>3, <2>1
    <3> QED
      BY <1>6, <1>7, <1>8, <2>1, <3>1
  <2>2. CASE i = n+1
    <3>1. i-1 = n /\ n \in 0..n
      BY <1>3, <2>2
    <3> QED
      BY <1>5, <1>6, <1>7, <1>8, <2>2, <3>1
  <2>3. i \in 1..n \/ i = n+1
    <3> HIDE DEF n
    <3> QED
      BY <1>3
  <2> QED
    BY <2>1, <2>2, <2>3
<1>10. /\ Edges(k[0]) = kept' /\ Edges(k[n+1]) = hash'
       /\ Edges(mark') = Edges(k[checkPoint'])
  BY <1>2, <1>3, <1>5, <1>6, <1>8
<1>11. TourHistory(k)'
  BY <1>3, <1>7, <1>9, <1>10 DEF TourHistory
<1>12. checkPoint' <= n + 1 /\ mark' \in Tours
  BY <1>2, <1>3
<1> QED
  BY <1>2, <1>3, <1>7, <1>11, <1>12 DEF RestoreInv

\* An odd pop and the even one after it lead back to the tour before.
LEMMA UndoTakesBack ==
    ASSUME N > 1, IInv, IInv', RestoreInv, UndoMove
    PROVE  RestoreInv'
<1> DEFINE n == Len(stack)  r == stack[n]
<1>1. PICK h \in [0..n -> Tours] : TourHistory(h)
  BY DEF RestoreInv
<1>2. /\ undo.running /\ n > checkPoint /\ Last(stack) = r
      /\ checkPoint' = checkPoint /\ undo' = undo /\ kept' = kept /\ mark' = mark
  BY DEF UndoMove, past, Last
<1>3. /\ stack \in Seq(Record) /\ n \in Nat /\ checkPoint \in Nat /\ mark \in Tours
      /\ undo \in {NoUndo} \cup [running : {TRUE}, t1 : Callers \cup {Null}]
      /\ (GivenUp' <=> GivenUp)
  <2>1. GivenUp' <=> GivenUp
    BY <1>2 DEF GivenUp
  <2>2. stack \in Seq(Record) /\ n \in Nat /\ checkPoint \in Nat
    BY DEF IInv, RestoreInv
  <2> QED
    BY <2>1, <2>2 DEF RestoreInv
<1>4. n \in Nat \ {0} /\ stack # <<>>
  BY <1>2, <1>3
<1>5. /\ Len(Front(stack)) = n - 1
      /\ \A i \in 1..(n-1) : Front(stack)[i] = stack[i]
  <2>1. 1 \in Int /\ n - 1 \in Int /\ \A i \in 1..(n-1) : stack[i] \in Record
    BY <1>3, <1>4
  <2>2. Front(stack) = SubSeq(stack, 1, n-1)
    BY DEF Front
  <2> DEFINE p == n - 1
  <2>3. p \in Nat /\ p <= n /\ \A i \in 1..p : stack[i] \in Record
    <3> HIDE DEF n
    <3> QED
      BY <1>4, <2>1
  <2> HIDE DEF p
  <2>4. /\ Len(SubSeq(stack, 1, p)) = IF 1 <= p THEN p - 1 + 1 ELSE 0
        /\ \A i \in 1..(p - 1 + 1) : SubSeq(stack, 1, p)[i] = stack[1 + i - 1]
    BY <1>3, <2>3, SubSeqProperties
  <2>5. (IF 1 <= p THEN p - 1 + 1 ELSE 0) = p /\ p - 1 + 1 = p
    BY <2>3
  <2>6. \A i \in 1..p : 1 + i - 1 = i
    BY <2>3
  <2>7. Len(SubSeq(stack, 1, p)) = p /\ \A i \in 1..p : SubSeq(stack, 1, p)[i] = stack[i]
    BY <2>4, <2>5, <2>6
  <2> QED
    BY <2>2, <2>7 DEF p
<1>6. /\ Edges(h[0]) = kept /\ Edges(h[n]) = hash
      /\ \A i \in 1..n : Makes(Edges(h[i-1]), h[i], stack[i])
      /\ ~GivenUp => Edges(mark) = Edges(h[checkPoint])
      /\ GivenUp => checkPoint = 0
  BY <1>1 DEF TourHistory
<1>7. Makes(Edges(h[n-1]), h[n], r) /\ h[n] \in Tours
  BY <1>4, <1>6
<1> HIDE DEF r
<1>8. /\ Exchangeable(tour, r[3], r[2], r[1])
      /\ Edges(Ahead(FLIP(tour, r[3], r[2], r[1]).T, Seg)) = Edges(h[n-1])
  BY <1>6, <1>7, UndoesRecord
<1>9. tour' = FLIP(tour, r[3], r[2], r[1]).T /\ stack' = Front(stack)
  BY <1>2, <1>8 DEF UndoMove
<1>10. hash' = Edges(h[n-1])
  BY <1>8, <1>9 DEF IInv
<1> PICK k \in [0..(n-1) -> Tours] : k = [i \in 0..(n-1) |-> h[i]]
  BY <1>4
<1>11. \A i \in 0..(n-1) : k[i] = h[i]
  OBVIOUS
<1>12. ASSUME NEW i \in 1..(n-1) PROVE Makes(Edges(k[i-1]), k[i], stack'[i])
  <2>1. i-1 \in 0..(n-1) /\ i \in 0..(n-1) /\ i \in 1..n
    BY <1>4
  <2> QED
    BY <1>5, <1>6, <1>9, <1>11, <2>1
<1>13. checkPoint \in 0..(n-1) /\ 0 \in 0..(n-1) /\ n-1 \in 0..(n-1)
  BY <1>2, <1>3, <1>4
<1>14. TourHistory(k)'
  BY <1>2, <1>3, <1>5, <1>6, <1>9, <1>10, <1>11, <1>12, <1>13 DEF TourHistory
<1>15. checkPoint' <= n - 1 /\ mark' \in Tours
  BY <1>2, <1>3, <1>13
<1> QED
  BY <1>2, <1>3, <1>5, <1>9, <1>14, <1>15 DEF RestoreInv

\* What a caller reads, either way round, is the tour of the hash value.
LEMMA SeenTours ==
    ASSUME N > 1, IInv
    PROVE  /\ SUC = Reading(tour, reversed) /\ PRD = Reading(tour, ~reversed)
           /\ SUC \in Tours /\ PRD \in Tours /\ Edges(SUC) = hash /\ Edges(PRD) = hash
<1>1. /\ GoodTree(tour) /\ IsTour(Ahead(tour, Seg)) /\ reversed \in BOOLEAN
      /\ hash = Edges(Ahead(tour, Seg))
  BY DEF IInv
<1>2. IsTour(Behind(tour, Seg)) /\ Edges(Behind(tour, Seg)) = Edges(Ahead(tour, Seg))
  BY <1>1, ReadingIs
<1>3. SUC = Reading(tour, reversed) /\ PRD = Reading(tour, ~reversed)
  BY <1>1, Seen
<1>4. /\ IsTour(SUC) /\ IsTour(PRD) /\ Edges(SUC) = hash /\ Edges(PRD) = hash
  BY <1>1, <1>2, <1>3 DEF Reading
<1> QED
  BY <1>3, <1>4 DEF Tours, IsTour

\* Every step keeps the history.
LEMMA StepRestores ==
    ASSUME N > 1, IInv, IInv', RestoreInv, [Next]_vars
    PROVE  RestoreInv'
<1>1. /\ stack \in Seq(Record) /\ Len(stack) \in Nat /\ checkPoint \in 0..Len(stack)
      /\ mark \in Tours /\ undo \in {NoUndo} \cup [running : {TRUE}, t1 : Callers \cup {Null}]
      /\ GivenUp => checkPoint = 0
  <2>1. stack \in Seq(Record) /\ Len(stack) \in Nat /\ checkPoint \in 0..Len(stack)
    BY DEF IInv, RestoreInv
  <2>2. GivenUp => checkPoint = 0
    BY DEF RestoreInv, TourHistory
  <2> QED
    BY <2>1, <2>2 DEF RestoreInv
<1>2. SUC \in Tours /\ PRD \in Tours /\ Edges(SUC) = hash /\ Edges(PRD) = hash
  BY SeenTours
<1>3. ASSUME ~undo.running, undo' = undo, stack' = stack, kept' = kept, hash' = hash,
             checkPoint' = Len(stack), mark' \in {SUC, PRD}
      PROVE  RestoreInv'
  <2>1. ~GivenUp' /\ mark' \in Tours /\ Edges(mark') = hash
    BY <1>2, <1>3 DEF GivenUp
  <2>2. checkPoint' \in 0..Len(stack)
    BY <1>1, <1>3
  <2>3. undo' \in {NoUndo} \cup [running : {TRUE}, t1 : Callers \cup {Null}]
    BY <1>1, <1>3
  <2> QED
    BY <1>1, <1>3, <2>1, <2>2, <2>3, SameHistory
<1>4. CASE Reenter
  <2>1. /\ ~undo.running /\ undo' = undo /\ stack = <<>> /\ stack' = stack /\ kept' = kept
        /\ checkPoint' = 0 /\ mark' = SUC'
    BY <1>4 DEF Reenter
  <2>2. IInv' /\ Ahead(tour', Seg) = SUC /\ ~reversed'
    BY <1>4, ReenterKeeps
  <2>3. GoodTree(tour') /\ reversed' \in BOOLEAN /\ hash' = Edges(Ahead(tour', Seg))
    BY <2>2 DEF IInv
  <2>4. SUC' = Reading(tour', reversed')
    BY <2>3, SeenNext
  <2>5. mark' = SUC /\ hash' = hash
    BY <1>2, <2>1, <2>2, <2>3, <2>4 DEF Reading
  <2>6. Len(stack) = 0
    BY <2>1
  <2> QED
    BY <1>3, <2>1, <2>5, <2>6
<1>5. CASE Turn
  <2>1. Len(stack) = 0
    BY <1>5 DEF Turn
  <2> QED
    BY <1>3, <1>5, <2>1 DEF Turn
<1>6. ASSUME NEW t1 \in Callers, NEW t2 \in Node, BestMove(t1, t2) PROVE RestoreInv'
  BY <1>3, <1>6 DEF BestMove
<1>7. ASSUME NEW t1 \in Node, NEW t2 \in Node, NEW t3 \in Node, Swap1(t1, t2, t3)
      PROVE  RestoreInv'
  BY <1>7, MoveAdds
<1>8. CASE StoreTour
  <2>1. /\ ~undo.running /\ undo' = undo /\ stack' = <<>> /\ checkPoint' = 0
        /\ kept' = Edges(SUC) /\ mark' = SUC /\ hash' = hash
    BY <1>8 DEF StoreTour
  <2>2. ~GivenUp' /\ Len(stack') = 0
    BY <2>1 DEF GivenUp
  <2> PICK h \in [0..0 -> Tours] : h = [i \in 0..0 |-> SUC]
    BY <1>2
  <2>3. h[0] = SUC
    OBVIOUS
  <2>4. TourHistory(h)'
    BY <1>2, <2>1, <2>2, <2>3 DEF TourHistory
  <2>5. undo' \in {NoUndo} \cup [running : {TRUE}, t1 : Callers \cup {Null}]
    BY <1>1, <2>1
  <2> QED
    BY <1>2, <2>1, <2>2, <2>4, <2>5 DEF RestoreInv
<1>9. ASSUME NEW t1 \in Callers \cup {Null}, RestoreTour(t1) PROVE RestoreInv'
  <2>1. /\ ~undo.running /\ undo' = [running |-> TRUE, t1 |-> t1]
        /\ stack' = stack /\ hash' = hash /\ kept' = kept /\ mark' = mark
        /\ checkPoint' = IF t1 = Null THEN 0 ELSE checkPoint
    BY <1>9 DEF RestoreTour, past
  <2>2. ~GivenUp /\ (GivenUp' <=> t1 = Null)
    BY <2>1 DEF GivenUp
  <2>3. undo' \in {NoUndo} \cup [running : {TRUE}, t1 : Callers \cup {Null}]
    BY <2>1
  <2>4. checkPoint' \in 0..Len(stack)
    BY <1>1, <2>1
  <2>5. mark' \in Tours /\ Edges(mark') = Edges(mark)
    BY <1>1, <2>1
  <2> QED
    BY <1>1, <2>1, <2>2, <2>3, <2>4, <2>5, SameHistory
<1>10. CASE UndoMove
  BY <1>10, UndoTakesBack
<1>11. CASE EndRestore
  <2>1. /\ undo.running /\ undo' = NoUndo /\ Len(stack) <= checkPoint
        /\ mark' = IF undo.t1 = Null THEN SUC ELSE mark
        /\ stack' = stack /\ checkPoint' = checkPoint /\ hash' = hash /\ kept' = kept
    BY <1>11 DEF EndRestore
  <2>2. ~GivenUp' /\ checkPoint = Len(stack)
    BY <1>1, <2>1 DEF GivenUp, NoUndo
  <2>3. mark' \in Tours /\ checkPoint' \in 0..Len(stack)
    BY <1>1, <1>2, <2>1
  <2>4. CASE undo.t1 = Null
    <3>1. Edges(mark') = hash /\ checkPoint' = Len(stack)
      BY <1>2, <2>1, <2>2, <2>4
    <3> QED
      BY <1>1, <2>1, <2>2, <2>3, <3>1, SameHistory
  <2>5. CASE undo.t1 # Null
    <3>1. ~GivenUp /\ Edges(mark') = Edges(mark) /\ checkPoint' = checkPoint
      BY <2>1, <2>5 DEF GivenUp
    <3> QED
      BY <1>1, <2>1, <2>2, <2>3, <3>1, SameHistory
  <2> QED
    BY <2>4, <2>5
<1>12. CASE UNCHANGED vars
  <2>1. /\ stack' = stack /\ hash' = hash /\ kept' = kept /\ mark' = mark
        /\ undo' = undo /\ checkPoint' = checkPoint
    BY <1>12 DEF vars
  <2>2. GivenUp' <=> GivenUp
    BY <2>1 DEF GivenUp
  <2> QED
    BY <2>1, <2>2 DEF RestoreInv, TourHistory
<1> QED
  BY <1>4, <1>5, <1>6, <1>7, <1>8, <1>9, <1>10, <1>11, <1>12 DEF Next

\* The search begins with the tour that is kept, and no moves.
LEMMA InitRestores ==
    ASSUME N > 1, IInv, Init
    PROVE  RestoreInv
<1>1. /\ stack = <<>> /\ checkPoint = 0 /\ undo = NoUndo /\ kept = Edges(SUC) /\ mark = SUC
  BY DEF Init
<1>2. SUC \in Tours /\ Edges(SUC) = hash
  BY SeenTours
<1>3. ~GivenUp /\ Len(stack) = 0
  BY <1>1 DEF GivenUp, NoUndo
<1> PICK h \in [0..0 -> Tours] : h = [i \in 0..0 |-> SUC]
  BY <1>2
<1>4. h[0] = SUC
  OBVIOUS
<1>5. TourHistory(h)
  BY <1>1, <1>2, <1>3, <1>4 DEF TourHistory
<1> QED
  BY <1>1, <1>2, <1>3, <1>5 DEF RestoreInv

\* With two levels, the records on the stack lead from the tour last kept to the
\* present one, each undoable, and the check point lies among them.
THEOREM StackIsHistory ==
    ASSUME N > 1, TreeTypes = {2}
    PROVE  Spec => []RestoreInv
<1>1. Init => RestoreInv
  BY InitHolds, InitRestores
<1>2. IInv /\ IInv' /\ RestoreInv /\ [Next]_vars => RestoreInv'
  BY StepRestores
<1> QED
  BY <1>1, <1>2, Invariance, PTL DEF Spec

\* Only EndRestore ends RestoreTour.
LEMMA EndsRestore ==
    ASSUME Next, undo.running, ~undo'.running
    PROVE  EndRestore
<1>1. ~UndoMove
  BY DEF UndoMove
<1> QED
  BY <1>1 DEF Next, Reenter, Turn, BestMove, Swap1, StoreTour, RestoreTour

\* With two levels, a chain given up leaves the tour last kept, whatever check
\* points it has set; a move rejected leaves the tour of the check point, read in
\* the direction it had there.
THEOREM Restores ==
    ASSUME N > 1, TreeTypes = {2}
    PROVE  Spec => RestoredTour
<1>1. ASSUME IInv, IInv', RestoreInv, Next, undo.running, ~undo'.running
      PROVE  IF undo.t1 \in Node THEN SUC' = mark ELSE Edges(SUC') = kept
  <2>1. EndRestore
    BY <1>1, EndsRestore
  <2>2. /\ Len(stack) <= checkPoint /\ tour' = tour
        /\ reversed' = IF undo.t1 \in Node /\ SUC[undo.t1] # mark[undo.t1]
                       THEN ~reversed ELSE reversed
    BY <2>1 DEF EndRestore
  <2>3. /\ Len(stack) \in Nat /\ checkPoint \in 0..Len(stack) /\ mark \in Tours
        /\ undo.t1 \in Callers \cup {Null} /\ reversed \in BOOLEAN
    <3>1. stack \in Seq(Record) /\ checkPoint \in Nat /\ checkPoint <= Len(stack) /\ mark \in Tours
      BY <1>1 DEF IInv, RestoreInv
    <3>2. undo \in [running : {TRUE}, t1 : Callers \cup {Null}]
      <4>1. undo # NoUndo
        BY <1>1 DEF NoUndo
      <4> QED
        BY <1>1, <4>1 DEF RestoreInv
    <3> QED
      BY <1>1, <3>1, <3>2 DEF IInv
  <2>4. checkPoint = Len(stack)
    BY <2>2, <2>3
  <2>5. /\ SUC = Reading(tour, reversed) /\ PRD = Reading(tour, ~reversed)
        /\ SUC \in Tours /\ PRD \in Tours /\ Edges(SUC) = hash /\ Edges(PRD) = hash
    BY <1>1, SeenTours
  <2>6. SUC' = Reading(tour, reversed') /\ Inverses(SUC, PRD)
    <3>1. /\ GoodTree(tour) /\ IsTour(Ahead(tour, Seg))
          /\ GoodTree(tour') /\ reversed' \in BOOLEAN
      BY <1>1 DEF IInv
    <3>2. SUC' = Reading(tour', reversed')
      BY <3>1, SeenNext
    <3>3. Inverses(SUC, PRD)
      BY <2>3, <2>5, <3>1, ReadingIs DEF Reading
    <3> QED
      BY <2>2, <3>2, <3>3
  <2>7. CASE undo.t1 \in Node
    <3>1. ~GivenUp
      <4>1. undo.t1 # Null
        BY <2>7, NodesCounted DEF Null
      <4> QED
        BY <4>1 DEF GivenUp
    <3>2. Edges(mark) = Edges(SUC)
      BY <1>1, <2>4, <2>5, <3>1 DEF RestoreInv, TourHistory
    <3>3. /\ mark = SUC \/ mark = PRD
          /\ SUC[undo.t1] = mark[undo.t1] => mark = SUC
      BY <2>3, <2>5, <2>6, <2>7, <3>2, SameEdges DEF Tours
    <3>4. CASE SUC[undo.t1] = mark[undo.t1]
      BY <2>2, <2>5, <2>6, <3>3, <3>4, <2>7
    <3>5. CASE SUC[undo.t1] # mark[undo.t1]
      BY <2>2, <2>5, <2>6, <3>3, <3>5, <2>7
    <3> QED
      BY <2>7, <3>4, <3>5
  <2>8. CASE undo.t1 \notin Node
    <3>1. undo.t1 = Null
      BY <2>3, <2>8, TreeAssumption
    <3>2. checkPoint = 0 /\ Edges(SUC) = kept
      BY <1>1, <2>4, <2>5, <3>1 DEF RestoreInv, TourHistory, GivenUp
    <3>3. SUC' = SUC
      BY <2>2, <2>5, <2>6, <2>8
    <3> QED
      BY <2>8, <3>2, <3>3
  <2> QED
    BY <2>7, <2>8
<1>2. IInv /\ IInv' /\ RestoreInv /\ [Next]_vars =>
        [undo.running /\ ~undo'.running =>
            IF undo.t1 \in Node THEN SUC' = mark ELSE Edges(SUC') = kept]_vars
  BY <1>1
<1> QED
  BY <1>2, Invariance, StackIsHistory, PTL DEF Spec, RestoredTour

-----------------------------------------------------------------------------
(***************************************************************************)
(* What the list answers from ranks: BETWEEN tells the order of three      *)
(* nodes on the tour, and SegmentSize counts the nodes between two of near *)
(* segments.                                                               *)
(*                                                                         *)
(* Ranks say nothing across segments.  The tour goes through the nodes of  *)
(* a segment in the order of their ranks, up or down, and through the      *)
(* segments in the order of theirs, so that the place of a node on a tour  *)
(* that begins with a segment is the place where its segment begins and    *)
(* the number of nodes before it there.  Both answers are sums of these.   *)
(***************************************************************************)
-----------------------------------------------------------------------------
(* A tour that goes from segment to segment. *)

\* f goes through the nodes of P, size[P] of them, from head[P] to tail[P], and on to
\* those of nx[P]; off counts the nodes before one in its segment, par.
BySegments(f, par, off, size, nx, head, tail) ==
    /\ \A x \in Node : par[x] \in Seg /\ off[x] \in 0..(size[par[x]] - 1)
    /\ \A P \in Seg : /\ nx[P] \in Seg /\ size[P] \in Nat
                      /\ head[P] \in Node /\ par[head[P]] = P /\ off[head[P]] = 0
                      /\ tail[P] \in Node /\ par[tail[P]] = P /\ off[tail[P]] = size[P] - 1
    /\ \A x, y \in Node : par[x] = par[y] /\ off[x] = off[y] => x = y
    /\ \A x \in Node : IF off[x] = size[par[x]] - 1
                       THEN par[f[x]] = nx[par[x]] /\ off[f[x]] = 0
                       ELSE par[f[x]] = par[x] /\ off[f[x]] = off[x] + 1

\* The segments are counted in the order of nx, from A on.
CountedFrom(t, nx, A, K) ==
    /\ t[A] = 1
    /\ \A P \in Seg : t[P] \in 1..K
    /\ \A P, Q \in Seg : t[P] = t[Q] => P = Q
    /\ \A P \in Seg : t[nx[P]] = IF t[P] = K THEN 1 ELSE t[P] + 1

\* The steps from e to x, when p numbers the nodes along the tour.
StepsFrom(p, e, x) == IF p[x] >= p[e] THEN p[x] - p[e] ELSE p[x] - p[e] + N

\* Every node but e is one step further than the one before it.
LEMMA StepsCount ==
    ASSUME NEW f, NEW p, NumberedTour(f, p), NEW e \in Node
    PROVE  /\ StepsFrom(p, e, e) = 0
           /\ \A x \in Node : /\ StepsFrom(p, e, x) \in 0..(N - 1)
                              /\ f[x] # e => StepsFrom(p, e, f[x]) = StepsFrom(p, e, x) + 1
           /\ \A x \in Node : \E y \in Node : f[y] = x
<1>1. N \in Nat /\ N # 0
  BY NodesCounted
<1>2. \A x \in Node : f[x] \in Node /\ p[x] \in 1..N /\ p[f[x]] = IF p[x] = N THEN 1 ELSE p[x] + 1
  BY DEF NumberedTour
<1>3. \A x, y \in Node : p[x] = p[y] => x = y
  BY DEF NumberedTour
<1>4. StepsFrom(p, e, e) = 0
  BY <1>2 DEF StepsFrom
<1>5. ASSUME NEW x \in Node PROVE StepsFrom(p, e, x) \in 0..(N - 1)
  <2>1. p[x] \in 1..N /\ p[e] \in 1..N
    BY <1>2
  <2> QED
    BY <1>1, <2>1 DEF StepsFrom
<1>6. ASSUME NEW x \in Node, f[x] # e PROVE StepsFrom(p, e, f[x]) = StepsFrom(p, e, x) + 1
  <2>1. p[x] \in 1..N /\ p[e] \in 1..N /\ p[f[x]] \in 1..N /\ p[f[x]] # p[e]
        /\ p[f[x]] = IF p[x] = N THEN 1 ELSE p[x] + 1
    BY <1>2, <1>3, <1>6
  <2> QED
    BY <1>1, <2>1 DEF StepsFrom
<1>7. ASSUME NEW x \in Node PROVE \E y \in Node : f[y] = x
  <2>1. p[x] \in 1..N
    BY <1>2
  <2> DEFINE i == IF p[x] = 1 THEN N ELSE p[x] - 1
  <2>2. i \in 1..N
    BY <1>1, <2>1
  <2>3. PICK y \in Node : p[y] = i
    BY <2>2 DEF NumberedTour
  <2>4. p[f[y]] = p[x]
    BY <1>1, <1>2, <2>1, <2>3
  <2> QED
    BY <1>2, <1>3, <2>3, <2>4
<1> QED
  BY <1>4, <1>5, <1>6, <1>7

\* Counted from the first node of A, a node comes off[x] steps after the first of
\* its segment, and each segment begins where the one before it ends.
LEMMA SegmentPlaces ==
    ASSUME NEW f, NEW par, NEW off, NEW size, NEW nx, NEW head, NEW tail,
           BySegments(f, par, off, size, nx, head, tail),
           NEW p, NumberedTour(f, p), NEW A \in Seg, NEW K \in Nat, NEW t, CountedFrom(t, nx, A, K)
    PROVE  LET F(x) == StepsFrom(p, head[A], x) IN
           /\ \A x \in Node : F(x) = F(head[par[x]]) + off[x]
           /\ \A P \in Seg : nx[P] # A => F(head[nx[P]]) = F(head[P]) + size[P]
           /\ \A P, Q \in Seg : t[P] < t[Q] => F(head[P]) + size[P] <= F(head[Q])
<1> DEFINE F(x) == StepsFrom(p, head[A], x)
<1>1. /\ \A x \in Node : par[x] \in Seg /\ off[x] \in 0..(size[par[x]] - 1)
      /\ \A P \in Seg : /\ nx[P] \in Seg /\ size[P] \in Nat
                        /\ head[P] \in Node /\ par[head[P]] = P /\ off[head[P]] = 0
                        /\ tail[P] \in Node /\ par[tail[P]] = P /\ off[tail[P]] = size[P] - 1
  BY DEF BySegments
<1>2. \A x, y \in Node : par[x] = par[y] /\ off[x] = off[y] => x = y
  BY DEF BySegments
<1>3. \A x \in Node : IF off[x] = size[par[x]] - 1
                      THEN par[f[x]] = nx[par[x]] /\ off[f[x]] = 0
                      ELSE par[f[x]] = par[x] /\ off[f[x]] = off[x] + 1
  BY DEF BySegments
<1>4. /\ F(head[A]) = 0
      /\ \A x \in Node : F(x) \in 0..(N - 1) /\ (f[x] # head[A] => F(f[x]) = F(x) + 1)
      /\ \A x \in Node : \E y \in Node : f[y] = x
  <2>1. head[A] \in Node
    BY <1>1
  <2> QED
    BY <2>1, StepsCount
<1>5. N \in Nat
  BY NodesCounted
<1> HIDE DEF F
<1> DEFINE Good == {n \in Nat : \A x \in Node : off[x] = n => F(x) = F(head[par[x]]) + n}
<1>6. 0 \in Good
  <2>1. ASSUME NEW x \in Node, off[x] = 0 PROVE F(x) = F(head[par[x]]) + 0
    <3>1. head[par[x]] = x
      BY <1>1, <1>2, <2>1
    <3> QED
      BY <1>4, <1>5, <3>1
  <2> QED
    BY <2>1
<1>7. ASSUME NEW n \in Nat, n \in Good PROVE n + 1 \in Good
  <2> SUFFICES ASSUME NEW x \in Node, off[x] = n + 1 PROVE F(x) = F(head[par[x]]) + (n + 1)
    OBVIOUS
  <2>1. PICK y \in Node : f[y] = x
    BY <1>4
  <2>2. par[x] = par[y] /\ off[x] = off[y] + 1
    BY <1>1, <1>3, <2>1
  <2>3. off[y] = n
    BY <1>1, <2>2
  <2>4. x # head[A]
    BY <1>1
  <2>5. F(x) = F(y) + 1
    BY <1>4, <2>1, <2>4
  <2>6. F(y) = F(head[par[y]]) + n
    BY <1>7, <2>3
  <2>7. F(head[par[y]]) \in Int
    BY <1>1, <1>4
  <2> QED
    BY <2>2, <2>5, <2>6, <2>7
<1>8. \A x \in Node : F(x) = F(head[par[x]]) + off[x]
  <2> HIDE DEF Good
  <2>1. \A n \in Nat : n \in Good
    BY <1>6, <1>7, UpFromZero
  <2> TAKE x \in Node
  <2>2. off[x] \in Nat
    BY <1>1
  <2>3. off[x] \in Good
    BY <2>1, <2>2
  <2> QED
    BY <2>3 DEF Good
<1> HIDE DEF Good
<1>9. ASSUME NEW P \in Seg, nx[P] # A PROVE F(head[nx[P]]) = F(head[P]) + size[P]
  <2>1. /\ tail[P] \in Node /\ par[tail[P]] = P /\ off[tail[P]] = size[P] - 1 /\ size[P] \in Nat
        /\ head[P] \in Node /\ nx[P] \in Seg
    BY <1>1
  <2>2. par[f[tail[P]]] = nx[P] /\ off[f[tail[P]]] = 0
    BY <1>3, <2>1
  <2>3. f[tail[P]] \in Node
    BY <2>1 DEF NumberedTour
  <2>4. f[tail[P]] = head[nx[P]]
    BY <1>1, <1>2, <2>1, <2>2, <2>3
  <2>5. f[tail[P]] # head[A]
    BY <1>1, <1>9, <2>2
  <2>6. F(f[tail[P]]) = F(tail[P]) + 1
    BY <1>4, <2>1, <2>5
  <2>7. F(tail[P]) = F(head[P]) + (size[P] - 1)
    BY <1>8, <2>1
  <2>8. F(head[P]) \in Int
    BY <1>4, <2>1
  <2> QED
    BY <2>1, <2>4, <2>6, <2>7, <2>8
<1> DEFINE Upto == {n \in Nat : \A P, Q \in Seg : t[Q] = n /\ t[P] < t[Q] => F(head[P]) + size[P] <= F(head[Q])}
<1>10. t[A] = 1 /\ \A P \in Seg : t[P] \in 1..K /\ t[nx[P]] = IF t[P] = K THEN 1 ELSE t[P] + 1
  BY DEF CountedFrom
<1>11. \A P, Q \in Seg : t[P] = t[Q] => P = Q
  BY DEF CountedFrom
<1>12. \A Q \in Seg : Q # A => \E R \in Seg : nx[R] = Q
  <2> SUFFICES ASSUME NEW Q \in Seg, Q # A PROVE \E R \in Seg : nx[R] = Q
    OBVIOUS
  <2>1. head[Q] \in Node /\ par[head[Q]] = Q /\ off[head[Q]] = 0
    BY <1>1
  <2>2. PICK y \in Node : f[y] = head[Q]
    BY <1>4, <2>1
  <2>3. off[y] = size[par[y]] - 1
    BY <1>1, <1>3, <2>1, <2>2
  <2>4. par[y] \in Seg /\ nx[par[y]] = Q
    BY <1>1, <1>3, <2>1, <2>2, <2>3
  <2> QED
    BY <2>4
<1>13. 0 \in Upto
  BY <1>10
<1>14. ASSUME NEW n \in Nat, n \in Upto PROVE n + 1 \in Upto
  <2> SUFFICES ASSUME NEW P \in Seg, NEW Q \in Seg, t[Q] = n + 1, t[P] < t[Q]
               PROVE  F(head[P]) + size[P] <= F(head[Q])
    OBVIOUS
  <2>1. Q # A
    BY <1>10
  <2>2. PICK R \in Seg : nx[R] = Q
    BY <1>12, <2>1
  <2>3. t[R] = n
    BY <1>10, <1>11, <2>1, <2>2
  <2>4. F(head[Q]) = F(head[R]) + size[R]
    BY <1>9, <2>1, <2>2
  <2>5. F(head[P]) \in Int /\ F(head[R]) \in Int /\ F(head[Q]) \in Int /\ size[P] \in Nat /\ size[R] \in Nat
    BY <1>1, <1>4
  <2>6. CASE t[P] = n
    <3>1. P = R
      BY <1>11, <2>3, <2>6
    <3> QED
      BY <2>4, <2>5, <3>1
  <2>7. CASE t[P] # n
    <3>1. t[P] < n
      BY <1>10, <2>7
    <3>2. F(head[P]) + size[P] <= F(head[R])
      BY <1>14, <2>3, <3>1
    <3> QED
      BY <2>4, <2>5, <3>2
  <2> QED
    BY <2>6, <2>7
<1>15. \A P, Q \in Seg : t[P] < t[Q] => F(head[P]) + size[P] <= F(head[Q])
  <2> HIDE DEF Upto
  <2>1. \A n \in Nat : n \in Upto
    BY <1>13, <1>14, UpFromZero
  <2> TAKE P, Q \in Seg
  <2>2. t[Q] \in Nat
    BY <1>10
  <2>3. t[Q] \in Upto
    BY <2>1, <2>2
  <2> QED
    BY <2>3 DEF Upto
<1> QED
  BY <1>8, <1>9, <1>15 DEF F
-----------------------------------------------------------------------------
(* The tour that callers see. *)

\* As SUC goes: the nodes before one in its segment, the segment after one, the
\* nodes that a segment is entered and left at.
Offset == [x \in Node |-> Before(x)]
Onward == [P \in Seg |-> IF reversed THEN tour.prd[P] ELSE tour.suc[P]]
FirstIn == [P \in Seg |-> IF reversed # tour.rev[P] THEN tour.last[P] ELSE tour.first[P]]
LastIn == [P \in Seg |-> IF reversed # tour.rev[P] THEN tour.first[P] ELSE tour.last[P]]

\* What the proofs below use of the invariant: the stretches and their ring.
LEMMA TreeParts ==
    ASSUME N > 1, IInv
    PROVE  /\ tour.type = 2 /\ reversed \in BOOLEAN
           /\ \A P \in Seg : /\ tour.rev[P] \in BOOLEAN /\ Turned(tour, P) = tour.rev[P]
                             /\ tour.suc[P] \in Seg /\ tour.prd[P] \in Seg
                             /\ tour.suc[tour.prd[P]] = P /\ tour.prd[tour.suc[P]] = P
                             /\ tour.first[P] \in Node /\ tour.parent[tour.first[P]] = P
                             /\ tour.last[P] \in Node /\ tour.parent[tour.last[P]] = P
                             /\ tour.size[P] = tour.rank[tour.last[P]] - tour.rank[tour.first[P]] + 1
           /\ \A x \in Node : /\ tour.parent[x] \in Seg /\ tour.rank[x] \in Int
                              /\ tour.rank[tour.first[tour.parent[x]]] <= tour.rank[x]
                              /\ tour.rank[x] <= tour.rank[tour.last[tour.parent[x]]]
           /\ \A x, y \in Node : tour.parent[x] = tour.parent[y] /\ tour.rank[x] = tour.rank[y] => x = y
<1>1. GoodTree(tour) /\ reversed \in BOOLEAN
  BY DEF IInv
<1>2. tour.type = 2 /\ Shape(tour, All, Holder) /\ Stretches(tour, Node, Seg)
      /\ Linked(Seg, tour.suc, tour.prd)
  BY <1>1 DEF GoodTree, TreeOfTwo, TwoLevels, Level
<1>3. Seg \subseteq Holder
  BY TreeNodes
<1>4. \A P \in Seg : tour.rev[P] \in BOOLEAN /\ Turned(tour, P) = tour.rev[P]
  BY <1>2, <1>3 DEF Shape, Turned
<1>5. \A P \in Seg : /\ tour.suc[P] \in Seg /\ tour.prd[P] \in Seg
                     /\ tour.suc[tour.prd[P]] = P /\ tour.prd[tour.suc[P]] = P
  BY <1>2 DEF Linked
<1>6. \A P \in Seg : /\ tour.first[P] \in Node /\ tour.parent[tour.first[P]] = P
                     /\ tour.last[P] \in Node /\ tour.parent[tour.last[P]] = P
                     /\ tour.size[P] = tour.rank[tour.last[P]] - tour.rank[tour.first[P]] + 1
  BY <1>2 DEF Stretches, EndsHeld, Sized
<1>7. \A x \in Node : /\ tour.parent[x] \in Seg /\ tour.rank[x] \in Int
                      /\ tour.rank[tour.first[tour.parent[x]]] <= tour.rank[x]
                      /\ tour.rank[x] <= tour.rank[tour.last[tour.parent[x]]]
  BY <1>2 DEF Stretches, Typed, RankedFromFirst
<1>8. \A x, y \in Node : tour.parent[x] = tour.parent[y] /\ tour.rank[x] = tour.rank[y] => x = y
  BY <1>2 DEF Stretches, RankedOnce
<1> QED
  BY <1>1, <1>2, <1>4, <1>5, <1>6, <1>7, <1>8

\* Before and After count from the node where SUC enters a segment and to the one
\* where it leaves, up or down the ranks.
LEMMA OffsetIs ==
    ASSUME N > 1, IInv, NEW x \in Node
    PROVE  LET P == tour.parent[x] IN
           /\ Offset[x] = Before(x) /\ After(x) = tour.size[P] - 1 - Offset[x]
           /\ Offset[x] = IF reversed # tour.rev[P] THEN tour.rank[FirstIn[P]] - tour.rank[x]
                                                    ELSE tour.rank[x] - tour.rank[FirstIn[P]]
           /\ Backwards(tour, x) = (reversed # tour.rev[P])
           /\ Offset[x] \in 0..(tour.size[P] - 1) /\ tour.size[P] \in Nat
           /\ x = FirstIn[P] <=> Offset[x] = 0
           /\ x = LastIn[P] <=> Offset[x] = tour.size[P] - 1
<1> DEFINE P == tour.parent[x]
           a == tour.first[P]
           z == tour.last[P]
<1>1. /\ reversed \in BOOLEAN /\ P \in Seg /\ tour.rev[P] \in BOOLEAN /\ Turned(tour, P) = tour.rev[P]
      /\ a \in Node /\ z \in Node /\ tour.parent[a] = P /\ tour.parent[z] = P
      /\ tour.size[P] = tour.rank[z] - tour.rank[a] + 1
      /\ tour.rank[x] \in Int /\ tour.rank[a] <= tour.rank[x] /\ tour.rank[x] <= tour.rank[z]
  BY TreeParts
<1>2. /\ tour.rank[a] \in Int /\ tour.rank[z] \in Int
      /\ (x = a <=> tour.rank[x] = tour.rank[a]) /\ (x = z <=> tour.rank[x] = tour.rank[z])
  BY <1>1, TreeParts
<1>3. /\ FirstIn[P] = IF reversed # tour.rev[P] THEN z ELSE a
      /\ LastIn[P] = IF reversed # tour.rev[P] THEN a ELSE z
  BY <1>1 DEF FirstIn, LastIn
<1>4. Backwards(tour, x) = (reversed # tour.rev[P])
  BY <1>1 DEF Backwards
<1>5. /\ Offset[x] = Before(x)
      /\ Before(x) = IF reversed # tour.rev[P] THEN tour.rank[z] - tour.rank[x] ELSE tour.rank[x] - tour.rank[a]
      /\ After(x) = IF reversed # tour.rev[P] THEN tour.rank[x] - tour.rank[a] ELSE tour.rank[z] - tour.rank[x]
  BY <1>4 DEF Offset, Before, After
<1> HIDE DEF P, a, z
<1>6. CASE reversed # tour.rev[P]
  <2>1. Offset[x] = tour.rank[z] - tour.rank[x] /\ After(x) = tour.rank[x] - tour.rank[a]
        /\ FirstIn[P] = z /\ LastIn[P] = a
    BY <1>3, <1>5, <1>6
  <2> QED
    BY <1>1, <1>2, <1>4, <1>5, <1>6, <2>1 DEF P
<1>7. CASE ~(reversed # tour.rev[P])
  <2>1. Offset[x] = tour.rank[x] - tour.rank[a] /\ After(x) = tour.rank[z] - tour.rank[x]
        /\ FirstIn[P] = a /\ LastIn[P] = z
    BY <1>3, <1>5, <1>7
  <2> QED
    BY <1>1, <1>2, <1>4, <1>5, <1>7, <2>1 DEF P
<1> QED
  BY <1>6, <1>7

\* SUC goes through the nodes of a segment in the order of their offsets, and on to
\* the segment that is next in the direction of the tour.
LEMMA TourBySegments ==
    ASSUME N > 1, IInv
    PROVE  BySegments(SUC, tour.parent, Offset, tour.size, Onward, FirstIn, LastIn)
<1> DEFINE B == Bits(tour, Seg)
<1>1. Level(tour, Node, Seg, B, tour.suc, tour.prd)
  BY DEF IInv, GoodTree, TreeOfTwo, TwoLevels
<1>2. \A P \in Seg : P \in B <=> tour.rev[P]
  BY DEF Bits
<1>3. SUC = [x \in Node |-> IF reversed # tour.rev[tour.parent[x]] THEN tour.prd[x] ELSE tour.suc[x]]
  <2>1. \A x \in Node : Backwards(tour, x) = (reversed # tour.rev[tour.parent[x]])
    BY OffsetIs
  <2> QED
    BY <2>1 DEF SUC, SucIn
<1>4. \A P \in Seg : /\ Onward[P] \in Seg /\ tour.size[P] \in Nat
                     /\ FirstIn[P] \in Node /\ tour.parent[FirstIn[P]] = P /\ Offset[FirstIn[P]] = 0
                     /\ LastIn[P] \in Node /\ tour.parent[LastIn[P]] = P
                     /\ Offset[LastIn[P]] = tour.size[P] - 1
  <2> TAKE P \in Seg
  <2>1. Onward[P] \in Seg
    BY TreeParts DEF Onward
  <2>2. FirstIn[P] \in Node /\ tour.parent[FirstIn[P]] = P
    BY TreeParts DEF FirstIn
  <2>3. LastIn[P] \in Node /\ tour.parent[LastIn[P]] = P
    BY TreeParts DEF LastIn
  <2> QED
    BY <2>1, <2>2, <2>3, OffsetIs
<1>5. \A x \in Node : tour.parent[x] \in Seg /\ Offset[x] \in 0..(tour.size[tour.parent[x]] - 1)
  BY TreeParts, OffsetIs
<1>6. ASSUME NEW x \in Node, NEW y \in Node, tour.parent[x] = tour.parent[y], Offset[x] = Offset[y]
      PROVE  x = y
  <2>1. tour.rank[x] = tour.rank[y]
    <3> DEFINE P == tour.parent[x]  h == tour.rank[FirstIn[P]]
    <3>1. tour.rank[x] \in Int /\ tour.rank[y] \in Int /\ h \in Int
      BY <1>4, TreeParts
    <3>2. /\ Offset[x] = IF reversed # tour.rev[P] THEN h - tour.rank[x] ELSE tour.rank[x] - h
          /\ Offset[y] = IF reversed # tour.rev[P] THEN h - tour.rank[y] ELSE tour.rank[y] - h
      BY <1>6, OffsetIs
    <3> HIDE DEF h, P
    <3>3. CASE reversed # tour.rev[P]
      <4>1. h - tour.rank[x] = h - tour.rank[y]
        BY <1>6, <3>2, <3>3
      <4> QED
        BY <3>1, <4>1
    <3>4. CASE ~(reversed # tour.rev[P])
      <4>1. tour.rank[x] - h = tour.rank[y] - h
        BY <1>6, <3>2, <3>4
      <4> QED
        BY <3>1, <4>1
    <3> QED
      BY <3>3, <3>4
  <2> QED
    BY <1>6, <2>1, TreeParts
<1>7. ASSUME NEW x \in Node, Offset[x] = tour.size[tour.parent[x]] - 1
      PROVE  tour.parent[SUC[x]] = Onward[tour.parent[x]] /\ Offset[SUC[x]] = 0
  <2> DEFINE P == tour.parent[x]
  <2>1. P \in Seg /\ x = LastIn[P] /\ Onward[P] \in Seg
    BY <1>4, <1>5, <1>7, OffsetIs
  <2> HIDE DEF P
  <2>2. SUC[x] = FirstIn[Onward[P]]
    <3>1. /\ tour.suc[P] \in Seg /\ tour.prd[P] \in Seg /\ tour.suc[tour.prd[P]] = P
          /\ tour.rev[P] \in BOOLEAN /\ reversed \in BOOLEAN
          /\ tour.rev[tour.suc[P]] \in BOOLEAN /\ tour.rev[tour.prd[P]] \in BOOLEAN
      BY <2>1, TreeParts
    <3>2. SUC[x] = IF reversed THEN Back(tour, B, x) ELSE Forth(tour, B, x)
      <4>1. SUC[x] = IF reversed # tour.rev[P] THEN tour.prd[x] ELSE tour.suc[x]
        BY <1>3 DEF P
      <4>2. /\ Forth(tour, B, x) = IF tour.rev[P] THEN tour.prd[x] ELSE tour.suc[x]
            /\ Back(tour, B, x) = IF tour.rev[P] THEN tour.suc[x] ELSE tour.prd[x]
        BY <1>2, <2>1 DEF Forth, Back, P
      <4> QED
        BY <3>1, <4>1, <4>2, Zenon
    <3>3. CASE reversed
      <4>1. x = Entry(tour, B, P)
        BY <1>2, <2>1, <3>1, <3>3 DEF LastIn, Entry
      <4>2. Back(tour, B, x) = Exit(tour, B, tour.prd[P])
        BY <1>1, <2>1, <4>1 DEF Level, Joined
      <4>3. FirstIn[tour.prd[P]] = Exit(tour, B, tour.prd[P])
        BY <1>2, <3>1, <3>3 DEF FirstIn, Exit
      <4> QED
        BY <2>1, <3>2, <3>3, <4>2, <4>3 DEF Onward
    <3>4. CASE ~reversed
      <4>1. x = Exit(tour, B, P)
        BY <1>2, <2>1, <3>1, <3>4 DEF LastIn, Exit
      <4>2. Forth(tour, B, x) = Entry(tour, B, tour.suc[P])
        BY <1>1, <2>1, <4>1 DEF Level, Joined
      <4>3. FirstIn[tour.suc[P]] = Entry(tour, B, tour.suc[P])
        BY <1>2, <3>1, <3>4 DEF FirstIn, Entry
      <4> QED
        BY <2>1, <3>2, <3>4, <4>2, <4>3 DEF Onward
    <3> QED
      BY <3>3, <3>4
  <2> QED
    BY <1>4, <2>1, <2>2 DEF P
<1>8. ASSUME NEW x \in Node, Offset[x] # tour.size[tour.parent[x]] - 1
      PROVE  tour.parent[SUC[x]] = tour.parent[x] /\ Offset[SUC[x]] = Offset[x] + 1
  <2> DEFINE P == tour.parent[x]  y == SUC[x]
  <2>1. P \in Seg /\ x # LastIn[P] /\ Stretches(tour, Node, Seg)
    BY <1>1, <1>5, <1>8, OffsetIs DEF Level
  <2>2. y = IF reversed # tour.rev[P] THEN tour.prd[x] ELSE tour.suc[x]
    BY <1>3
  <2>3. /\ x # tour.last[P] => tour.suc[x] \in Node /\ tour.parent[tour.suc[x]] = P
                               /\ tour.rank[tour.suc[x]] = tour.rank[x] + 1
        /\ x # tour.first[P] => tour.prd[x] \in Node /\ tour.parent[tour.prd[x]] = P
                                /\ tour.rank[tour.prd[x]] = tour.rank[x] - 1
    BY <2>1, Within
  <2>4. LastIn[P] = IF reversed # tour.rev[P] THEN tour.first[P] ELSE tour.last[P]
    BY <2>1 DEF LastIn
  <2> HIDE DEF P, y
  <2>5. /\ y \in Node /\ tour.parent[y] = P
        /\ tour.rank[y] = IF reversed # tour.rev[P] THEN tour.rank[x] - 1 ELSE tour.rank[x] + 1
    BY <2>1, <2>2, <2>3, <2>4
  <2>6. /\ Offset[x] = IF reversed # tour.rev[P] THEN tour.rank[FirstIn[P]] - tour.rank[x]
                                                 ELSE tour.rank[x] - tour.rank[FirstIn[P]]
        /\ Offset[y] = IF reversed # tour.rev[P] THEN tour.rank[FirstIn[P]] - tour.rank[y]
                                                 ELSE tour.rank[y] - tour.rank[FirstIn[P]]
    BY <2>5, OffsetIs DEF P
  <2>7. tour.rank[x] \in Int /\ tour.rank[FirstIn[P]] \in Int
    BY <1>4, <2>1, TreeParts
  <2>8. Offset[y] = Offset[x] + 1
    BY <2>5, <2>6, <2>7
  <2> QED
    BY <2>5, <2>8 DEF P, y
<1> QED
  BY <1>4, <1>5, <1>6, <1>7, <1>8 DEF BySegments
\* The place of a segment, counted from A in the direction of the tour.
SegmentPlace(A) == [P \in Seg |-> Steps(reversed, A, P, SegmentCount(2)) + 1]

\* Ranks count the segments along the ring, in either direction.
LEMMA SegmentsCounted ==
    ASSUME N > 1, IInv, NEW A \in Seg
    PROVE  /\ SegmentCount(2) \in Nat
           /\ CountedFrom(SegmentPlace(A), Onward, A, SegmentCount(2))
           /\ \A P, Q \in Seg : P # A /\ Q # A /\ P # Q =>
                  InRing(A, P, Q) = (SegmentPlace(A)[P] < SegmentPlace(A)[Q])
<1> DEFINE K == SegmentCount(2)
           rank == tour.rank
           t == SegmentPlace(A)
           pl(P) == PlaceFrom(rank, K, A, P)
<1>1. K \in Nat /\ K >= 2 /\ IsFiniteSet(Seg) /\ Cardinality(Seg) = K
  BY NodesCounted, Sizes, TreeNodes
<1>2. PICK b \in Int : RingRanked(rank, Seg, tour.suc, b)
  BY DEF IInv, GoodTree, TreeOfTwo, OwnerRing
<1>3. \A P \in Seg : /\ tour.suc[P] \in Seg /\ tour.prd[P] \in Seg
                     /\ tour.suc[tour.prd[P]] = P /\ tour.prd[tour.suc[P]] = P
  BY TreeParts
<1>4. /\ pl(A) = 1
      /\ \A P \in Seg : pl(P) \in 1..K
      /\ \A P, Q \in Seg : pl(P) = pl(Q) => P = Q
      /\ \A P \in Seg : pl(tour.suc[P]) = IF pl(P) = K THEN 1 ELSE pl(P) + 1
  <2> HIDE DEF rank, K
  <2> QED
    BY <1>1, <1>2, <1>3, RingPlaces
<1>5. \A P \in Seg : rank[P] \in Int
  BY <1>1, <1>2 DEF RingRanked
<1>6. \A P, Q \in Seg : rank[P] = rank[Q] => P = Q
  BY <1>2 DEF RingRanked
<1>7. \A P \in Seg : t[P] = Steps(reversed, A, P, K) + 1
  BY DEF SegmentPlace
<1>8. \A P \in Seg : pl(P) = IF rank[P] >= rank[A] THEN rank[P] - rank[A] + 1 ELSE rank[P] - rank[A] + K + 1
  BY DEF PlaceFrom
<1>9. reversed \in BOOLEAN
  BY DEF IInv
<1> HIDE DEF K, t, pl
<1>10. \A P \in Seg : t[P] = IF reversed THEN IF P = A THEN 1 ELSE K + 2 - pl(P) ELSE pl(P)
  <2> TAKE P \in Seg
  <2>1. t[P] = 1 + LET d == IF reversed THEN rank[A] - rank[P] ELSE rank[P] - rank[A]
                   IN  IF d < 0 THEN d + K ELSE d
    <3>1. Steps(reversed, A, P, K) = LET d == IF reversed THEN rank[A] - rank[P] ELSE rank[P] - rank[A]
                                     IN  IF d < 0 THEN d + K ELSE d
      BY DEF Steps
    <3>2. Steps(reversed, A, P, K) \in Int
      BY <1>1, <1>5, <3>1
    <3> QED
      BY <1>7, <3>1, <3>2
  <2>2. rank[A] \in Int /\ rank[P] \in Int /\ (P = A <=> rank[P] = rank[A])
    BY <1>5, <1>6
  <2> HIDE DEF rank
  <2>3. CASE reversed
    BY <1>1, <1>8, <2>1, <2>2, <2>3
  <2>4. CASE ~reversed
    BY <1>1, <1>8, <2>1, <2>2, <2>4
  <2> QED
    BY <1>9, <2>3, <2>4
<1>11. \A P \in Seg : pl(P) = 1 <=> P = A
  BY <1>4
<1>12. \A P, Q \in Seg : rank[P] - rank[Q] < K
  <2> HIDE DEF rank
  <2> TAKE P, Q \in Seg
  <2>1. rank[P] \in b..(b + K - 1) /\ rank[Q] \in b..(b + K - 1)
    BY <1>1, <1>2 DEF RingRanked
  <2> QED
    BY <1>1, <2>1
<1>13. ASSUME NEW P \in Seg, NEW Q \in Seg, P # A, Q # A, P # Q
       PROVE  Inside(rank[A], rank[P], rank[Q]) <=> pl(P) < pl(Q)
  <2>1. /\ rank[A] \in Int /\ rank[P] \in Int /\ rank[Q] \in Int
        /\ rank[P] # rank[A] /\ rank[Q] # rank[A] /\ rank[P] # rank[Q]
    BY <1>5, <1>6, <1>13
  <2>2. /\ pl(P) \in 1..K /\ pl(Q) \in 1..K
        /\ pl(P) = IF rank[P] >= rank[A] THEN rank[P] - rank[A] + 1 ELSE rank[P] - rank[A] + K + 1
        /\ pl(Q) = IF rank[Q] >= rank[A] THEN rank[Q] - rank[A] + 1 ELSE rank[Q] - rank[A] + K + 1
    BY <1>4, <1>8
  <2>3. Inside(rank[A], rank[P], rank[Q]) <=>
            IF rank[A] < rank[Q] THEN rank[P] > rank[A] /\ rank[P] < rank[Q]
                                 ELSE rank[P] > rank[A] \/ rank[P] < rank[Q]
    BY DEF Inside
  <2> HIDE DEF rank, pl
  <2>4. CASE rank[P] > rank[A] /\ rank[Q] > rank[A]
    <3>1. pl(P) = rank[P] - rank[A] + 1 /\ pl(Q) = rank[Q] - rank[A] + 1
      BY <2>1, <2>2, <2>4
    <3>2. Inside(rank[A], rank[P], rank[Q]) <=> rank[P] < rank[Q]
      BY <2>1, <2>3, <2>4
    <3> QED
      BY <2>1, <3>1, <3>2
  <2>5. CASE rank[P] > rank[A] /\ rank[Q] < rank[A]
    <3>1. pl(P) = rank[P] - rank[A] + 1 /\ pl(Q) = rank[Q] - rank[A] + K + 1
      BY <2>1, <2>2, <2>5
    <3>2. Inside(rank[A], rank[P], rank[Q])
      BY <2>1, <2>3, <2>5
    <3>3. rank[Q] - rank[A] + K + 1 > rank[P] - rank[A] + 1
      BY <1>1, <1>12, <2>1, <2>5
    <3> QED
      BY <3>1, <3>2, <3>3
  <2>6. CASE rank[P] < rank[A] /\ rank[Q] > rank[A]
    <3>1. pl(P) = rank[P] - rank[A] + K + 1 /\ pl(Q) = rank[Q] - rank[A] + 1
      BY <2>1, <2>2, <2>6
    <3>2. ~Inside(rank[A], rank[P], rank[Q])
      BY <2>1, <2>3, <2>6
    <3>3. rank[P] - rank[A] + K + 1 > rank[Q] - rank[A] + 1
      BY <1>1, <1>12, <2>1, <2>6
    <3> QED
      BY <1>1, <2>1, <3>1, <3>2, <3>3
  <2>7. CASE rank[P] < rank[A] /\ rank[Q] < rank[A]
    <3>1. pl(P) = rank[P] - rank[A] + K + 1 /\ pl(Q) = rank[Q] - rank[A] + K + 1
      BY <2>1, <2>2, <2>7
    <3>2. Inside(rank[A], rank[P], rank[Q]) <=> rank[P] < rank[Q]
      BY <2>1, <2>3, <2>7
    <3> QED
      BY <1>1, <2>1, <3>1, <3>2
  <2> QED
    BY <2>1, <2>4, <2>5, <2>6, <2>7
<1>14. ASSUME NEW P \in Seg, NEW Q \in Seg
       PROVE  InRing(A, P, Q) = (reversed # Inside(rank[A], rank[P], rank[Q]))
              /\ Inside(rank[A], rank[P], rank[Q]) \in BOOLEAN
  BY DEF InRing, Inside
<1>15. CASE ~reversed
  <2>1. \A P \in Seg : t[P] = pl(P) /\ Onward[P] = tour.suc[P]
    BY <1>10, <1>15 DEF Onward
  <2>2. CountedFrom(t, Onward, A, K)
    BY <1>3, <1>4, <2>1 DEF CountedFrom
  <2>3. \A P, Q \in Seg : P # A /\ Q # A /\ P # Q => InRing(A, P, Q) = (t[P] < t[Q])
    <3> SUFFICES ASSUME NEW P \in Seg, NEW Q \in Seg, P # A, Q # A, P # Q
                 PROVE  InRing(A, P, Q) = (t[P] < t[Q])
      OBVIOUS
    <3>1. InRing(A, P, Q) = (reversed # Inside(rank[A], rank[P], rank[Q]))
          /\ Inside(rank[A], rank[P], rank[Q]) \in BOOLEAN
      BY <1>14
    <3>2. InRing(A, P, Q) = Inside(rank[A], rank[P], rank[Q])
      <4> DEFINE b1 == Inside(rank[A], rank[P], rank[Q])
      <4>1. InRing(A, P, Q) = (reversed # b1) /\ b1 \in BOOLEAN
        BY <3>1
      <4> HIDE DEF b1, rank
      <4>2. reversed = FALSE
        BY <1>9, <1>15
      <4>3. (FALSE # b1) = b1
        BY <4>1
      <4> QED
        BY <4>1, <4>2, <4>3 DEF b1
    <3>3. Inside(rank[A], rank[P], rank[Q]) <=> t[P] < t[Q]
      BY <1>13, <2>1
    <3> HIDE DEF rank
    <3>4. (t[P] < t[Q]) \in BOOLEAN
      BY SMT
    <3> QED
      BY <3>1, <3>2, <3>3, <3>4
  <2> QED
    BY <1>1, <2>2, <2>3 DEF t, K
<1>16. CASE reversed
  <2>1. \A P \in Seg : t[P] = (IF P = A THEN 1 ELSE K + 2 - pl(P)) /\ Onward[P] = tour.prd[P]
    BY <1>10, <1>16 DEF Onward
  <2>2. t[A] = 1 /\ \A P \in Seg : t[P] \in 1..K
    BY <1>1, <1>4, <1>11, <2>1
  <2>3. ASSUME NEW P \in Seg, NEW Q \in Seg, t[P] = t[Q] PROVE P = Q
    <3>1. pl(P) \in 1..K /\ pl(Q) \in 1..K /\ (pl(P) = 1 <=> P = A) /\ (pl(Q) = 1 <=> Q = A)
      BY <1>4, <1>11
    <3>2. pl(P) = pl(Q)
      BY <1>1, <2>1, <2>3, <3>1
    <3> QED
      BY <1>4, <3>2
  <2>4. ASSUME NEW P \in Seg PROVE t[Onward[P]] = IF t[P] = K THEN 1 ELSE t[P] + 1
    <3> DEFINE Q == tour.prd[P]
    <3>1. Q \in Seg /\ tour.suc[Q] = P /\ Onward[P] = Q
      BY <1>3, <2>1
    <3> HIDE DEF Q
    <3>2. /\ pl(P) \in 1..K /\ pl(Q) \in 1..K /\ (pl(P) = 1 <=> P = A) /\ (pl(Q) = 1 <=> Q = A)
          /\ pl(P) = IF pl(Q) = K THEN 1 ELSE pl(Q) + 1
      BY <1>4, <1>11, <3>1
    <3>3. /\ t[P] = (IF P = A THEN 1 ELSE K + 2 - pl(P))
          /\ t[Q] = (IF Q = A THEN 1 ELSE K + 2 - pl(Q))
      BY <2>1, <3>1
    <3> QED
      BY <1>1, <3>1, <3>2, <3>3
  <2>5. CountedFrom(t, Onward, A, K)
    BY <2>2, <2>3, <2>4 DEF CountedFrom
  <2>6. \A P, Q \in Seg : P # A /\ Q # A /\ P # Q => InRing(A, P, Q) = (t[P] < t[Q])
    <3> SUFFICES ASSUME NEW P \in Seg, NEW Q \in Seg, P # A, Q # A, P # Q
                 PROVE  InRing(A, P, Q) = (t[P] < t[Q])
      OBVIOUS
    <3>1. InRing(A, P, Q) = (reversed # Inside(rank[A], rank[P], rank[Q]))
          /\ Inside(rank[A], rank[P], rank[Q]) \in BOOLEAN
      BY <1>14
    <3>2. InRing(A, P, Q) = ~Inside(rank[A], rank[P], rank[Q])
      <4> DEFINE b1 == Inside(rank[A], rank[P], rank[Q])
      <4>1. InRing(A, P, Q) = (reversed # b1) /\ b1 \in BOOLEAN
        BY <3>1
      <4> HIDE DEF b1, rank
      <4>2. reversed = TRUE
        BY <1>9, <1>16
      <4>3. (TRUE # b1) = ~b1
        BY <4>1
      <4> QED
        BY <4>1, <4>2, <4>3 DEF b1
    <3>3. Inside(rank[A], rank[P], rank[Q]) <=> pl(P) < pl(Q)
      BY <1>13
    <3>4. pl(P) \in 1..K /\ pl(Q) \in 1..K /\ pl(P) # pl(Q)
      BY <1>4
    <3>5. pl(P) < pl(Q) <=> ~(t[P] < t[Q])
      BY <1>1, <2>1, <3>4
    <3> HIDE DEF rank
    <3>6. (t[P] < t[Q]) \in BOOLEAN
      BY SMT
    <3> QED
      BY <3>1, <3>2, <3>3, <3>5, <3>6
  <2> QED
    BY <1>1, <2>5, <2>6 DEF t, K
<1> QED
  BY <1>9, <1>15, <1>16

\* Where the nodes are, in steps from the first node of a's segment: within a segment
\* by offsets, across segments by places; and the steps from a, which are the same
\* ones, or all the way round.
LEMMA NodePlaces ==
    ASSUME N > 1, IInv, NEW p, NumberedTour(SUC, p), NEW a \in Node
    PROVE  LET A == tour.parent[a]
               F(x) == StepsFrom(p, FirstIn[A], x)
           IN  /\ A \in Seg /\ N \in Nat
               /\ \A x \in Node : F(x) \in 0..(N - 1)
               /\ \A x \in Node : tour.parent[x] = A => F(x) = Offset[x]
               /\ \A x, y \in Node : tour.parent[x] = tour.parent[y] => F(x) - F(y) = Offset[x] - Offset[y]
               /\ \A x, y \in Node : SegmentPlace(A)[tour.parent[x]] < SegmentPlace(A)[tour.parent[y]]
                                         => F(x) < F(y)
               /\ \A x \in Node : StepsFrom(p, a, x) = IF F(x) >= F(a) THEN F(x) - F(a) ELSE F(x) - F(a) + N
               /\ \A P \in Seg : Onward[P] # A => F(FirstIn[Onward[P]]) = F(FirstIn[P]) + tour.size[P]
               /\ \A x \in Node : F(x) = F(FirstIn[tour.parent[x]]) + Offset[x]
<1> DEFINE A == tour.parent[a]
           F(x) == StepsFrom(p, FirstIn[A], x)
           t == SegmentPlace(A)
           K == SegmentCount(2)
<1>1. A \in Seg /\ N \in Nat /\ \A x \in Node : tour.parent[x] \in Seg
  BY TreeParts, NodesCounted
<1>2. BySegments(SUC, tour.parent, Offset, tour.size, Onward, FirstIn, LastIn)
  BY TourBySegments
<1>3. K \in Nat /\ CountedFrom(t, Onward, A, K)
  BY <1>1, SegmentsCounted
<1>4. \A P \in Seg : FirstIn[P] \in Node /\ tour.size[P] \in Nat
  BY <1>2 DEF BySegments
<1>5. F(FirstIn[A]) = 0 /\ \A x \in Node : F(x) \in 0..(N - 1)
  BY <1>1, <1>4, StepsCount
<1> HIDE DEF A, t, K
<1>6. /\ \A x \in Node : F(x) = F(FirstIn[tour.parent[x]]) + Offset[x]
      /\ \A P \in Seg : Onward[P] # A => F(FirstIn[Onward[P]]) = F(FirstIn[P]) + tour.size[P]
      /\ \A P, Q \in Seg : t[P] < t[Q] => F(FirstIn[P]) + tour.size[P] <= F(FirstIn[Q])
  <2> HIDE DEF F
  <2> QED
    BY <1>1, <1>2, <1>3, SegmentPlaces DEF F
<1>7. \A x \in Node : Offset[x] \in 0..(tour.size[tour.parent[x]] - 1)
  BY OffsetIs
<1>8. ASSUME NEW x \in Node
      PROVE  StepsFrom(p, a, x) = IF F(x) >= F(a) THEN F(x) - F(a) ELSE F(x) - F(a) + N
  <2> DEFINE e == FirstIn[A]
  <2>1. p[x] \in 1..N /\ p[a] \in 1..N /\ p[e] \in 1..N
    BY <1>1, <1>4 DEF NumberedTour
  <2> HIDE DEF e
  <2> QED
    BY <1>1, <2>1 DEF StepsFrom, e
<1> HIDE DEF F
<1>9. \A x \in Node : F(FirstIn[tour.parent[x]]) \in Nat /\ F(x) \in Nat
                      /\ Offset[x] \in Nat /\ tour.size[tour.parent[x]] \in Nat
  BY <1>1, <1>4, <1>5, <1>7
<1>10. \A x \in Node : tour.parent[x] = A => F(x) = Offset[x]
  BY <1>5, <1>6, <1>9
<1>11. \A x, y \in Node : tour.parent[x] = tour.parent[y] => F(x) - F(y) = Offset[x] - Offset[y]
  BY <1>6, <1>9
<1>12. \A x, y \in Node : t[tour.parent[x]] < t[tour.parent[y]] => F(x) < F(y)
  <2> SUFFICES ASSUME NEW x \in Node, NEW y \in Node, t[tour.parent[x]] < t[tour.parent[y]]
               PROVE  F(x) < F(y)
    OBVIOUS
  <2>1. F(FirstIn[tour.parent[x]]) + tour.size[tour.parent[x]] <= F(FirstIn[tour.parent[y]])
    BY <1>1, <1>6
  <2>2. Offset[x] \in 0..(tour.size[tour.parent[x]] - 1)
    BY <1>7
  <2>3. F(x) = F(FirstIn[tour.parent[x]]) + Offset[x] /\ F(y) = F(FirstIn[tour.parent[y]]) + Offset[y]
    BY <1>6
  <2> QED
    BY <1>9, <2>1, <2>2, <2>3
<1> QED
  BY <1>1, <1>5, <1>6, <1>8, <1>10, <1>11, <1>12 DEF A, F, t

-----------------------------------------------------------------------------
(* BETWEEN. *)

\* BETWEEN compares the steps from its first node to the others.
LEMMA BetweenSteps ==
    ASSUME N > 1, IInv, NEW p, NumberedTour(SUC, p), NEW a \in Node, NEW b \in Node, NEW c \in Node
    PROVE  BETWEEN(a, b, c) <=> StepsFrom(p, a, b) <= StepsFrom(p, a, c)
<1> DEFINE par(x) == tour.parent[x]
           A == par(a)
           F(x) == StepsFrom(p, FirstIn[A], x)
           t(x) == SegmentPlace(A)[par(x)]
           G(x) == StepsFrom(p, a, x)
           rank(x) == tour.rank[x]
<1>1. A \in Seg /\ N \in Nat /\ par(b) \in Seg /\ par(c) \in Seg
  BY TreeParts, NodesCounted
<1>2. /\ F(a) \in 0..(N - 1) /\ F(b) \in 0..(N - 1) /\ F(c) \in 0..(N - 1)
      /\ G(a) = 0
      /\ G(b) = IF F(b) >= F(a) THEN F(b) - F(a) ELSE F(b) - F(a) + N
      /\ G(c) = IF F(c) >= F(a) THEN F(c) - F(a) ELSE F(c) - F(a) + N
      /\ \A x, y \in {a, b, c} : /\ par(x) = par(y) => F(x) - F(y) = Offset[x] - Offset[y]
                                 /\ t(x) < t(y) => F(x) < F(y)
  BY NodePlaces, StepsCount
<1>3. /\ CountedFrom(SegmentPlace(A), Onward, A, SegmentCount(2)) /\ SegmentCount(2) \in Nat
      /\ \A P, Q \in Seg : P # A /\ Q # A /\ P # Q =>
             InRing(A, P, Q) = (SegmentPlace(A)[P] < SegmentPlace(A)[Q])
  BY <1>1, SegmentsCounted
<1>4. /\ t(a) = 1 /\ t(b) \in Nat /\ t(c) \in Nat /\ t(b) >= 1 /\ t(c) >= 1
      /\ \A x, y \in {a, b, c} : t(x) = t(y) <=> par(x) = par(y)
  BY <1>1, <1>3 DEF CountedFrom
<1>5. ASSUME NEW x \in {a, b, c}, NEW y \in {a, b, c}, par(x) = par(y)
      PROVE  /\ (reversed = Turned(tour, par(x))) \in BOOLEAN
             /\ rank(x) \in Int /\ rank(y) \in Int
             /\ reversed = Turned(tour, par(x)) => Offset[x] - Offset[y] = rank(x) - rank(y)
             /\ ~(reversed = Turned(tour, par(x))) => Offset[x] - Offset[y] = rank(y) - rank(x)
  <2> DEFINE P == par(x)  h == tour.rank[FirstIn[P]]
  <2>1. P \in Seg /\ Turned(tour, P) = tour.rev[P] /\ tour.rev[P] \in BOOLEAN /\ reversed \in BOOLEAN
    BY TreeParts
  <2>2. rank(x) \in Int /\ rank(y) \in Int /\ h \in Int
    BY <2>1, TreeParts DEF FirstIn
  <2>3. /\ Offset[x] = IF reversed # tour.rev[P] THEN h - rank(x) ELSE rank(x) - h
        /\ Offset[y] = IF reversed # tour.rev[P] THEN h - rank(y) ELSE rank(y) - h
    BY <1>5, OffsetIs
  <2> HIDE DEF P, h, rank
  <2>4. CASE reversed = tour.rev[P]
    BY <2>1, <2>2, <2>3, <2>4 DEF P
  <2>5. CASE reversed # tour.rev[P]
    BY <2>1, <2>2, <2>3, <2>5 DEF P
  <2> QED
    BY <2>4, <2>5
<1>6. ASSUME NEW x \in {a, b, c}, NEW y \in {a, b, c}, F(x) = F(y) PROVE x = y
  <2>1. p[x] \in 1..N /\ p[y] \in 1..N /\ p[FirstIn[A]] \in 1..N
    BY <1>1, TreeParts DEF NumberedTour, FirstIn
  <2>2. p[x] = p[y]
    BY <1>1, <1>6, <2>1 DEF StepsFrom
  <2> QED
    BY <2>2 DEF NumberedTour
<1> HIDE DEF F, G, t, rank
<1>7. CASE b \in {a, c} \/ a = c
  <2>1. BETWEEN(a, b, c) <=> b \in {a, c}
    BY <1>7 DEF BETWEEN
  <2>2. b = a => G(b) <= G(c)
    BY <1>1, <1>2
  <2>3. b = c => G(b) <= G(c)
    BY <1>1, <1>2
  <2>4. a = c /\ b # a => ~(G(b) <= G(c))
    <3>1. a # b => F(a) # F(b)
      BY <1>6
    <3> QED
      BY <1>1, <1>2, <3>1
  <2> QED
    BY <1>7, <2>1, <2>2, <2>3, <2>4 DEF G
<1>8. CASE a # b /\ b # c /\ a # c
  <2>1. F(a) # F(b) /\ F(b) # F(c) /\ F(a) # F(c)
    BY <1>6, <1>8
  <2>2. BETWEEN(a, b, c) <=> IF Together(a, b, c) THEN InList(a, b, c)
                             ELSE BetweenSegments(par(a), par(b), par(c))
    BY <1>8 DEF BETWEEN
  <2>3. Together(a, b, c) <=> par(a) = par(c) \/ par(b) = par(c) \/ par(a) = par(b)
    BY DEF Together
  <2>4. CASE par(a) = par(c) /\ par(b) = par(a)
    <3>1. BETWEEN(a, b, c) <=> (reversed = Turned(tour, par(a))) = Inside(rank(a), rank(b), rank(c))
      BY <2>2, <2>3, <2>4 DEF InList, rank
    <3>2. CASE reversed = Turned(tour, par(a))
      <4>1. BETWEEN(a, b, c) <=> Inside(rank(a), rank(b), rank(c))
        BY <3>1, <3>2 DEF Inside
      <4>2. /\ F(b) - F(a) = rank(b) - rank(a) /\ F(c) - F(a) = rank(c) - rank(a)
            /\ rank(a) \in Int /\ rank(b) \in Int /\ rank(c) \in Int
        BY <1>2, <1>5, <2>4, <3>2
      <4> QED
        BY <1>1, <1>2, <2>1, <4>1, <4>2 DEF Inside, G
    <3>3. CASE ~(reversed = Turned(tour, par(a)))
      <4>1. BETWEEN(a, b, c) <=> ~Inside(rank(a), rank(b), rank(c))
        BY <3>1, <3>3 DEF Inside
      <4>2. /\ F(b) - F(a) = rank(a) - rank(b) /\ F(c) - F(a) = rank(a) - rank(c)
            /\ rank(a) \in Int /\ rank(b) \in Int /\ rank(c) \in Int
        BY <1>2, <1>5, <2>4, <3>3
      <4> QED
        BY <1>1, <1>2, <2>1, <4>1, <4>2 DEF Inside, G
    <3> QED
      BY <3>2, <3>3
  <2>5. CASE par(a) = par(c) /\ par(b) # par(a)
    <3>1. BETWEEN(a, b, c) <=> (reversed = Turned(tour, par(a))) = (rank(a) > rank(c))
      BY <2>2, <2>3, <2>5 DEF InList, rank
    <3>2. F(a) < F(b) /\ F(c) < F(b)
      BY <1>2, <1>4, <2>5
    <3>3. BETWEEN(a, b, c) <=> F(c) < F(a)
      <4>1. CASE reversed = Turned(tour, par(a))
        <5>1. F(c) - F(a) = rank(c) - rank(a) /\ rank(a) \in Int /\ rank(c) \in Int
          BY <1>2, <1>5, <2>5, <4>1
        <5>2. BETWEEN(a, b, c) <=> rank(a) > rank(c)
          BY <3>1, <4>1, <5>1
        <5> QED
          BY <1>2, <5>1, <5>2
      <4>2. CASE ~(reversed = Turned(tour, par(a)))
        <5>1. F(c) - F(a) = rank(a) - rank(c) /\ rank(a) \in Int /\ rank(c) \in Int
          BY <1>2, <1>5, <2>5, <4>2
        <5>2. BETWEEN(a, b, c) <=> ~(rank(a) > rank(c))
          BY <3>1, <4>2, <5>1
        <5> QED
          BY <1>2, <2>1, <5>1, <5>2
      <4> QED
        BY <4>1, <4>2
    <3> QED
      BY <1>1, <1>2, <2>1, <3>2, <3>3 DEF G
  <2>6. CASE par(b) = par(c) /\ par(b) # par(a)
    <3>1. BETWEEN(a, b, c) <=> (reversed = Turned(tour, par(b))) = (rank(b) < rank(c))
      BY <2>2, <2>3, <2>6 DEF InList, rank
    <3>2. F(a) < F(b) /\ F(a) < F(c)
      BY <1>2, <1>4, <2>6
    <3>3. BETWEEN(a, b, c) <=> F(b) < F(c)
      <4>1. CASE reversed = Turned(tour, par(b))
        <5>1. F(b) - F(c) = rank(b) - rank(c) /\ rank(b) \in Int /\ rank(c) \in Int
          BY <1>2, <1>5, <2>6, <4>1
        <5>2. BETWEEN(a, b, c) <=> rank(b) < rank(c)
          BY <3>1, <4>1, <5>1
        <5> QED
          BY <1>2, <5>1, <5>2
      <4>2. CASE ~(reversed = Turned(tour, par(b)))
        <5>1. F(b) - F(c) = rank(c) - rank(b) /\ rank(b) \in Int /\ rank(c) \in Int
          BY <1>2, <1>5, <2>6, <4>2
        <5>2. BETWEEN(a, b, c) <=> ~(rank(b) < rank(c))
          BY <3>1, <4>2, <5>1
        <5> QED
          BY <1>2, <2>1, <5>1, <5>2
      <4> QED
        BY <4>1, <4>2
    <3> QED
      BY <1>1, <1>2, <2>1, <3>2, <3>3 DEF G
  <2>7. CASE par(a) = par(b) /\ par(c) # par(a)
    <3>1. BETWEEN(a, b, c) <=> (reversed = Turned(tour, par(a))) = (rank(a) < rank(b))
      BY <2>2, <2>3, <2>7 DEF InList, rank
    <3>2. F(a) < F(c) /\ F(b) < F(c)
      BY <1>2, <1>4, <2>7
    <3>3. BETWEEN(a, b, c) <=> F(a) < F(b)
      <4>1. CASE reversed = Turned(tour, par(a))
        <5>1. F(a) - F(b) = rank(a) - rank(b) /\ rank(a) \in Int /\ rank(b) \in Int
          BY <1>2, <1>5, <2>7, <4>1
        <5>2. BETWEEN(a, b, c) <=> rank(a) < rank(b)
          BY <3>1, <4>1, <5>1
        <5> QED
          BY <1>2, <5>1, <5>2
      <4>2. CASE ~(reversed = Turned(tour, par(a)))
        <5>1. F(a) - F(b) = rank(b) - rank(a) /\ rank(a) \in Int /\ rank(b) \in Int
          BY <1>2, <1>5, <2>7, <4>2
        <5>2. BETWEEN(a, b, c) <=> ~(rank(a) < rank(b))
          BY <3>1, <4>2, <5>1
        <5> QED
          BY <1>2, <2>1, <5>1, <5>2
      <4> QED
        BY <4>1, <4>2
    <3> QED
      BY <1>1, <1>2, <2>1, <3>2, <3>3 DEF G
  <2>8. CASE par(a) # par(b) /\ par(b) # par(c) /\ par(a) # par(c)
    <3>1. BETWEEN(a, b, c) <=> InRing(par(a), par(b), par(c))
      <4>1. tour.type = 2
        BY TreeParts
      <4> QED
        BY <2>2, <2>3, <2>8, <4>1 DEF BetweenSegments
    <3>2. BETWEEN(a, b, c) <=> t(b) < t(c)
      BY <1>1, <1>3, <2>8, <3>1 DEF t
    <3>3. t(b) # t(c) /\ t(a) < t(b) /\ t(a) < t(c)
      BY <1>4, <2>8
    <3>4. F(a) < F(b) /\ F(a) < F(c)
      BY <1>2, <3>3
    <3>5. t(b) < t(c) <=> F(b) < F(c)
      BY <1>2, <1>4, <3>3
    <3> QED
      BY <1>1, <1>2, <2>1, <3>2, <3>4, <3>5 DEF G
  <2> QED
    BY <2>4, <2>5, <2>6, <2>7, <2>8
<1> QED
  BY <1>7, <1>8

\* A step modulo N.
LEMMA ModSteps ==
    ASSUME NEW n \in Nat, n # 0, NEW i \in 1..n, NEW j \in 1..n
    PROVE  (j - i) % n = IF j >= i THEN j - i ELSE j - i + n
<1>1. CASE j >= i
  BY <1>1
<1>2. CASE j < i
  <2>1. (j - i) % n = ((j - i) + n) % n
    OBVIOUS
  <2> QED
    BY <1>2, <2>1
<1> QED
  BY <1>1, <1>2

\* The walk along SUC meets the nodes in the order of a numbering.
LEMMA WalkNumbered ==
    ASSUME N > 1, IInv
    PROVE  \E p : /\ NumberedTour(SUC, p)
                  /\ \A i \in 1..N : Ring(SUC, FirstNode)[i] \in Node /\ p[Ring(SUC, FirstNode)[i]] = i
<1>1. N \in Nat /\ N \in 1..N /\ FirstNode \in Node
  BY NodesCounted, TreeAssumption
<1>2. SUC \in Tours
  BY SeenTours
<1>3. IsTour(SUC) /\ DOMAIN SUC = Node
  BY <1>2 DEF Tours
<1>4. PICK p : \E z \in Node : Numbered(SUC, Node, N, p, FirstNode, z) /\ SUC[z] = FirstNode
  BY <1>1, <1>3, TourNumbered
<1>5. PICK z \in Node : Numbered(SUC, Node, N, p, FirstNode, z) /\ SUC[z] = FirstNode
  BY <1>4
<1>6. \A y \in DOMAIN SUC : SUC[y] = FirstNode => y = z
  <2>1. \A y \in Node : y # z => p[SUC[y]] = p[y] + 1 /\ p[y] \in 1..N /\ p[FirstNode] = 1
    BY <1>5 DEF Numbered
  <2> QED
    BY <1>1, <1>3, <2>1
<1>7. Visits(Ring(SUC, FirstNode), Node, N, p, z)
  BY <1>1, <1>3, <1>5, <1>6, RingFrom
<1>8. NumberedTour(SUC, p)
  <2>1. \A x \in Node : SUC[x] \in Node /\ p[x] \in 1..N
    BY <1>3, <1>5 DEF Numbered, IsTour
  <2>2. \A x \in Node : p[SUC[x]] = IF p[x] = N THEN 1 ELSE p[x] + 1
    <3> TAKE x \in Node
    <3>1. CASE x = z
      BY <1>5, <3>1 DEF Numbered
    <3>2. CASE x # z
      <4>1. p[SUC[x]] = p[x] + 1 /\ p[z] = N /\ p[x] # p[z]
        BY <1>5, <3>2 DEF Numbered
      <4> QED
        BY <4>1
    <3> QED
      BY <3>1, <3>2
  <2>3. \A x, y \in Node : p[x] = p[y] => x = y
    BY <1>5 DEF Numbered
  <2>4. \A i \in 1..N : \E x \in Node : p[x] = i
    BY <1>7 DEF Visits
  <2> QED
    BY <2>1, <2>2, <2>3, <2>4 DEF NumberedTour
<1> QED
  BY <1>7, <1>8 DEF Visits

\* With two levels, BETWEEN tells the order of three nodes on the tour.
THEOREM BetweenCorrect ==
    ASSUME N > 1, TreeTypes = {2}
    PROVE  Spec => []BetweenIsOnPath
<1>1. ASSUME IInv PROVE BetweenIsOnPath
  <2> DEFINE walk == Ring(SUC, FirstNode)
  <2>1. PICK p : NumberedTour(SUC, p) /\ \A i \in 1..N : walk[i] \in Node /\ p[walk[i]] = i
    BY <1>1, WalkNumbered
  <2> HIDE DEF walk
  <2>2. N \in Nat /\ N # 0
    BY NodesCounted
  <2>3. ASSUME NEW i \in 1..N, NEW j \in 1..N PROVE StepsFrom(p, walk[i], walk[j]) = (j - i) % N
    BY <2>1, <2>2, ModSteps DEF StepsFrom
  <2>4. ASSUME NEW i \in 1..N, NEW j \in 1..N, NEW k \in 1..N
        PROVE  BETWEEN(walk[i], walk[j], walk[k]) <=> (j - i) % N <= (k - i) % N
    <3>1. walk[i] \in Node /\ walk[j] \in Node /\ walk[k] \in Node
      BY <2>1
    <3>2. BETWEEN(walk[i], walk[j], walk[k]) <=>
              StepsFrom(p, walk[i], walk[j]) <= StepsFrom(p, walk[i], walk[k])
      BY <1>1, <2>1, <3>1, BetweenSteps
    <3> QED
      BY <2>3, <3>2
  <2> QED
    BY <2>4 DEF BetweenIsOnPath, walk
<1> QED
  BY <1>1, Invariance, PTL
-----------------------------------------------------------------------------
(* SegmentSize. *)

\* The places from the i-th to the j-th are as many as the steps, and one.
LEMMA PathSize ==
    ASSUME NEW n \in Nat, n # 0, NEW i \in 1..n, NEW j \in 1..n
    PROVE  Cardinality({k \in 1..n : (k - i) % n <= (j - i) % n}) = ((j - i) % n) + 1
<1> DEFINE g(k) == (k - i) % n
           D == {k \in 1..n : g(k) <= g(j)}
           num == [k \in 1..n |-> g(k) + 1]
           f == [k \in 1..n |-> IF k = n THEN 1 ELSE k + 1]
<1>1. \A k \in 1..n : g(k) = IF k >= i THEN k - i ELSE k - i + n
  BY ModSteps
<1> HIDE DEF g
<1>2. i \in D /\ j \in D /\ g(i) = 0 /\ g(j) \in Nat /\ g(j) + 1 \in Nat \ {0}
  BY <1>1
<1>3. \A x \in D : num[x] \in 1..(g(j) + 1)
  BY <1>1, <1>2
<1>4. \A x, y \in D : num[x] = num[y] => x = y
  BY <1>1
<1>5. \A x \in D : x # j => f[x] \in D /\ num[f[x]] = num[x] + 1
  <2> SUFFICES ASSUME NEW x \in D, x # j PROVE f[x] \in D /\ num[f[x]] = num[x] + 1
    OBVIOUS
  <2>1. g(x) < g(j)
    BY <1>1
  <2>2. f[x] \in 1..n /\ g(f[x]) = g(x) + 1
    BY <1>1, <2>1
  <2> QED
    BY <1>1, <1>2, <2>1, <2>2
<1>6. num[i] = 1 /\ num[j] = g(j) + 1
  BY <1>2
<1>7. Numbered(f, D, g(j) + 1, num, i, j)
  <2> HIDE DEF D, num, f
  <2> QED
    BY <1>3, <1>4, <1>5, <1>6 DEF Numbered
<1>8. Cardinality(D) = g(j) + 1
  <2> HIDE DEF D, num, f
  <2> QED
    BY <1>2, <1>7, NumberedSize
<1> QED
  BY <1>8 DEF g

\* Within a segment, SegmentSize is one more than the steps.
LEMMA SizeWithin ==
    ASSUME N > 1, IInv, NEW p, NumberedTour(SUC, p), NEW a \in Node, NEW b \in Node,
           tour.parent[a] = tour.parent[b]
    PROVE  SegmentSizeBetween(a, b) = StepsFrom(p, a, b) + 1
<1> DEFINE A == tour.parent[a]
           F(x) == StepsFrom(p, FirstIn[A], x)
           h == tour.rank[FirstIn[A]]
<1>1. SegmentSizeBetween(a, b) = Steps(Backwards(tour, a), a, b, N) + 1
  BY DEF SegmentSizeBetween
<1>2. /\ A \in Seg /\ tour.rank[a] \in Int /\ tour.rank[b] \in Int /\ h \in Int
      /\ tour.rev[A] \in BOOLEAN /\ reversed \in BOOLEAN
  BY TreeParts DEF FirstIn
<1>3. /\ F(a) = Offset[a] /\ F(b) = Offset[b] /\ N \in Nat
      /\ StepsFrom(p, a, b) = IF F(b) >= F(a) THEN F(b) - F(a) ELSE F(b) - F(a) + N
  BY NodePlaces
<1>4. /\ Offset[a] = IF reversed # tour.rev[A] THEN h - tour.rank[a] ELSE tour.rank[a] - h
      /\ Offset[b] = IF reversed # tour.rev[A] THEN h - tour.rank[b] ELSE tour.rank[b] - h
      /\ Backwards(tour, a) = (reversed # tour.rev[A])
  BY OffsetIs
<1>5. Steps(Backwards(tour, a), a, b, N) =
          LET d == IF Backwards(tour, a) THEN tour.rank[a] - tour.rank[b] ELSE tour.rank[b] - tour.rank[a]
          IN  IF d < 0 THEN d + N ELSE d
  BY DEF Steps
<1> HIDE DEF F, h, A
<1>6. CASE reversed # tour.rev[A]
  BY <1>1, <1>2, <1>3, <1>4, <1>5, <1>6
<1>7. CASE ~(reversed # tour.rev[A])
  <2>1. Offset[a] = tour.rank[a] - h /\ Offset[b] = tour.rank[b] - h /\ ~Backwards(tour, a)
    BY <1>4, <1>7
  <2>2. Steps(Backwards(tour, a), a, b, N) =
            IF tour.rank[b] - tour.rank[a] < 0 THEN tour.rank[b] - tour.rank[a] + N
                                               ELSE tour.rank[b] - tour.rank[a]
    BY <1>5, <2>1
  <2> QED
    BY <1>1, <1>2, <1>3, <2>1, <2>2
<1> QED
  BY <1>6, <1>7

\* From one segment to another: either at most one segment lies between them and
\* SegmentSize is one more than the steps, or two nodes of different segments do.
LEMMA SizeAcross ==
    ASSUME N > 1, IInv, NEW p, NumberedTour(SUC, p), NEW a \in Node, NEW b \in Node,
           tour.parent[a] # tour.parent[b]
    PROVE  \/ SegmentSizeBetween(a, b) = StepsFrom(p, a, b) + 1
           \/ \E x, y \in Node :
                  /\ StepsFrom(p, a, x) <= StepsFrom(p, a, b) /\ StepsFrom(p, a, y) <= StepsFrom(p, a, b)
                  /\ tour.parent[x] # tour.parent[y]
                  /\ {tour.parent[x], tour.parent[y]} \cap {tour.parent[a], tour.parent[b]} = {}
<1> DEFINE A == tour.parent[a]
           B == tour.parent[b]
           F(x) == StepsFrom(p, FirstIn[A], x)
           t(P) == SegmentPlace(A)[P]
           K == SegmentCount(2)
           size == tour.size
           O1 == Onward[A]
           O2 == Onward[O1]
           d == Steps(reversed, A, B, K)
<1>1. A \in Seg /\ B \in Seg /\ A # B /\ tour.type = 2 /\ \A x \in Node : tour.parent[x] \in Seg
  BY TreeParts
<1>2. BySegments(SUC, tour.parent, Offset, size, Onward, FirstIn, LastIn)
  BY TourBySegments
<1>3. \A P \in Seg : Onward[P] \in Seg /\ FirstIn[P] \in Node /\ tour.parent[FirstIn[P]] = P
                     /\ Offset[FirstIn[P]] = 0 /\ size[P] \in Nat
  BY <1>2 DEF BySegments
<1>4. K \in Nat /\ CountedFrom(SegmentPlace(A), Onward, A, K)
  BY <1>1, SegmentsCounted
<1>5. /\ t(A) = 1 /\ \A P \in Seg : t(P) \in 1..K
      /\ \A P, Q \in Seg : t(P) = t(Q) => P = Q
      /\ \A P \in Seg : t(Onward[P]) = IF t(P) = K THEN 1 ELSE t(P) + 1
  BY <1>4 DEF CountedFrom
<1>6. /\ N \in Nat /\ \A x \in Node : F(x) \in 0..(N - 1)
      /\ \A x \in Node : tour.parent[x] = A => F(x) = Offset[x]
      /\ \A x, y \in Node : t(tour.parent[x]) < t(tour.parent[y]) => F(x) < F(y)
      /\ \A x \in Node : StepsFrom(p, a, x) = IF F(x) >= F(a) THEN F(x) - F(a) ELSE F(x) - F(a) + N
      /\ \A P \in Seg : Onward[P] # A => F(FirstIn[Onward[P]]) = F(FirstIn[P]) + size[P]
      /\ \A x \in Node : F(x) = F(FirstIn[tour.parent[x]]) + Offset[x]
  BY NodePlaces
<1>7. /\ SegmentSizeBetween(a, b) = After(a) + Middle(A, reversed, d, SegmentSize(2)) + Before(b) + 2
      /\ t(B) = d + 1 /\ SegmentSize(2) \in Nat
  <2>1. SegmentSize(2) \in Nat
    BY <1>6, Sizes
  <2> HIDE DEF d, K
  <2>2. t(B) = d + 1
    BY <1>1 DEF SegmentPlace, d, K
  <2>3. SegmentSizeBetween(a, b) = After(a) + Middle(A, reversed, d, SegmentSize(2)) + Before(b) + 2
    BY <1>1 DEF SegmentSizeBetween, d, K
  <2> QED
    BY <2>1, <2>2, <2>3
<1>8. /\ After(a) = size[A] - 1 - Offset[a] /\ Before(b) = Offset[b]
      /\ Offset[a] \in Nat /\ Offset[b] \in Nat /\ F(a) = Offset[a]
  BY <1>6, OffsetIs
<1>9. /\ Middle(A, reversed, 2, SegmentSize(2)) = size[O1]
      /\ Middle(A, reversed, 1, SegmentSize(2)) = 0
  <2>1. Middle(A, reversed, 2, SegmentSize(2)) = size[O1]
    BY <1>1 DEF Middle, Onward
  <2>2. Middle(A, reversed, 1, SegmentSize(2)) = (1 - 1) * SegmentSize(2)
    BY DEF Middle
  <2> QED
    BY <1>7, <2>1, <2>2
<1>10. d \in Int
  <2>1. PICK base \in Int : RingRanked(tour.rank, Seg, tour.suc, base)
    BY DEF IInv, GoodTree, TreeOfTwo, OwnerRing
  <2>2. Cardinality(Seg) \in Nat
    BY TreeNodes, <1>4
  <2>3. tour.rank[A] \in Int /\ tour.rank[B] \in Int
    BY <1>1, <2>1, <2>2 DEF RingRanked
  <2> HIDE DEF A, B, K
  <2> QED
    BY <1>4, <2>3 DEF Steps
<1> HIDE DEF F, t, K, d, O1, O2, A, B, size
<1>11. d >= 1
  <2>1. t(B) \in 1..K /\ t(B) # 1
    BY <1>1, <1>5
  <2> QED
    BY <1>7, <1>10, <2>1
<1>12. O1 \in Seg /\ t(O1) = 2 /\ O1 # A /\ F(FirstIn[O1]) = size[A] /\ size[A] \in Nat
  <2>1. K # 1
    BY <1>1, <1>4, <1>5, <1>7, <1>11
  <2>2. O1 \in Seg /\ t(O1) = 2 /\ O1 # A
    BY <1>1, <1>3, <1>5, <2>1 DEF O1
  <2>3. F(FirstIn[A]) = 0
    BY <1>1, <1>3, <1>6
  <2>4. F(FirstIn[O1]) = F(FirstIn[A]) + size[A] /\ size[A] \in Nat
    BY <1>1, <1>3, <1>6, <2>2 DEF O1
  <2> QED
    BY <2>2, <2>3, <2>4
<1>13. F(a) < F(b) /\ F(b) \in Int /\ StepsFrom(p, a, b) = F(b) - F(a)
       /\ F(b) = F(FirstIn[B]) + Offset[b]
  <2>1. t(A) < t(B)
    BY <1>5, <1>7, <1>10, <1>11
  <2>2. F(a) < F(b) /\ F(a) \in Int /\ F(b) \in Int
    BY <1>6, <2>1 DEF A, B
  <2> QED
    BY <1>6, <2>2 DEF B
<1>14. CASE d = 1
  <2>1. B = O1
    BY <1>1, <1>5, <1>7, <1>12, <1>14
  <2> QED
    BY <1>7, <1>8, <1>9, <1>12, <1>13, <1>14, <2>1
<1>15. CASE d >= 2
  <2>1. K > 2
    BY <1>1, <1>4, <1>5, <1>7, <1>10, <1>15
  <2>2. O2 \in Seg /\ t(O2) = 3 /\ O2 # A /\ F(FirstIn[O2]) = size[A] + size[O1] /\ size[O1] \in Nat
    <3>1. O2 \in Seg /\ t(O2) = 3 /\ O2 # A
      BY <1>3, <1>4, <1>5, <1>12, <2>1 DEF O2
    <3> QED
      BY <1>3, <1>6, <1>12, <3>1 DEF O2
  <2>3. CASE d = 2
    <3>1. B = O2
      BY <1>1, <1>5, <1>7, <2>2, <2>3
    <3> QED
      BY <1>7, <1>8, <1>9, <1>12, <1>13, <2>2, <2>3, <3>1
  <2>4. CASE d >= 3
    <3> DEFINE x == FirstIn[O1]  y == FirstIn[O2]
    <3>1. x \in Node /\ y \in Node /\ tour.parent[x] = O1 /\ tour.parent[y] = O2
      BY <1>3, <1>12, <2>2
    <3> HIDE DEF x, y
    <3>2. t(A) < t(O1) /\ t(O1) < t(B) /\ t(A) < t(O2) /\ t(O2) < t(B) /\ O1 # O2 /\ O1 # B /\ O2 # B
      BY <1>5, <1>7, <1>10, <1>12, <2>2, <2>4
    <3>3. F(a) < F(x) /\ F(x) < F(b) /\ F(a) < F(y) /\ F(y) < F(b)
      BY <1>6, <3>1, <3>2 DEF A, B
    <3>4. StepsFrom(p, a, x) = F(x) - F(a) /\ StepsFrom(p, a, y) = F(y) - F(a)
          /\ F(x) \in Int /\ F(y) \in Int /\ F(a) \in Int
      BY <1>6, <3>1, <3>3
    <3>5. StepsFrom(p, a, x) <= StepsFrom(p, a, b) /\ StepsFrom(p, a, y) <= StepsFrom(p, a, b)
      BY <1>13, <3>3, <3>4
    <3>6. tour.parent[x] # tour.parent[y] /\ {tour.parent[x], tour.parent[y]} \cap {A, B} = {}
      BY <1>12, <2>2, <3>1, <3>2
    <3> QED
      BY <3>1, <3>5, <3>6 DEF A, B
  <2> QED
    BY <1>10, <1>15, <2>3, <2>4
<1> QED
  BY <1>10, <1>11, <1>14, <1>15

\* With two levels, SegmentSize is the number of nodes from one to another as long as
\* no more than one whole segment lies between theirs.
THEOREM SegmentSizeCorrect ==
    ASSUME N > 1, TreeTypes = {2}
    PROVE  Spec => []SegmentSizeIsNearlyExact
<1>1. ASSUME IInv PROVE SegmentSizeIsNearlyExact
  <2> DEFINE walk == Ring(SUC, FirstNode)
             P(i) == tour.parent[walk[i]]
             path(i, j) == {k \in 1..N : (k - i) % N <= (j - i) % N}
             near(i, j) == P(i) = P(j) \/ (/\ tour.type = 2
                                          /\ Cardinality({P(k) : k \in path(i, j)}) <= 3)
  <2>1. PICK p : NumberedTour(SUC, p) /\ \A i \in 1..N : walk[i] \in Node /\ p[walk[i]] = i
    BY <1>1, WalkNumbered
  <2> HIDE DEF walk
  <2>2. N \in Nat /\ N # 0
    BY NodesCounted
  <2>3. ASSUME NEW i \in 1..N, NEW j \in 1..N PROVE StepsFrom(p, walk[i], walk[j]) = (j - i) % N
    BY <2>1, <2>2, ModSteps DEF StepsFrom
  <2>4. ASSUME NEW i \in 1..N, NEW j \in 1..N, near(i, j)
        PROVE  SegmentSizeBetween(walk[i], walk[j]) = Cardinality(path(i, j))
    <3> DEFINE a == walk[i]  b == walk[j]
    <3>1. a \in Node /\ b \in Node
      BY <2>1
    <3>2. Cardinality(path(i, j)) = StepsFrom(p, a, b) + 1
      BY <2>2, <2>3, PathSize
    <3>3. CASE P(i) = P(j)
      BY <1>1, <2>1, <3>1, <3>2, <3>3, SizeWithin
    <3>4. CASE P(i) # P(j)
      <4> SUFFICES ASSUME SegmentSizeBetween(a, b) # StepsFrom(p, a, b) + 1
                   PROVE  FALSE
        BY <3>2
      <4>1. PICK x \in Node, y \in Node :
                  /\ StepsFrom(p, a, x) <= StepsFrom(p, a, b) /\ StepsFrom(p, a, y) <= StepsFrom(p, a, b)
                  /\ tour.parent[x] # tour.parent[y]
                  /\ {tour.parent[x], tour.parent[y]} \cap {tour.parent[a], tour.parent[b]} = {}
        BY <1>1, <2>1, <3>1, <3>4, SizeAcross
      <4> DEFINE S == {P(k) : k \in path(i, j)}
      <4>2. \A v \in Node : p[v] \in 1..N /\ walk[p[v]] = v
        <5> TAKE v \in Node
        <5>1. p[v] \in 1..N
          BY <2>1 DEF NumberedTour
        <5>2. walk[p[v]] \in Node /\ p[walk[p[v]]] = p[v]
          BY <2>1, <5>1
        <5> QED
          BY <2>1, <5>1, <5>2 DEF NumberedTour
      <4>3. \A v \in Node : StepsFrom(p, a, v) <= StepsFrom(p, a, b) => tour.parent[v] \in S
        <5> SUFFICES ASSUME NEW v \in Node, StepsFrom(p, a, v) <= StepsFrom(p, a, b)
                     PROVE  tour.parent[v] \in S
          OBVIOUS
        <5> DEFINE k == p[v]
        <5>1. k \in 1..N /\ walk[k] = v
          BY <4>2
        <5> HIDE DEF k
        <5>2. (k - i) % N <= (j - i) % N
          BY <2>3, <5>1
        <5>3. k \in path(i, j)
          BY <5>1, <5>2
        <5>4. P(k) = tour.parent[v]
          BY <5>1
        <5> QED
          BY <5>3, <5>4
      <4>4. {tour.parent[a], tour.parent[b], tour.parent[x], tour.parent[y]} \subseteq S
        <5>1. StepsFrom(p, a, a) <= StepsFrom(p, a, b) /\ StepsFrom(p, a, b) <= StepsFrom(p, a, b)
          <6>1. StepsFrom(p, a, a) = 0 /\ StepsFrom(p, a, b) \in 0..(N - 1)
            BY <2>1, <3>1, StepsCount
          <6> QED
            BY <2>2, <6>1
        <5> HIDE DEF S
        <5> QED
          BY <3>1, <4>1, <4>3, <5>1
      <4>5. IsFiniteSet(S) /\ Cardinality(S) <= 3
        <5>1. S \subseteq Seg
          BY <1>1, <2>1, TreeParts
        <5>2. IsFiniteSet(Seg)
          BY TreeNodes
        <5>3. IsFiniteSet(S)
          BY <5>1, <5>2, FS_Subset
        <5> QED
          BY <2>4, <3>4, <5>3
      <4> HIDE DEF S
      <4> DEFINE s2 == {tour.parent[a]} \cup {tour.parent[b]}
                 s3 == s2 \cup {tour.parent[x]}
                 s4 == s3 \cup {tour.parent[y]}
      <4>6. IsFiniteSet({tour.parent[a]}) /\ Cardinality({tour.parent[a]}) = 1
        BY FS_Singleton
      <4>7. IsFiniteSet(s2) /\ Cardinality(s2) = 2
        <5> DEFINE s1 == {tour.parent[a]}
        <5>1. tour.parent[b] \notin s1 /\ IsFiniteSet(s1) /\ Cardinality(s1) = 1
          BY <3>4, <4>6
        <5> HIDE DEF s1
        <5>2. IsFiniteSet(s1 \cup {tour.parent[b]}) /\ Cardinality(s1 \cup {tour.parent[b]}) = 1 + 1
          BY <5>1, FS_AddElement
        <5> QED
          BY <5>2 DEF s1
      <4>8. IsFiniteSet(s3) /\ Cardinality(s3) = 3
        <5>1. tour.parent[x] \notin s2
          BY <4>1
        <5> HIDE DEF s2
        <5>2. /\ IsFiniteSet(s2 \cup {tour.parent[x]})
              /\ Cardinality(s2 \cup {tour.parent[x]}) = 2 + 1
          BY <4>7, <5>1, FS_AddElement
        <5> QED
          BY <5>2
      <4>9. Cardinality(s4) = 4
        <5>1. tour.parent[y] \notin s3
          BY <4>1
        <5> HIDE DEF s3
        <5>2. Cardinality(s3 \cup {tour.parent[y]}) = 3 + 1
          BY <4>8, <5>1, FS_AddElement
        <5> QED
          BY <5>2
      <4>10. s4 \subseteq S
        BY <4>4
      <4> HIDE DEF s4
      <4>11. Cardinality(s4) <= Cardinality(S)
        BY <4>5, <4>10, FS_Subset
      <4>12. Cardinality(S) \in Nat
        BY <4>5, FS_CardinalityType
      <4> QED
        BY <4>5, <4>9, <4>11, <4>12
    <3> QED
      BY <3>3, <3>4
  <2> QED
    BY <2>4 DEF SegmentSizeIsNearlyExact, walk
<1> QED
  BY <1>1, Invariance, PTL
=============================================================================
