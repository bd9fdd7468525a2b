--------------------------- MODULE NonSequentialMoves ---------------------------
(***************************************************************************)
(* The search for non-sequential moves: src/Gain23.cpp and                 *)
(* src/BridgeGain.cpp.  Gain23 looks for an exchange s1, s2, ..., s2k that *)
(* splits the tour into two cycles, and BridgeGain for a second exchange   *)
(* t1, t2, ... that joins them.  On its way Gain23 makes the sequential    *)
(* moves it meets.                                                         *)
(*                                                                         *)
(* Gains and candidates only decide which of the choices are tried; here   *)
(* every one may be.  Nodes are counted from s2: s1 is N, s2 is 1.         *)
(***************************************************************************)
EXTENDS MakeMoves

VARIABLES
    s,          \* <<s1, s2, ...>>, chosen by Gain23
    case,       \* Case6 or Case8: the case of the last pair of s
    t,          \* <<t1, t2, ...>>, chosen by BridgeGain
    side,       \* <<u2, u3>>: t1 is chosen between them, t3 is not
    pc,         \* "gain", "bridge", "swap", "made" or "error"
    swaps,      \* what is left of the 2-opt moves: triples of nodes
    tour        \* the nodes in their order on the tour

vars == <<s, case, t, side, pc, swaps, tour>>

\* BETWEEN on nodes of q = <<s1, s2, ...>>.
Btw(q, a, b, c) == BETWEEN(q[a], q[b], q[c])

-----------------------------------------------------------------------------
(* Gain23: choice of s4, s6 and s8.  As in SequentialMoves, the operators    *)
(* take the nodes up to the odd one, and X is X4, X6 or X8.                  *)

Ends4(q) == {<<Side(q[3], X = 1), X>> : X \in 1..2}

X4(q) == IF q[4] = SUC(q[3]) THEN 1 ELSE 2

Case6(q, X) ==
    IF X4(q) = 2 THEN (IF Btw(q, 2, 5, 4) THEN 1 ELSE 2) + 2 * (X - 1)
    ELSE IF Btw(q, 2, 5, 3) THEN 4 + X ELSE 6 + X

End6(q, X) ==
    Side(q[5], (X = 1) <=> BETWEEN(q[2], q[5], IF X4(q) = 2 THEN q[4] ELSE q[3]))

Tried6(q, X) ==
    /\ Case6(q, X) \in 1..7
    /\ Case6(q, X) \in {3, 4} => q[5] # q[1] /\ End6(q, X) # q[1]
    /\ Case6(q, X) \in {5, 6} => End6(q, X) # q[1]

Ends6(q) == {<<End6(q, X), Case6(q, X)>> : X \in {X \in 1..2 : Tried6(q, X)}}

\* Case8 for the first s8; from 17 on the exchange leaves two cycles.
Case8(q, c6) ==
    CASE c6 = 3 /\ ~Btw(q, 5, 7, 4) -> 17
      [] c6 = 4 /\ ~Btw(q, 2, 7, 5) -> 18
      [] c6 = 7 /\ ~Btw(q, 2, 7, 3) -> 19
      [] OTHER -> c6

Forward8(q, c6) ==
    \/ c6 = 1 /\ Btw(q, 2, 7, 5)
    \/ c6 = 2 /\ Btw(q, 3, 7, 6)
    \/ c6 = 3 /\ (Btw(q, 5, 7, 4) \/ ~Btw(q, 3, 7, 1))
    \/ c6 = 4 /\ Btw(q, 2, 7, 5) /\ Btw(q, 2, 7, 4)
    \/ c6 = 6 /\ Btw(q, 2, 7, 3)
    \/ c6 = 7 /\ (Btw(q, 2, 7, 3) \/ ~Btw(q, 5, 7, 1))

End8(q, c6, X) == Side(q[7], (X = 1) <=> Forward8(q, c6))

Tried8(q, c6, X) ==
    /\ X = 2 => c6 \in {3, 4, 7} /\ Case8(q, c6) < 17
    /\ End8(q, c6, X) # q[1]
    /\ {q[7], End8(q, c6, X)} # {q[3], q[4]}

Ends8(q, c6) ==
    {<<End8(q, c6, X), Case8(q, c6) + 8 * (X - 1)>> : X \in {X \in 1..2 : Tried8(q, c6, X)}}

Ends(q) ==
    CASE Len(q) = 3 -> Ends4(q)
      [] Len(q) = 5 -> Ends6(q)
      [] Len(q) = 7 -> Ends8(q, case)

\* case after s4 is X4.  These exchanges give one tour, the others two cycles.
Sequential ==
    CASE Len(s) = 4 -> case = 2
      [] Len(s) = 6 -> case \in {1, 2, 5, 6}
      [] Len(s) = 8 -> case <= 15

-----------------------------------------------------------------------------
(* BridgeGain. *)

\* Case6 as it is passed: 0 for a 2-opt move.
Passed ==
    CASE Len(s) = 4 -> 0
      [] case = 17 -> 3
      [] case = 18 -> 4
      [] case = 19 -> 7
      [] OTHER -> case

\* Mutant: in case 3 the second part ends at the wrong end of (s5,s6).
Sides_Case3 ==
    CASE Passed = 0 -> {<<s[2], s[3]>>}
      [] Passed = 3 -> {<<s[5], s[4]>>, <<s[3], s[5]>>}
      [] Passed = 4 -> {<<s[2], s[5]>>, <<s[6], s[1]>>}
      [] Passed = 7 -> {<<s[2], s[3]>>, <<s[4], s[1]>>}

\* The two cycles, or what is called a segment of them, and which is taken: the
\* one with fewer nodes, but SegmentSize is approximate on segment lists.  A
\* 2-opt move is only passed if its first one is.
Sides ==
    CASE Passed = 0 -> {<<s[2], s[3]>>}
      [] Passed = 3 -> {<<s[5], s[4]>>, <<s[3], s[6]>>}
      [] Passed = 4 -> {<<s[2], s[5]>>, <<s[6], s[1]>>}
      [] Passed = 7 -> {<<s[2], s[3]>>, <<s[4], s[1]>>}

In(x) == BETWEEN(side[1], x, side[2])

\* t2 is SUC(t1) and t1 is not u3; t4 is SUC(t3) for X4 = 1.
Bridges ==
    {q \in {<<x, SUC(x), y, Side(y, f)>> : x, y \in Node, f \in BOOLEAN} :
        /\ In(q[1]) /\ q[1] # side[2]
        /\ {q[1], q[2]} \notin Removed(s)
        /\ ~In(q[3]) /\ q[3] \notin {q[2], PRD(q[2]), SUC(q[2])}
        /\ q[4] # q[2]
        /\ {q[3], q[4]} \notin Removed(s)}

\* t5 and t6 after a 2-opt move: one t6 for each t5.
Bridges6 ==
    {q \in {t \o <<x, Side(x, t[4] = PRD(t[3]) /\ ~In(x))>> :
                x \in Node \ {t[4], SUC(t[4]), PRD(t[4]), t[1], t[2]}} :
        {q[5], q[6]} \notin Removed(s)}

\* Is t8 PRD(t7)?
Backward8(q) ==
    LET u2 == side[1]
        u3 == side[2]
    IN  IF q[4] = SUC(q[3])
        THEN IF BETWEEN(u2, q[5], q[1]) THEN Btw(q, 5, 7, 1)
             ELSE IF BETWEEN(q[2], q[5], u3)
                  THEN BETWEEN(u2, q[7], q[1]) \/ BETWEEN(q[5], q[7], u3)
             ELSE IF BETWEEN(SUC(u3), q[5], q[3])
                  THEN BETWEEN(u2, q[7], u3) \/ Btw(q, 5, 7, 3)
             ELSE ~Btw(q, 4, 7, 6)
        ELSE IF BETWEEN(u2, q[5], q[1])
             THEN ~BETWEEN(u2, q[7], q[6]) /\ ~BETWEEN(q[2], q[7], u3)
             ELSE IF BETWEEN(q[2], q[5], u3) THEN ~Btw(q, 2, 7, 6)
             ELSE IF BETWEEN(SUC(u3), q[5], q[4])
                  THEN ~BETWEEN(SUC(u3), q[7], q[5]) /\ ~BETWEEN(q[3], q[7], PRD(u2))
             ELSE ~Btw(q, 3, 7, 5)

Bridges8 ==
    {q \in {LET p == Append(t, x) IN Append(p, Side(x, ~Backward8(p))) :
                x \in Node \ {t[6], SUC(t[6]), PRD(t[6])}} :
        /\ q[8] # q[1]
        /\ {q[7], q[8]} \notin {{q[1], q[2]}, {q[3], q[4]}}
        /\ {q[7], q[8]} \notin Removed(s)}

\* May the second exchange end here? The edge that closes it is not one that s
\* adds; after t6 and t8 this is not asked.
Closes ==
    CASE Len(t) = 4 /\ Passed = 0 -> t[4] # t[1] /\ {t[4], t[1]} # {s[2], s[3]}
      [] Len(t) = 4 /\ Passed # 0 -> t[4] # t[1] /\ {t[4], t[1]} \notin Added(s)
      [] OTHER -> Last(t) # t[1]

Swaps0 ==
    (IF t[4] = SUC(t[3])
     THEN <<s[1],s[2],s[4], t[3],t[4],t[1], s[1],s[3],s[2]>>
     ELSE <<t[1],t[2],t[3], s[1],s[2],s[3]>>)
    \o (IF Len(t) >= 6 THEN <<t[5],t[6],t[1]>> ELSE <<>>)
    \o (IF Len(t) = 8 THEN <<t[7],t[8],t[1]>> ELSE <<>>)

\* Mutant: only t1 is looked at.
Neither_T1(a, b) == ~BETWEEN(a, t[1], b)

\* The part of the tour, named by two of its ends, that decides on the moves.
Neither(a, b) == ~BETWEEN(a, t[1], b) /\ ~BETWEEN(a, t[3], b)

Swaps3(first, last, a, b) ==
    IF (t[4] = SUC(t[3])) = Neither(a, b)
    THEN first \o <<t[1],t[2],t[3]>> \o last
    ELSE first \o <<t[1],t[2],t[4]>> \o last \o <<t[2],t[4],t[1]>>

SwapsOfBridge ==
    CASE Passed = 0 -> Swaps0
      [] OTHER ->
            (CASE Passed = 3 -> Swaps3(<<s[1],s[2],s[3]>>, <<s[5],s[6],s[1]>>, s[2], s[6])
               [] Passed = 4 -> Swaps3(<<s[1],s[2],s[3]>>, <<s[5],s[6],s[1]>>, s[3], s[5])
               [] Passed = 7 -> Swaps3(<<s[5],s[6],s[1]>>, <<s[3],s[4],s[5]>>, s[4], s[6]))
            \o (IF Len(s) = 8 THEN <<s[7],s[8],s[1]>> ELSE <<>>)

-----------------------------------------------------------------------------
(* A call of Gain23, up to the first move that is made. *)

Init ==
    /\ s = <<N, 1>>
    /\ case = 0
    /\ t = <<>> /\ side = <<>>
    /\ pc = "gain"
    /\ swaps = <<>>
    /\ tour = [i \in 1..N |-> i]

\* s3 and s4, s5 and s6, s7 and s8.
ChooseNext ==
    /\ pc = "gain" /\ Len(s) < 8
    /\ \E x \in Fresh(s) :
           LET q == Append(s, x)
           IN  \E e \in Ends(q) : s' = Append(q, e[1]) /\ case' = e[2]
    /\ UNCHANGED <<t, side, pc, swaps, tour>>

\* The nodes that swaps, indices of s, stands for.
Named(ks) == [k \in 1..Len(ks) |-> s[ks[k]]]

\* Swap1, Make3OptMove and Make4OptMove.
SequentialSwaps ==
    Named(CASE Len(s) = 4 -> Make2OptMove
            [] Len(s) = 6 -> Make3OptMove(case)
            [] Len(s) = 8 -> Make4OptMove(s, case))

MakeSequential ==
    /\ pc = "gain" /\ Len(s) > 2 /\ Last(s) # s[1]
    /\ Sequential
    /\ swaps' = SequentialSwaps
    /\ pc' = IF swaps' = <<>> THEN "error" ELSE "swap"
    /\ UNCHANGED <<s, case, t, side, tour>>

\* BridgeGain is called; if it finds nothing, Gain23 goes on as if it were not.
CallBridgeGain ==
    /\ pc = "gain" /\ Len(s) > 2 /\ Last(s) # s[1]
    /\ ~Sequential
    /\ side' \in Sides
    /\ pc' = "bridge"
    /\ UNCHANGED <<s, case, t, swaps, tour>>

\* t1 to t4; after a 2-opt move also t5 and t6, t7 and t8.
ChooseBridge ==
    /\ pc = "bridge"
    /\ \/ t = <<>> /\ t' \in Bridges
       \/ Passed = 0 /\ Len(t) = 4 /\ t' \in Bridges6
       \/ Passed = 0 /\ Len(t) = 6 /\ t' \in Bridges8
    /\ UNCHANGED <<s, case, side, pc, swaps, tour>>

MakeBridge ==
    /\ pc = "bridge" /\ t # <<>>
    /\ Closes
    /\ swaps' = SwapsOfBridge
    /\ pc' = "swap"
    /\ UNCHANGED <<s, case, t, side, tour>>

Swap1 ==
    /\ pc = "swap"
    /\ tour' = Flip(tour, swaps[1], swaps[2], swaps[3])
    /\ swaps' = SubSeq(swaps, 4, Len(swaps))
    /\ pc' = IF swaps' = <<>> THEN "made" ELSE "swap"
    /\ UNCHANGED <<s, case, t, side>>

Next == ChooseNext \/ MakeSequential \/ CallBridgeGain \/ ChooseBridge \/ MakeBridge \/ Swap1

Spec == Init /\ [][Next]_vars

-----------------------------------------------------------------------------
(* Properties. *)

\* The edges that both exchanges take out, and those that they put in.
AllRemoved == Removed(s) \cup IF t = <<>> THEN {} ELSE Removed(t)
AllAdded == Added(s) \cup IF t = <<>> THEN {} ELSE Added(t)

\* Gain23 hands no case to a Make function that this does not know, and the 2-opt
\* moves that Gain23 and BridgeGain make give the tour whose gain they have
\* computed: two exchanges, neither of which needs to give a tour.
\* Every one of them is called for an edge of the tour it finds, the assertion on
\* entry of Flip and Flip_SL, and for a t3 that is not t2.
MoveIsTheExchange ==
    /\ pc # "error"
    /\ pc = "swap" => Adjacent(tour, swaps[1], swaps[2]) /\ swaps[3] # swaps[2]
    /\ pc = "made" => TourEdges(tour) = Exchanged(AllRemoved, AllAdded)

\* BridgeGain is called for an exchange that leaves two cycles, and the nodes from
\* u2 to u3 are one of them: no edge leads out of them, t1 is within and t3 is not.
SideIsACycle ==
    pc = "bridge" =>
        LET edges == Exchanged(Removed(s), Added(s))
        IN  /\ \A x, y \in Node : {x, y} \in edges => (In(x) <=> In(y))
            /\ ~In(SUC(side[2]))

=============================================================================
