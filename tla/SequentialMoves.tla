---------------------------- MODULE SequentialMoves ----------------------------
(***************************************************************************)
(* The search for sequential moves: src/move/Best2OptMove.cpp, ...,        *)
(* Best5OptMove.cpp.  A Best function chooses t1, t2, ..., t2k, where each *)
(* (t2i-1,t2i) is an edge of the tour to be removed and each (t2i,t2i+1)   *)
(* one to be added, and tells with case numbers how they lie on the tour.  *)
(*                                                                         *)
(* Gains and candidates only decide which of the choices are tried; here   *)
(* every one may be.  Nodes are counted from t2: t1 is N, t2 is 1.  That   *)
(* t2 follows t1 has been seen to before (BestMove in ListTour).           *)
(***************************************************************************)
EXTENDS MakeMoves

CONSTANTS
    MoveTypes   \* the values of move_type: 3 stands for Best3OptMove

ASSUME MoveTypesAssumption == MoveTypes \subseteq 2..5

VARIABLES
    opt,        \* which of the Best functions is running
    t,          \* <<t1, t2, ...>>: the nodes chosen so far
    case,       \* Case6, Case8 or Case10: the case of the last pair of t
    pc,         \* "choose", "swap" (in a Make function), "made" or "error"
    swaps,      \* what is left of the arguments of Swap2, ..., Swap5
    tour        \* the nodes in their order on the tour

vars == <<opt, t, case, pc, swaps, tour>>

-----------------------------------------------------------------------------
(* Choice of t3, t5, t7 and t9, and of t4, t6, t8 and t10 beside them.       *)

Candidates(s) == {x \in Fresh(s) : Len(s) = 8 => x # s[1]}

\* What follows takes the nodes up to the odd one; X is X4, X6, X8 or X10: 1 for
\* the first of its neighbours that is tried, 2 for the other.

Case4(s) == IF s[4] = PRD(s[3]) THEN 1 ELSE 2     \* X4

Ends4(s) == {<<Side(s[3], X = 2), X>> : X \in IF opt = 2 THEN {1} ELSE 1..2}

Case6(s, X) ==
    IF Case4(s) = 1 THEN (IF BETWEEN(s[2], s[5], s[4]) THEN 1 ELSE 2) + 2 * (X - 1)
    ELSE IF BETWEEN(s[2], s[5], s[3]) THEN 4 + X ELSE 6 + X

End6(s, X) ==
    Side(s[5], (X = 1) <=> BETWEEN(s[2], s[5], IF Case4(s) = 1 THEN s[4] ELSE s[3]))

\* Best3OptMove takes only the t6 that close a tour, Best4OptMove not the last.
Tried6(s, X) ==
    /\ opt = 3 => Case6(s, X) \in {1, 2, 5, 6}
    /\ opt = 4 => Case6(s, X) # 8
    /\ Case6(s, X) \in {3, 4} => {s[5], End6(s, X)} # {s[1], s[2]}
    /\ Case6(s, X) \in {5, 6} => End6(s, X) # s[1]
    /\ Case6(s, X) \in {7, 8} => End6(s, X) # s[2]

Ends6(s) == {<<End6(s, X), Case6(s, X)>> : X \in {X \in 1..2 : Tried6(s, X)}}

\* Is the first t8 SUC(t7)?  Best4OptMove asks for BETWEEN(t2,t7,t3) in case 6,
\* the other part of the same tour, and has left out t7 after t6 in case 4.
Forward8(s, c6) ==
    LET B(a, b, c) == BETWEEN(s[a], s[b], s[c])
    IN  \/ c6 = 1 /\ B(2, 7, 5)
        \/ c6 = 2 /\ B(3, 7, 6)
        \/ c6 = 4 /\ ~B(6, 7, 1) /\ B(2, 7, 4)
        \/ c6 = 6 /\ ~B(4, 7, 1)
        \/ c6 \in {3, 7, 8}

End8(s, c6, X) == Side(s[7], (X = 1) <=> Forward8(s, c6))

\* What Best4OptMove tries: only the t8 that close a tour.
Tried8Of4(s, c6, X) ==
    LET B(a, b, c) == BETWEEN(s[a], s[b], s[c])
    IN  /\ c6 = 3 => B(5, 7, 4)
        /\ c6 = 4 => B(2, 7, 5)
        /\ c6 = 7 => B(2, 7, 3)
        /\ X = 2 => c6 \in {3, 4, 7}
        /\ End8(s, c6, X) # s[1]
        /\ {s[7], End8(s, c6, X)} # {s[3], s[4]}

\* What Best5OptMove tries: also the t8 from which a t10 may close a tour.
Tried8Of5(s, c6, X) ==
    LET B(a, b, c) == BETWEEN(s[a], s[b], s[c])
    IN  /\ {s[7], End8(s, c6, X)} \notin {{s[1], s[2]}, {s[3], s[4]}}
        /\ c6 = 3 /\ ~B(5, 7, 4) => ((X = 1) # B(3, 7, 1))
        /\ c6 = 4 /\ B(6, 7, 1) => X = 1
        /\ c6 = 7 /\ ~B(2, 7, 3) => ((X = 1) # B(5, 7, 1))
        /\ c6 = 8 /\ ~B(2, 7, 3) => B(4, 7, 5)

Ends8(s, c6) ==
    {<<End8(s, c6, X), c6 + 8 * (X - 1)>> :
        X \in {X \in 1..2 : IF opt = 4 THEN Tried8Of4(s, c6, X) ELSE Tried8Of5(s, c6, X)}}

\* Case10 for the first t10; none if it stays null.
Cases10(s, c8) ==
    LET B(a, b, c) == BETWEEN(s[a], s[b], s[c])
        BTW275 == B(2, 7, 5)  BTW674 == B(6, 7, 4)  BTW376 == B(3, 7, 6)
        BTW571 == B(5, 7, 1)  BTW574 == B(5, 7, 4)  BTW671 == B(6, 7, 1)
        BTW471 == B(4, 7, 1)  BTW673 == B(6, 7, 3)  BTW573 == B(5, 7, 3)
        BTW273 == B(2, 7, 3)
    IN  {c \in 1..31 :
            \/ c8 = 1 /\ c = 22
            \/ c8 = 2 /\ c = 23
            \/ c8 = 3 /\ BTW574 /\ c = 24
            \/ c8 = 3 /\ ~BTW574 /\ B(5, 9, 4) /\ c = 1
            \/ c8 = 4 /\ BTW671 /\ B(2, 9, 5) /\ c = 2
            \/ c8 = 4 /\ ~BTW671 /\ c = 25
            \/ c8 = 5 /\ c = 26
            \/ c8 = 6 /\ c = 27
            \/ c8 = 7 /\ BTW273 /\ c = 28
            \/ c8 = 7 /\ ~BTW273 /\ B(2, 9, 3) /\ c = 3
            \/ c8 = 8 /\ BTW273 /\ B(4, 9, 5) /\ c = 4
            \/ c8 = 8 /\ ~BTW273 /\ B(2, 9, 3) /\ c = 5
            \/ c8 = 9 /\ BTW275 /\ B(7, 9, 4) /\ c = 6
            \/ c8 = 9 /\ ~BTW275 /\ ~BTW674 /\ B(2, 9, 7) /\ c = 7
            \/ c8 = 9 /\ ~BTW275 /\ BTW674 /\ B(6, 9, 7) /\ c = 8
            \/ c8 = 10 /\ BTW376 /\ B(7, 9, 6) /\ c = 9
            \/ c8 = 10 /\ ~BTW376 /\ BTW571 /\ B(2, 9, 7) /\ c = 10
            \/ c8 = 10 /\ ~BTW376 /\ ~BTW571 /\ (B(3, 9, 6) \/ B(2, 9, 7)) /\ c = 11
            \/ c8 = 11 /\ BTW574 /\ c = 29
            \/ c8 = 11 /\ ~BTW574 /\ B(5, 9, 4) /\ c = 12
            \/ c8 = 12 /\ c = 30
            \/ c8 = 13 /\ BTW471 /\ B(2, 9, 7) /\ c = 13
            \/ c8 = 13 /\ ~BTW471 /\ BTW673 /\ B(6, 9, 7) /\ c = 14
            \/ c8 = 13 /\ ~BTW471 /\ ~BTW673 /\ (B(6, 9, 3) \/ B(2, 9, 7)) /\ c = 15
            \/ c8 = 14 /\ BTW471 /\ B(2, 9, 7) /\ c = 16
            \/ c8 = 14 /\ ~BTW471 /\ BTW573 /\ (B(7, 9, 3) \/ B(2, 9, 6)) /\ c = 17
            \/ c8 = 14 /\ ~BTW471 /\ ~BTW573 /\ B(7, 9, 6) /\ c = 18
            \/ c8 = 15 /\ BTW273 /\ c = 31
            \/ c8 = 15 /\ ~BTW273 /\ B(2, 9, 3) /\ c = 19
            \/ c8 = 16 /\ BTW273 /\ B(4, 9, 5) /\ c = 20
            \/ c8 = 16 /\ ~BTW273 /\ B(2, 9, 3) /\ c = 21}

\* Mutant: cases 26 and 27 are told apart by t7 only.
Backward10_T7(s, c10) ==
    LET B(a, b, c) == BETWEEN(s[a], s[b], s[c])
    IN  \/ c10 \in {22, 23, 26, 27} /\ B(7, 9, 1)
        \/ c10 \in {24, 31} /\ B(5, 9, 1)
        \/ c10 = 25 /\ B(6, 9, 4)
        \/ c10 = 28 /\ B(5, 9, 3)
        \/ c10 \in {29, 30} /\ B(3, 9, 1)

\* Is the first t10 PRD(t9)?  In the cases up to 21 it is SUC(t9).
Backward10(s, c10) ==
    LET B(a, b, c) == BETWEEN(s[a], s[b], s[c])
    IN  \/ c10 = 22 /\ IF B(2, 7, 5) THEN B(8, 9, 5) \/ B(3, 9, 1)
                       ELSE IF B(6, 7, 4) THEN B(7, 9, 1) ELSE B(7, 9, 5)
        \/ c10 = 23 /\ IF B(3, 7, 6) THEN B(8, 9, 4)
                       ELSE B(7, 9, 1) \/ (B(5, 7, 1) /\ B(3, 9, 6))
        \/ c10 \in {24, 31} /\ B(5, 9, 1)
        \/ c10 = 25 /\ B(6, 9, 4)
        \/ c10 = 26 /\ IF B(4, 7, 1) THEN B(7, 9, 1)
                       ELSE B(7, 9, 5) \/ (~B(6, 7, 3) /\ B(4, 9, 1))
        \/ c10 = 27 /\ IF B(4, 7, 1) THEN B(7, 9, 3)
                       ELSE B(8, 9, 6) \/ (~B(5, 7, 3) /\ B(4, 9, 1))
        \/ c10 = 28 /\ B(5, 9, 3)
        \/ c10 \in {29, 30} /\ B(3, 9, 1)

\* Mutant: the other t10 is never tried.
Ends10_FirstOnly(s, c8) ==
    {e \in {<<Side(s[9], ~Backward10(s, c)), c>> : c \in Cases10(s, c8)} :
        /\ e[1] # s[1]
        /\ {s[9], e[1]} \notin {{s[3], s[4]}, {s[5], s[6]}}}

\* The second t10 is tried up to case 21 only.
Ends10(s, c8) ==
    {e \in UNION {{<<Side(s[9], (X = 1) # Backward10(s, c)), c + 31 * (X - 1)>> :
                      X \in IF c >= 22 THEN {1} ELSE 1..2} : c \in Cases10(s, c8)} :
        /\ e[1] # s[1]
        /\ {s[9], e[1]} \notin {{s[3], s[4]}, {s[5], s[6]}}}

Ends(s) ==
    CASE Len(s) = 3 -> Ends4(s)
      [] Len(s) = 5 -> Ends6(s)
      [] Len(s) = 7 -> Ends8(s, case)
      [] Len(s) = 9 -> Ends10(s, case)

-----------------------------------------------------------------------------
(* May the tour be closed with (t2i,t1)? *)

\* For t4 and t6 this is told by the case, for t8 of Best5OptMove by where t7
\* lies; the last node of a Best function always closes a tour.
Closable ==
    LET B(a, b, c) == BETWEEN(t[a], t[b], t[c])
        case6 == IF case > 8 THEN case - 8 ELSE case
    IN  /\ Last(t) # t[1]
        /\ CASE Len(t) = 4 -> case = 1
             [] Len(t) = 6 -> case \in {1, 2, 5, 6}
             [] Len(t) = 8 /\ opt = 5 ->
                    CASE case6 = 3 -> B(5, 7, 4)
                      [] case6 = 4 -> ~B(6, 7, 1)
                      [] case6 = 7 -> B(2, 7, 3)
                      [] OTHER -> case \in 1..7
             [] OTHER -> Len(t) = 2 * opt

-----------------------------------------------------------------------------
(* A call. *)

Make ==
    CASE Len(t) = 4 -> Make2OptMove
      [] Len(t) = 6 -> Make3OptMove(case)
      [] Len(t) = 8 -> Make4OptMove(t, case)
      [] OTHER -> Make5OptMove(t, case)

Init ==
    /\ opt \in MoveTypes
    /\ t = <<N, 1>>
    /\ case = 0
    /\ pc = "choose"
    /\ swaps = <<>>
    /\ tour = [i \in 1..N |-> i]

\* One more edge to add and one to remove.
ChooseNext ==
    /\ pc = "choose" /\ Len(t) < 2 * opt
    /\ \E x \in Candidates(t) :
           LET s == Append(t, x)
           IN  \E e \in Ends(s) : t' = Append(s, e[1]) /\ case' = e[2]
    /\ UNCHANGED <<opt, pc, swaps, tour>>

\* The gain is positive, or this is the best choice: the move is made.
MakeMove ==
    /\ pc = "choose" /\ Len(t) > 2
    /\ Closable
    /\ swaps' = Make
    /\ pc' = IF Make = <<>> THEN "error" ELSE "swap"
    /\ UNCHANGED <<opt, t, case, tour>>

Swap1 ==
    /\ pc = "swap"
    /\ tour' = Flip(tour, t[swaps[1]], t[swaps[2]], t[swaps[3]])
    /\ swaps' = SubSeq(swaps, 4, Len(swaps))
    /\ pc' = IF swaps' = <<>> THEN "made" ELSE "swap"
    /\ UNCHANGED <<opt, t, case>>

Next == ChooseNext \/ MakeMove \/ Swap1

Spec == Init /\ [][Next]_vars

-----------------------------------------------------------------------------
(* Properties. *)

\* A Best function hands no case to a Make function that this does not know, and
\* the 2-opt moves that this makes give the tour whose gain the Best function has
\* computed: (t1,t2), (t3,t4), ... are out, (t2,t3), ..., (t2k,t1) are in.
\* Every one of them is called for an edge of the tour it finds, the assertion on
\* entry of Flip and Flip_SL, and for a t3 that is not t2.
MoveIsTheExchange ==
    /\ pc # "error"
    /\ pc = "swap" =>
          /\ Adjacent(tour, t[swaps[1]], t[swaps[2]])
          /\ swaps[3] # swaps[2] /\ t[swaps[3]] # t[swaps[2]]
    /\ pc = "made" => TourEdges(tour) = Exchanged(Removed(t), Added(t))

=============================================================================
