--------------------------- MODULE MCSequentialMoves ---------------------------
(* SequentialMoves against all sequential moves that there are.               *)
EXTENDS SequentialMoves

\* s may be extended by an edge (last node of s, x) to add and (x, y) to remove.
Extends(s, x, y) ==
    /\ x \notin {Last(s), SUC(Last(s)), PRD(Last(s))}
    /\ \A i \in 1..(Len(s) \div 2 - 1) : {Last(s), x} # {s[2*i], s[2*i + 1]}
    /\ y \in {SUC(x), PRD(x)}
    /\ {x, y} \notin Removed(s)

\* Is s the beginning of a move of n more pairs that adds no edge of the tour?
RECURSIVE Completes(_, _)
Completes(s, n) ==
    IF n = 0
    THEN /\ Last(s) \notin {s[1], SUC(s[1]), PRD(s[1])}
         /\ IsCycle(Exchanged(Removed(s), Added(s)))
    ELSE \E x, y \in Node : Extends(s, x, y) /\ Completes(s \o <<x, y>>, n - 1)

\* Best2OptMove, ..., Best5OptMove leave nothing out: a pair of nodes is passed
\* over only if no sequential move of the length they look for goes on with it.
\* The cases are all the cases there are.
AllMovesConsidered ==
    pc = "choose" /\ Len(t) < 2 * opt =>
        \A x, y \in Node :
            Extends(t, x, y) =>
                \/ x \in Candidates(t) /\ \E e \in Ends(Append(t, x)) : e[1] = y
                \/ ~Completes(t \o <<x, y>>, opt - (Len(t) \div 2) - 1)

=============================================================================
