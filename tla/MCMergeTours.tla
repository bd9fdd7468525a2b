------------------------------ MODULE MCMergeTours -----------------------------
(* MergeWithTourIPT: the first tour with every other.                          *)
EXTENDS MergeTours

LOCAL INSTANCE SequencesExt

\* Costs that differ from pair to pair, and costs with many ties.
Mixed == [x \in Node |-> [y \in Node |-> IF x = y THEN 0 ELSE ((x + y) * (x * y + 5)) % 11]]
Ties == [x \in Node |-> [y \in Node |-> IF x = y THEN 0 ELSE 1 + ((x * y + x + y) % 3)]]
MCCosts == {Mixed, Ties}

\* The second tours: no node is more than two places from its place on the first,
\* in both directions.
RECURSIVE Paths(_)
Paths(k) == IF k = 0 THEN {<<>>}
            ELSE UNION {{Append(s, x) : x \in {x \in 2..N : /\ x - k - 1 \in -2..2
                                                           /\ \A i \in 1..(k - 1) : s[i] # x}} :
                        s \in Paths(k - 1)}

Cycle(s) == [x \in Node |-> IF x = 1 THEN s[1]
                            ELSE LET i == CHOOSE i \in 1..(N - 1) : s[i] = x
                                 IN  IF i = N - 1 THEN 1 ELSE s[i + 1]]

MCTours2 == {Cycle(s) : s \in Paths(N - 1)} \cup {Cycle(Reverse(s)) : s \in Paths(N - 1)}

=============================================================================
