------------------------------- MODULE MergeTours ------------------------------
(***************************************************************************)
(* MergeWithTourIPT (src/MergeWithTourIPT.cpp): iterative partial          *)
(* transcription of two tours, T1 in Suc and T2 in Next.  The nodes with   *)
(* the same neighbours in both are taken out; then, as long as some nodes  *)
(* follow each other in both tours in different orders of different cost,  *)
(* the worse order is replaced by the better one; last, the better tour    *)
(* gets back the nodes that were taken out.  FirstNode is node 1.          *)
(***************************************************************************)
EXTENDS Integers, Sequences, FiniteSetsExt

CONSTANTS
    N,          \* nodes; T1 is 1, 2, ..., N
    Costs,      \* cost functions of pairs of nodes
    Tours2      \* successors in T2

Node == 1..N

Nodes == INSTANCE Cycles

ASSUME MergeAssumption ==
    /\ N \in Nat /\ N >= 5
    /\ \A f \in Costs : \A x, y \in Node : f[x][y] = f[y][x]
    /\ Tours2 \subseteq Nodes!Tours

VARIABLES
    C,                      \* C(a,b) - a.Pi - b.Pi
    suc, prd,               \* Suc, Prd: T1, in the end the result
    next, prev,             \* Next, Prev: T2
    active,                 \* the nodes that are not taken out
    oldSuc, oldPrd,         \* OldSuc, OldPrd: T1 without those
    rank, cost, nextCost,   \* Rank, Cost, NextCost
    first,                  \* First
    Cost1, Cost2, Improved1, Improved2, BestMinSubSize,
    pc,                     \* "shrink", "merge", "done"
    result,                 \* what is returned
    T2                      \* the edges of T2 at the call

fields == <<C, suc, prd, active, T2>>
costs1 == <<Cost1, Improved1>>
costs2 == <<Cost2, Improved2>>
vars == <<fields, next, prev, oldSuc, oldPrd, rank, cost, nextCost, first, costs1, costs2,
          BestMinSubSize, pc, result>>

-----------------------------------------------------------------------------
\* x after k steps of f.
Along(f, x, k) == LET w[i \in 0..k] == IF i = 0 THEN x ELSE f[w[i - 1]] IN w[k]

SumOf(f, S) == MapThenSumSet(LAMBDA x : f[x], S)

Backward(f) == [x \in Node |-> CHOOSE y \in Node : f[y] = x]

Init ==
    /\ C \in Costs
    /\ suc = [x \in Node |-> (x % N) + 1] /\ prd = Backward(suc)
    /\ next \in Tours2 /\ prev = Backward(next)
    /\ T2 = {{x, next[x]} : x \in Node}
    /\ active = {} /\ oldSuc = suc /\ oldPrd = prd
    /\ rank = [x \in Node |-> x]
    /\ cost = [x \in Node |-> 0] /\ nextCost = cost
    /\ first = 1 /\ Cost1 = 0 /\ Cost2 = 0
    /\ Improved1 = FALSE /\ Improved2 = FALSE
    /\ BestMinSubSize = 3
    /\ pc = "shrink" /\ result = 0

-----------------------------------------------------------------------------
(* Shrinking. *)

Differs == {x \in Node : {suc[x], prd[x]} # {next[x], prev[x]}}

\* The first active node after x on the tour f.
NextActive(f, A, x) ==
    Along(f, x, CHOOSE k \in 1..N : /\ Along(f, x, k) \in A
                                    /\ \A j \in 1..(k - 1) : Along(f, x, j) \notin A)

\* The costs of both tours; the links between active nodes, which cost nothing
\* where nodes have been taken out.
Shrink ==
    /\ pc = "shrink"
    /\ active' = Differs
    /\ LET c1 == [x \in Node |-> C[x][suc[x]]]
           c2 == [x \in Node |-> C[x][next[x]]]
           s1 == [x \in Node |-> IF x \in active' THEN NextActive(suc, active', x) ELSE suc[x]]
           s2 == [x \in Node |-> IF x \in active' THEN NextActive(next, active', x) ELSE next[x]]
           top == Max(active')
       IN  /\ Cost1' = SumOf(c1, Node)
           /\ IF active' = {}
              THEN /\ pc' = "done" /\ result' = Cost1'
                   /\ UNCHANGED <<Cost2, cost, nextCost, oldSuc, oldPrd, next, prev, first, rank>>
              ELSE /\ pc' = "merge"
                   /\ Cost2' = SumOf(c2, Node)
                   /\ cost' = [x \in Node |-> IF s1[x] = suc[x] THEN c1[x] ELSE 0]
                   /\ nextCost' = [x \in Node |-> IF s2[x] = next[x] THEN c2[x] ELSE 0]
                   /\ oldSuc' = s1 /\ next' = s2
                   /\ oldPrd' = [x \in Node |-> IF x \in active'
                                                THEN CHOOSE y \in active' : s1[y] = x ELSE prd[x]]
                   /\ prev' = [x \in Node |-> IF x \in active'
                                              THEN CHOOSE y \in active' : s2[y] = x ELSE prev[x]]
                   /\ first' = top
                   /\ rank' = [x \in Node |->
                                  IF x \notin active' THEN rank[x]
                                  ELSE 1 + Cardinality({y \in active' : y <= x /\ x # top})]
                   /\ UNCHANGED result
    /\ UNCHANGED <<C, T2, suc, prd, Improved1, Improved2, BestMinSubSize>>

-----------------------------------------------------------------------------
(* Merging. *)

Size == Cardinality(active)

Way(forward) == IF forward THEN next ELSE prev

\* The nodes that follow n1 in T2, in either direction; the rank of the k-th is so
\* many places after that of n1 in T1.
Ahead(n1, forward, k) ==
    (rank[Along(Way(forward), n1, k)] - rank[n1] + Size) % Size

\* The gain of taking the nodes from n1 to n2, k places on, in the order of T2.
GainOf(n1, forward, k) ==
    LET n2 == Along(oldSuc, n1, k)
        path == {Along(oldSuc, n1, i) : i \in 0..(k - 1)}
    IN  SumOf(cost, path) - SumOf(nextCost, path)
        + IF forward THEN 0 ELSE nextCost[n1] - nextCost[n2]

\* The first k with which the k nodes after n1 are the same in both tours, the
\* last one in the same place; looked for below a bound.
SubSizes(n1, forward, bound) ==
    IF Way(forward)[n1] \in {oldSuc[n1], oldPrd[n1]} THEN {}
    ELSE LET same == {k \in 1..(bound - 1) : /\ Ahead(n1, forward, k) = k
                                             /\ \A j \in 1..(k - 1) : Ahead(n1, forward, j) < k}
         IN  {k \in same : GainOf(n1, forward, k) # 0 /\ \A j \in same : k <= j}

\* The search for the smallest sub-tours, from First on; it stops as soon as one
\* is as small as the one before was.
Scan ==
    LET Found(n1, forward, best) ==
            LET ks == SubSizes(n1, forward, best.k)
            IN  IF ks = {} THEN best
                ELSE LET k == CHOOSE k \in ks : TRUE
                     IN  [k |-> k, n1 |-> n1, forward |-> forward, over |-> FALSE]
        scan[i \in 0..Size] ==
            IF i = 0 THEN [k |-> Size \div 2, n1 |-> 0, forward |-> TRUE, over |-> FALSE]
            ELSE LET best == scan[i - 1]
                     n1 == Along(oldSuc, first, i - 1)
                     found == Found(n1, FALSE, Found(n1, TRUE, best))
                 IN  IF best.over \/ oldSuc[n1] \in {next[n1], prev[n1]} THEN best
                     ELSE [found EXCEPT !.over = (found.k = BestMinSubSize)]
    IN  scan[Size]

\* Mutant: the ranks stay.
ImproveT1_Ranks(n1, forward, k) ==
    LET w == Way(forward)
        x(i) == Along(w, n1, i)
        At(y) == CHOOSE i \in 0..k : x(i) = y
        path == {x(i) : i \in 0..(k - 1)}
    IN  /\ oldSuc' = [y \in Node |-> IF y \in path THEN w[y] ELSE oldSuc[y]]
        /\ oldPrd' = [y \in Node |-> IF \E i \in 1..k : x(i) = y THEN x(At(y) - 1) ELSE oldPrd[y]]
        /\ cost' = [y \in Node |-> IF y \notin path THEN cost[y]
                                   ELSE IF forward THEN nextCost[y] ELSE nextCost[w[y]]]
        /\ Improved1' = TRUE
        /\ UNCHANGED <<next, prev, rank, nextCost, costs2>>

\* The part of T1 from n1 to n2 takes the order of T2.
ImproveT1(n1, forward, k) ==
    LET w == Way(forward)
        x(i) == Along(w, n1, i)
        At(y) == CHOOSE i \in 0..k : x(i) = y
        path == {x(i) : i \in 0..(k - 1)}
    IN  /\ oldSuc' = [y \in Node |-> IF y \in path THEN w[y] ELSE oldSuc[y]]
        /\ oldPrd' = [y \in Node |-> IF \E i \in 1..k : x(i) = y THEN x(At(y) - 1) ELSE oldPrd[y]]
        /\ rank' = [y \in Node |-> IF y \in path THEN ((rank[n1] + At(y) - 1) % Size) + 1 ELSE rank[y]]
        /\ cost' = [y \in Node |-> IF y \notin path THEN cost[y]
                                   ELSE IF forward THEN nextCost[y] ELSE nextCost[w[y]]]
        /\ Improved1' = TRUE
        /\ UNCHANGED <<next, prev, nextCost, costs2>>

\* The part of T2 takes the order of T1.
ImproveT2(n1, forward, k) ==
    LET x(i) == Along(oldSuc, n1, i)
        At(y) == CHOOSE i \in 0..k : x(i) = y
        path == {x(i) : i \in 0..(k - 1)}
        after == {x(i) : i \in 1..k}
        succ == [y \in Node |-> IF y \in path THEN oldSuc[y]
                                ELSE IF forward THEN next[y] ELSE prev[y]]
        pred == [y \in Node |-> IF y \in after THEN x(At(y) - 1)
                                ELSE IF forward THEN prev[y] ELSE next[y]]
    IN  /\ next' = IF forward THEN succ ELSE pred
        /\ prev' = IF forward THEN pred ELSE succ
        /\ nextCost' = [y \in Node |-> IF forward THEN IF y \in path THEN cost[y] ELSE nextCost[y]
                                       ELSE IF y \in after THEN cost[pred[y]] ELSE nextCost[y]]
        /\ Improved2' = TRUE
        /\ UNCHANGED <<oldSuc, oldPrd, rank, cost, costs1>>

\* One round.
Merge ==
    /\ pc = "merge"
    /\ Scan.n1 # 0
    /\ \E b \in {Scan} : \E gain \in {GainOf(b.n1, b.forward, b.k)} :
           /\ IF gain > 0
              THEN ImproveT1(b.n1, b.forward, b.k) /\ Cost1' = Cost1 - gain
              ELSE ImproveT2(b.n1, b.forward, b.k) /\ Cost2' = Cost2 + gain
           /\ first' = IF b.forward THEN Along(oldSuc, b.n1, b.k) ELSE b.n1
           /\ BestMinSubSize' = b.k
    /\ UNCHANGED <<fields, pc, result>>

-----------------------------------------------------------------------------
(* The better tour, with all nodes again. *)

\* The successor of x, where the nodes in seen have one.
Follows(x, seen) ==
    IF suc[x] \notin seen /\ ~{x, suc[x]} \subseteq active THEN suc[x]
    ELSE IF prd[x] \notin seen /\ ~{x, prd[x]} \subseteq active THEN prd[x]
    ELSE LET ways == IF Cost1 <= Cost2 THEN <<oldSuc[x], oldPrd[x]>> ELSE <<next[x], prev[x]>>
         IN  IF ways[1] \notin seen THEN ways[1]
             ELSE IF ways[2] \notin seen THEN ways[2] ELSE first

Expanded ==
    LET w[i \in 0..N] ==
            IF i = 0 THEN <<first>>
            ELSE LET s == w[i - 1]
                 IN  IF Len(s) > 1 /\ s[Len(s)] = first THEN s
                     ELSE Append(s, Follows(s[Len(s)], {s[j] : j \in 1..Len(s)}))
    IN  w[N]

\* Mutant: one of the tours has been improved, whichever.
Unimproved_Both == ~Improved1 /\ ~Improved2

\* The better of the two tours is as it was.
Unimproved ==
    IF Cost1 < Cost2 THEN ~Improved1
    ELSE IF Cost2 < Cost1 THEN ~Improved2 ELSE ~Improved1 \/ ~Improved2

\* Nothing is left to be replaced.
Return ==
    /\ pc = "merge"
    /\ Scan.n1 = 0
    /\ pc' = "done"
    /\ IF Unimproved
       THEN /\ result' = SumOf([x \in Node |-> C[x][suc[x]]], Node)
            /\ UNCHANGED <<suc, prd>>
       ELSE /\ \E s \in {Expanded} :
                   LET At(x) == CHOOSE i \in 1..Len(s) : s[i] = x
                   IN  /\ suc' = [x \in Node |-> IF \E i \in 1..(Len(s) - 1) : s[i] = x
                                                 THEN s[At(x) + 1] ELSE suc[x]]
                       /\ prd' = [x \in Node |-> IF \E i \in 2..Len(s) : s[i] = x
                                                 THEN s[(CHOOSE i \in 2..Len(s) : s[i] = x) - 1]
                                                 ELSE prd[x]]
            /\ result' = Min({Cost1, Cost2})
    /\ UNCHANGED <<C, T2, active, next, prev, oldSuc, oldPrd, rank, cost, nextCost, first, costs1,
                   costs2, BestMinSubSize>>

Next == Shrink \/ Merge \/ Return

Spec == Init /\ [][Next]_vars

-----------------------------------------------------------------------------
(* Properties. *)

Shrunken == INSTANCE Cycles WITH Node <- active

CostOf(f) == SumOf([x \in DOMAIN f |-> C[x][f[x]]], DOMAIN f)

\* While the tours are merged, OldSuc and OldPrd are one cycle through the active
\* nodes, and so are Next and Prev; ranks count the nodes of the first.
ShrunkenToursAreTours ==
    pc = "merge" =>
        /\ Shrunken!SingleCycle(oldSuc) /\ Shrunken!Inverses(oldSuc, oldPrd)
        /\ Shrunken!SingleCycle(next) /\ Shrunken!Inverses(next, prev)
        /\ \A x \in active : rank[oldSuc[x]] = (rank[x] % Size) + 1

T1 == {{x, (x % N) + 1} : x \in Node}
PairCost(e) == C[Min(e)][Max(e)]

\* What FindTour relies on: Suc and Prd are one tour in the end, whose cost is
\* returned, and it is T1, or it consists of edges of T1 and T2 and is better than
\* both of them.
ReturnsBetterTour ==
    pc = "done" =>
        /\ Nodes!IsTour(suc) /\ Nodes!Inverses(suc, prd)
        /\ result = CostOf(suc)
        /\ \/ Nodes!Edges(suc) = T1
           \/ /\ Nodes!Edges(suc) \subseteq T1 \cup T2
              /\ result < MapThenSumSet(PairCost, T1)
              /\ result < MapThenSumSet(PairCost, T2)

=============================================================================
