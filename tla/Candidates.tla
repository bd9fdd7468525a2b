------------------------------- MODULE Candidates ------------------------------
(***************************************************************************)
(* Candidate sets: the minimum 1-tree (src/MinimumSpanningTree.cpp,        *)
(* Connect.cpp, Minimum1TreeCost.cpp), the ascent (Ascent.cpp), and the    *)
(* sets of candidate edges (src/candidate, include/candidate) from their   *)
(* creation to the trials, which adjust them, and the end of a run, which  *)
(* takes that back.  What POPMUSIC creates is the union of some tours.     *)
(***************************************************************************)
EXTENDS Integers, Sequences, FiniteSets

LOCAL INSTANCE SequencesExt
LOCAL INSTANCE FiniteSetsExt
LOCAL INSTANCE TLC

CONSTANTS
    N,                  \* dimension
    INT_MAX,            \* the cost and the alpha value that no edge has
    Problems,           \* the problems: costs of edges, and parameters
    MaxCandidates,      \* param.max_candidates
    InitialStepSize,    \* param.initial_step_size
    InitialPeriod,      \* param.initial_period
    Excess              \* param.excess, in percent

Node == 1..N

Edges == kSubset(2, Node)

CandidateSetType == {"ALPHA", "POPMUSIC"}

ASSUME CandidatesAssumption ==
    /\ N \in Nat /\ N >= 4
    /\ {INT_MAX, MaxCandidates} \subseteq Nat \ {0}
    /\ {InitialStepSize, InitialPeriod, Excess} \subseteq Nat
    /\ \A p \in Problems :
        /\ p.cost \in [Edges -> 0..(INT_MAX \div 10)]
        /\ p.type \in CandidateSetType
        /\ {p.symmetric, p.known, p.stop_at_optimum} \subseteq BOOLEAN
        /\ p.ascent_candidates \in 1..N
        /\ p.list \in SetToSeqs(Node)   \* Suc before the first 1-tree

VARIABLES
    p,          \* the problem
    pc,
    Pi,         \* the penalties of nodes
    tree,       \* the 1-tree: Suc, Dad, Cost, Next, NextCost, degree_2, Norm
    cand,       \* the candidates of nodes
    asc,        \* the locals of Ascent
    best, nextBest, bestCost,   \* BestSuc, NextBestSuc, BetterCost of a run
    graph,      \* history: the edges in which candidates were sought
    generated   \* history: the candidates that were found

vars == <<p, pc, Pi, tree, cand, asc, best, nextBest, bestCost, graph, generated>>

-----------------------------------------------------------------------------

\* The tours, as sequences of nodes that begin with 1.
Tours == {<<1>> \o s : s \in SetToSeqs(2..N)}

EdgesOf(s) == {{s[i], s[(i % N) + 1]} : i \in Node}

SumOver(S, f(_)) == FoldSet(LAMBDA x, sum : sum + f(x), 0, S)

TourCost(s) == SumOver(EdgesOf(s), LAMBDA e : p.cost[e])

Optimum == Min({TourCost(s) : s \in Tours})

D(pi, a, b) == p.cost[{a, b}] + pi[a] + pi[b]

Absolute(x) == IF x < 0 THEN -x ELSE x

\* Division of int: towards 0.
Quotient(a, b) == IF a < 0 THEN -((-a) \div b) ELSE a \div b

-----------------------------------------------------------------------------
(* CandidateSet.h and the functions on all sets. *)

Less(a, b) == a.alpha < b.alpha \/ (a.alpha = b.alpha /\ a.cost < b.cost)

InsertLast(s, c) ==
    LET pos == Max({0} \cup {i \in DOMAIN s : ~Less(c, s[i])})
    IN  InsertAt(s, pos + 1, c)

PushBack(s, c) ==
    IF \E i \in DOMAIN s : s[i].to = c.to
    THEN [i \in DOMAIN s |-> IF s[i].to = c.to /\ s[i].alpha = INT_MAX THEN c ELSE s[i]]
    ELSE Append(s, c)

Trim(s, k) == SubSeq(s, 1, Min({k, Len(s)}))

\* Every good candidate in turn is moved to the front.
Reorder(s, good) ==
    Reverse(SelectSeq(s, LAMBDA c : c \in good)) \o SelectSeq(s, LAMBDA c : c \notin good)

\* Edges with the alpha value INT_MAX are dropped, the others sorted (stably).
ResetCandidateSet(cs) ==
    [n \in Node |-> SelectSeq(FoldLeft(InsertLast, <<>>, cs[n]), LAMBDA c : c.alpha # INT_MAX)]

\* AddCandidate for the reverse of every candidate of n.
AddReverse(cs, n) ==
    FoldLeft(LAMBDA ds, c : [ds EXCEPT ![c.to] = PushBack(@, [c EXCEPT !.to = n])], cs, cs[n])

SymmetrizeCandidateSet(cs, order) == ResetCandidateSet(FoldLeft(AddReverse, cs, order))

NoCandidates == [n \in Node |-> <<>>]

-----------------------------------------------------------------------------
(* MinimumSpanningTree and Minimum1TreeCost, in the graph g: all edges, or     *)
(* those of the candidate sets; the penalties count.                           *)

Dense(pi)      == [sparse |-> FALSE, Pi |-> pi, cand |-> NoCandidates]
Sparse(pi, cs) == [sparse |-> TRUE, Pi |-> pi, cand |-> cs]

\* The costs of the edges from n; all edges if there are fewer candidates.
Offers(g, n, atLeast) ==
    IF g.sparse /\ Len(g.cand[n]) >= atLeast
    THEN [m \in {c.to : c \in Range(g.cand[n])} |->
            (CHOOSE c \in Range(g.cand[n]) : c.to = m).cost + g.Pi[n] + g.Pi[m]]
    ELSE [m \in Node \ {n} |-> D(g.Pi, n, m)]

\* Prim's algorithm has taken the first k nodes of s.order.  The next one is the
\* first of the nearest in the list, or what the heap has on top.
Grown(g, s, k) ==
    LET blue   == s.order[k]
        heap   == g.sparse /\ g.cand[s.order[1]] # <<>>
        offer  == Offers(g, blue, IF heap THEN 0 ELSE N)
        rest   == SubSeq(s.order, k + 1, N)
        nearer == {n \in Range(rest) \cap DOMAIN offer : offer[n] < s.cost[n]}
        cost   == [n \in nearer |-> offer[n]] @@ s.cost
        dad    == [n \in nearer |-> blue] @@ s.dad
        nearest == {i \in DOMAIN rest : \A j \in DOMAIN rest : cost[rest[i]] <= cost[rest[j]]}
    IN  {[order |-> SubSeq(s.order, 1, k) \o <<rest[i]>> \o RemoveAt(rest, i),
          dad |-> dad, cost |-> cost] : i \in IF heap THEN nearest ELSE {Min(nearest)}}

SpanningTrees(g, order) ==
    LET Taken[k \in Node] ==
            IF k = 1
            THEN {[order |-> order,
                   dad |-> [n \in Node |-> IF n = order[1] THEN 0 ELSE order[1]],
                   cost |-> [n \in Node |-> INT_MAX]]}
            ELSE UNION {Grown(g, s, k - 1) : s \in Taken[k - 1]}
    IN  Taken[N]

\* The first of the sequence for which f is defined and has this value.
FirstWith(seq, f, value) ==
    seq[Min({i \in DOMAIN seq : seq[i] \in DOMAIN f /\ f[seq[i]] = value})]

\* Connect: the edges from a leaf that are not in the tree, with their costs.
Unused(g, s, n) ==
    LET offer == Offers(g, n, 2)
    IN  [m \in {m \in DOMAIN offer : m # s.dad[n] /\ n # s.dad[m]} |-> offer[m]]

\* The first of the cheapest, in the order in which Connect looks at them.
Connect(g, s, n) ==
    FirstWith(IF g.sparse /\ Len(g.cand[n]) >= 2 THEN [i \in DOMAIN g.cand[n] |-> g.cand[n][i].to]
                                                 ELSE s.order,
              Unused(g, s, n), Min(Range(Unused(g, s, n))))

\* n and its fathers.
Chain(dad, n) ==
    LET Up[k \in Node] ==
            IF k = 1 THEN <<n>>
            ELSE LET up == Up[k - 1]
                 IN  IF dad[Last(up)] = 0 THEN up ELSE Append(up, dad[Last(up)])
    IN  Up[N]

\* Mutant: N1 is not advanced in the loop that puts the fathers behind the first node.
Relinked_Reversed(pi, t) ==
    LET up == Chain(t.dad, t.order[1])
    IN  [t EXCEPT !.order = <<t.order[1]>> \o Reverse(Tail(up))
                            \o SelectSeq(t.order, LAMBDA n : n \notin Range(up))]

\* A 1-tree that is a tour: the list becomes that tour.
Relinked(pi, t) ==
    LET up    == Chain(t.dad, t.order[1])
        order == up \o SelectSeq(t.order, LAMBDA n : n \notin Range(up))
        Prd(n) == order[(CHOOSE i \in 2..N : order[i] = n) - 1]
    IN  [t EXCEPT !.order = order,
                  !.dad = [n \in Node |-> IF n = order[1] THEN t.dad[n]
                                          ELSE IF n = order[2] THEN 0 ELSE Prd(n)],
                  !.cost = [n \in Node |-> IF n = order[1] THEN t.cost[n] ELSE D(pi, n, Prd(n))]]

\* The special node is the leaf whose second nearest neighbour is farthest; it
\* becomes the first of the list, and the root of the tree the second.
OneTree(g, s) ==
    LET first  == s.order[1]
        second == s.order[2]
        deg    == [n \in Node |-> (IF n = first THEN 0 ELSE 1)
                                  + Cardinality({m \in Node : s.dad[m] = n}) - 2]
        leaves == {n \in Node : deg[n] = -1 /\ DOMAIN Unused(g, s, n) # {}}
        NextCost == [n \in leaves |-> Min(Range(Unused(g, s, n)))]
        n1     == FirstWith(s.order, NextCost, Max(Range(NextCost)))
        next   == Connect(g, s, n1)
        degree == [n \in Node |-> IF n \in {n1, next} THEN deg[n] + 1 ELSE deg[n]]
        t == [order |-> <<n1>> \o Remove(s.order, n1),
              dad  |-> IF n1 = first THEN [s.dad EXCEPT ![first] = second, ![second] = 0] ELSE s.dad,
              cost |-> [s.cost EXCEPT ![first] = s.cost[second]],
              next |-> next,
              nextCost |-> NextCost[n1],
              degree_2 |-> degree,
              norm |-> SumOver(Node, LAMBDA n : degree[n] * degree[n]),
              w    |-> SumOver(Node \ {first}, LAMBDA n : s.cost[n]) + NextCost[n1]
                       - 2 * SumOver(Node, LAMBDA n : g.Pi[n]),
              sparse |-> g.sparse]
    IN  IF t.norm = 0 THEN Relinked(g.Pi, t) ELSE t

\* Minimum1TreeCost: the 1-trees that it may find.
OneTrees(g, order) == {OneTree(g, s) : s \in SpanningTrees(g, order)}

-----------------------------------------------------------------------------
(* GenerateCandidates and OrderCandidateSet. *)

\* The cost of the longest edge of the tree between a and b; an edge is its lower node.
Beta(t, a, b) ==
    LET up == [n \in {a, b} |-> Range(Chain(t.dad, n))]
    IN  Max({t.cost[n] : n \in (up[a] \ up[b]) \cup (up[b] \ up[a])})

\* The cost of the edge that the edge from a to b would replace in the 1-tree.
BetaValue(t, a, b) ==
    IF t.dad[a] = b THEN t.cost[a]
    ELSE IF t.dad[b] = a THEN t.cost[b]
    ELSE IF t.order[1] \in {a, b} THEN t.nextCost
    ELSE Beta(t, a, b)

\* Mutant: the first node is treated like the others.
AlphaOf_NotSpecial(t, pi, a, b) == D(pi, a, b) - Beta(t, a, b)

\* GenerateCandidates takes 0 for the edge from the first node to its father.
AlphaOf(t, pi, a, b) ==
    IF t.order[1] \in {a, b}
    THEN IF {a, b} = {t.order[1], t.dad[t.order[1]]} THEN 0 ELSE D(pi, a, b) - t.nextCost
    ELSE D(pi, a, b) - Beta(t, a, b)

GenerateCandidates(t, pi, max, maxAlpha, symmetric) ==
    LET From(a) == SelectSeq([i \in 1..N |-> [to |-> t.order[i],
                                              cost |-> IF t.order[i] = a THEN 0 ELSE D(pi, a, t.order[i]),
                                              alpha |-> IF t.order[i] = a THEN INT_MAX
                                                        ELSE AlphaOf(t, pi, a, t.order[i])]],
                             LAMBDA c : c.to # a /\ c.alpha <= maxAlpha)
        found == [a \in Node |-> FoldLeft(LAMBDA s, c : Trim(InsertLast(s, c), max), <<>>, From(a))]
    IN  IF symmetric THEN SymmetrizeCandidateSet(found, t.order) ELSE found

AddBoth(cs, a, b, cost, alpha) ==
    [cs EXCEPT ![a] = PushBack(@, [to |-> b, cost |-> cost, alpha |-> alpha]),
               ![b] = PushBack(@, [to |-> a, cost |-> cost, alpha |-> alpha])]

\* The parameter MaxAlpha is not used: the edges of the 1-tree are added, no others, and
\* the sets are only limited in number.
OrderCandidateSet(t, cs, max, symmetric) ==
    LET first == t.order[1]
        withTree == FoldLeft(LAMBDA ds, n : IF t.dad[n] = 0 THEN ds
                                            ELSE AddBoth(ds, n, t.dad[n], t.cost[n], 0), cs, t.order)
        withNext == AddBoth(withTree, first, t.next, t.nextCost, 0)
        computed == [a \in Node |-> [i \in DOMAIN withNext[a] |->
                        [withNext[a][i] EXCEPT !.alpha =
                            Max({withNext[a][i].cost - BetaValue(t, a, withNext[a][i].to), 0})]]]
        ordered == [n \in Node |-> Trim(ResetCandidateSet(computed)[n], max)]
    IN  IF symmetric THEN SymmetrizeCandidateSet(ordered, t.order) ELSE ordered

-----------------------------------------------------------------------------
(* Ascent. *)

NoPi == [n \in Node |-> 0]

\* The locals of Ascent before and after.
NoAscent ==
    [T |-> 0, Period |-> 0, P |-> 1, initial |-> TRUE, w0 |-> 0, bestW |-> 0, bestNorm |-> 0,
     bestPi |-> NoPi, last |-> NoPi, ac |-> p.ascent_candidates]

\* What POPMUSIC leaves: the edges of some tours, each node keeping a few.
AddTours(tours) ==
    LET AddTour(cs, s) == FoldLeft(LAMBDA ds, i : AddBoth(ds, s[i], s[(i % N) + 1],
                                                        p.cost[{s[i], s[(i % N) + 1]}], 1),
                                   cs, [i \in Node |-> i])
        reset == ResetCandidateSet(FoldLeft(AddTour, NoCandidates, tours))
        trimmed == [n \in Node |-> Trim(reset[n], asc.ac)]
    IN  IF p.symmetric THEN SymmetrizeCandidateSet(trimmed, p.list) ELSE trimmed

Created ==
    IF p.type = "POPMUSIC" /\ cand[tree.order[1]] = <<>>
    THEN {AddTours(tours) : tours \in p.tours} ELSE {cand}

\* The graph of the 1-trees that are not meant to be sparse.
Whole(pi, cs) == IF p.type = "POPMUSIC" THEN Sparse(pi, cs) ELSE Dense(pi)

\* The loop begins: its locals, given the cost of the first 1-tree.
AscentBegins(t) ==
    asc' = [asc EXCEPT !.T = InitialStepSize, !.Period = InitialPeriod, !.P = 1, !.initial = TRUE,
                       !.w0 = t.w, !.bestW = t.w, !.bestNorm = t.norm,
                       !.bestPi = NoPi, !.last = t.degree_2]

\* From the label Start to the first 1-tree and the candidates for the ascent.
Start ==
    /\ pc = "start"
    /\ Pi' = NoPi
    /\ \E cs \in Created : \E t \in OneTrees(Whole(NoPi, cs), tree.order) :
        /\ tree' = t
        /\ IF t.norm = 0 THEN pc' = "create" /\ cand' = cs /\ UNCHANGED asc
           ELSE IF p.type = "POPMUSIC"
           THEN pc' = "ordered" /\ cand' = OrderCandidateSet(t, cs, asc.ac, TRUE) /\ UNCHANGED asc
           ELSE /\ pc' = "ascent"
                /\ cand' = GenerateCandidates(t, NoPi, asc.ac,
                               IF p.known /\ Optimum - t.w >= 0 THEN Optimum - t.w ELSE INT_MAX, TRUE)
                /\ AscentBegins(t)
    /\ UNCHANGED <<p, best, nextBest, bestCost, graph, generated>>

\* With POPMUSIC, the 1-tree of the completed candidate sets.
OneTreeOfOrdered ==
    /\ pc = "ordered"
    /\ \E t \in OneTrees(Sparse(Pi, cand), tree.order) :
        /\ tree' = t
        /\ IF t.norm = 0 \/ (p.known /\ t.w = Optimum)
           THEN pc' = "create" /\ UNCHANGED asc
           ELSE pc' = "ascent" /\ AscentBegins(t)
    /\ UNCHANGED <<p, Pi, cand, best, nextBest, bestCost, graph, generated>>

InPeriod == asc.T > 0 /\ asc.P <= asc.Period /\ tree.norm # 0

Clamped(x) == Max({-(INT_MAX \div 10), Min({INT_MAX \div 10, x})})

\* Nodes of a high degree become dear, those of a low degree cheap.
AdjustedPi ==
    [n \in Node |->
        IF tree.degree_2[n] = 0 THEN Pi[n]
        ELSE Clamped(Pi[n] + Quotient(asc.T * (7 * tree.degree_2[n] + 3 * asc.last[n]), 10))]

Improves(t) == t.w > asc.bestW \/ (t.w = asc.bestW /\ t.norm < asc.bestNorm)

TooSparse(t) == t.w - asc.w0 > Absolute(asc.w0) /\ asc.ac > 0 /\ asc.ac < N

\* A better bound: the period is doubled when it came with its last step.
Improved(t, w0) ==
    [asc EXCEPT !.last = tree.degree_2, !.w0 = w0, !.bestW = t.w, !.bestNorm = t.norm, !.bestPi = Pi',
                !.T = IF asc.initial /\ t.norm > 0 THEN 2 * @ ELSE @,
                !.Period = IF p.type = "ALPHA" /\ asc.P = @ THEN Min({2 * @, InitialPeriod}) ELSE @,
                !.P = @ + 1]

NotImproved ==
    IF asc.initial /\ asc.P > asc.Period \div 2
    THEN [asc EXCEPT !.last = tree.degree_2, !.initial = FALSE, !.P = 1, !.T = (3 * @) \div 4]
    ELSE [asc EXCEPT !.last = tree.degree_2, !.P = @ + 1]

\* Mutant: as many candidates as before.
MoreCandidates_Same(ac) == ac

MoreCandidates(ac) == Min({2 * ac, N})

\* One step: penalties, the 1-tree of the candidates and, when that is suspiciously
\* dear, the one of all edges; if it is too cheap, again with more candidates.
AscentStep ==
    /\ pc = "ascent" /\ InPeriod
    /\ Pi' = AdjustedPi
    /\ \E s \in OneTrees(Sparse(AdjustedPi, cand), tree.order) :
        IF ~Improves(s) THEN tree' = s /\ asc' = NotImproved /\ pc' = pc
        ELSE IF ~TooSparse(s) THEN tree' = s /\ asc' = Improved(s, asc.w0) /\ pc' = pc
        ELSE \E t \in OneTrees(Whole(AdjustedPi, cand), s.order) :
                /\ tree' = t
                /\ IF t.w < asc.w0
                   THEN asc' = [asc EXCEPT !.ac = MoreCandidates(@)] /\ pc' = "start"
                   ELSE asc' = Improved(t, t.w) /\ pc' = pc
    /\ UNCHANGED <<p, cand, best, nextBest, bestCost, graph, generated>>

EndPeriod ==
    /\ pc = "ascent" /\ ~InPeriod
    /\ asc' = [asc EXCEPT !.P = 1, !.Period = @ \div 2, !.T = @ \div 2]
    /\ pc' = IF asc'.Period > 0 /\ asc'.T > 0 /\ tree.norm # 0 THEN pc ELSE "best"
    /\ UNCHANGED <<p, Pi, tree, cand, best, nextBest, bestCost, graph, generated>>

\* The 1-tree of the best penalties; the candidates are cleared, or take them over.
EndAscent ==
    /\ pc = "best"
    /\ Pi' = asc.bestPi
    /\ tree' \in OneTrees(Whole(asc.bestPi, cand), tree.order)
    /\ cand' = IF p.type = "ALPHA" THEN NoCandidates
               ELSE [n \in Node |-> [i \in DOMAIN cand[n] |->
                        [cand[n][i] EXCEPT !.cost = @ + Pi'[n] + Pi'[cand[n][i].to]]]]
    /\ pc' = "create"
    /\ UNCHANGED <<p, asc, best, nextBest, bestCost, graph, generated>>

-----------------------------------------------------------------------------
(* CreateCandidateSet after the ascent, and the trials of a run. *)

MaxAlpha ==
    LET excess == (Excess * Absolute(tree.w)) \div 100
        gap == Optimum - tree.w
        bound == IF p.known /\ Optimum # 0 /\ gap > 0 /\ gap < excess THEN gap ELSE excess
    IN  IF bound = 0 THEN INT_MAX ELSE bound

TreeEdges(t) ==
    {{n, t.dad[n]} : n \in {n \in Node : t.dad[n] # 0}} \cup {{t.order[1], t.next}}

CandidateEdges(cs) == UNION {{{n, c.to} : c \in Range(cs[n])} : n \in Node}

CreateCandidateSet ==
    /\ pc = "create"
    /\ cand' = ResetCandidateSet(
                IF p.type = "POPMUSIC" THEN OrderCandidateSet(tree, cand, MaxCandidates, p.symmetric)
                ELSE GenerateCandidates(tree, Pi, MaxCandidates, MaxAlpha, p.symmetric))
    /\ graph' = IF p.type = "POPMUSIC" THEN CandidateEdges(cand) \cup TreeEdges(tree) ELSE Edges
    /\ generated' = cand'
    /\ pc' = IF tree.norm = 0 THEN "solved" ELSE "run"
    /\ asc' = NoAscent
    /\ UNCHANGED <<p, Pi, tree, best, nextBest, bestCost>>

\* Mutant: the edges that are added get the alpha value of the edges of a 1-tree.
AdjustCandidateSet_Kept(s, edges, edges2) ==
    [n \in Node |->
        LET i == CHOOSE i \in Node : s[i] = n
            Edge(m) == [to |-> m, cost |-> D(Pi, n, m), alpha |-> 0]
            extended == PushBack(PushBack(cand[n], Edge(s[((i - 2) % N) + 1])), Edge(s[(i % N) + 1]))
        IN  Reorder(extended, {c \in Range(extended) : {n, c.to} \in edges \cap edges2})]

\* AdjustCandidateSet: the edges of tour s are added, and those that the two best
\* tours share come first.
AdjustCandidateSet(s, edges, edges2) ==
    [n \in Node |->
        LET i == CHOOSE i \in Node : s[i] = n
            Edge(m) == [to |-> m, cost |-> D(Pi, n, m), alpha |-> INT_MAX]
            extended == PushBack(PushBack(cand[n], Edge(s[((i - 2) % N) + 1])), Edge(s[(i % N) + 1]))
        IN  Reorder(extended, {c \in Range(extended) : {n, c.to} \in edges \cap edges2})]

\* A trial has found a better tour.
RecordBetterTour ==
    /\ pc = "run"
    /\ \E s \in Tours :
        /\ TourCost(s) < bestCost
        /\ bestCost' = TourCost(s)
        /\ nextBest' = best
        /\ best' = EdgesOf(s)
        /\ IF p.stop_at_optimum /\ p.known /\ TourCost(s) = Optimum
           THEN pc' = "stopped" /\ UNCHANGED cand
           ELSE pc' = pc /\ cand' = AdjustCandidateSet(s, EdgesOf(s), best)
    /\ UNCHANGED <<p, Pi, tree, asc, graph, generated>>

\* The trials are over: FindTour returns, and is called for the next run.
EndRun ==
    /\ pc \in {"run", "stopped"} /\ best # {}
    /\ pc' = "run"
    /\ cand' = ResetCandidateSet(cand)
    /\ best' = {} /\ nextBest' = {} /\ bestCost' = INT_MAX
    /\ UNCHANGED <<p, Pi, tree, asc, graph, generated>>

Init ==
    /\ p \in Problems
    /\ pc = "start"
    /\ Pi = NoPi
    /\ tree = [order |-> p.list, w |-> 0, norm |-> INT_MAX, sparse |-> TRUE]
    /\ cand = NoCandidates
    /\ asc = NoAscent
    /\ best = {} /\ nextBest = {} /\ bestCost = INT_MAX
    /\ graph = {} /\ generated = NoCandidates

Ascent == Start \/ OneTreeOfOrdered \/ AscentStep \/ EndPeriod \/ EndAscent \/ CreateCandidateSet

Solved == pc = "solved" /\ UNCHANGED vars

Next == Ascent \/ RecordBetterTour \/ EndRun \/ Solved

\* The thread keeps running: WF_vars(Ascent), for a step of it is possible as long as it
\* is preparing, as the absence of deadlocks shows, and no other step is.
Preparing == pc \notin {"run", "stopped", "solved"}

Fairness == []<>~Preparing \/ []<><<Preparing>>_vars

Spec == Init /\ [][Next]_vars /\ Fairness

-----------------------------------------------------------------------------

\* The cost of a minimum 1-tree of all edges is a lower bound of the cost of every
\* tour, whatever the penalties are; a 1-tree of norm 0 is a tour of that cost, in
\* which the list of nodes has been put, wherever its special node was.
BoundHolds ==
    /\ ~tree.sparse => tree.w <= Optimum
    /\ tree.norm = 0 => TourCost(tree.order) = tree.w

\* Ascent.cpp: if the norm of the tree is zero, the true optimum has been found.
\* LKHcpp::Solve returns that tour.
SolvedIsOptimal == pc = "solved" => TourCost(tree.order) = Optimum

EdgeD(e) == p.cost[e] + SumOver(e, LAMBDA n : Pi[n])

Connected(S, T) ==
    \A A \in SUBSET S \ {{}, S} : \E e \in T : e \cap A # {} /\ e \cap (S \ A) # {}

\* The spanning trees of the nodes of S.
TreesOf(S) == {T \in kSubset(Cardinality(S) - 1, kSubset(2, S)) : Connected(S, T)}

TreesWithout == [n \in Node |-> TreesOf(Node \ {n})]

\* What the cheapest 1-tree of the graph that has edge e costs more than the cheapest.
TrueAlpha(e) ==
    LET special == tree.order[1]
        atSpecial == {f \in graph : special \in f}
        trees == {T \in TreesWithout[special] : T \subseteq graph}
        Length(T) == SumOver(T, EdgeD)
    IN  IF special \in e
        THEN Max({0, EdgeD(e) - Min({Max({EdgeD(f) : f \in F}) : F \in kSubset(2, atSpecial)})})
        ELSE Min({Length(T) : T \in {T \in trees : e \in T}}) - Min({Length(T) : T \in trees})

\* The edges of n in the graph with their true alpha values, and none above MaxAlpha if
\* GenerateCandidates has chosen them; OrderCandidateSet does not look at MaxAlpha.
TrueCandidates(n) ==
    {c \in {[to |-> m, cost |-> EdgeD({n, m}), alpha |-> TrueAlpha({n, m})] :
                m \in {m \in Node : {n, m} \in graph}} :
        p.type = "ALPHA" => c.alpha <= MaxAlpha}

\* Those that are among the first MaxCandidates, if ties are broken in favour of them.
Nearest(n) ==
    LET all == TrueCandidates(n)
    IN  {c \in all : Cardinality({b \in all : Less(b, c)}) < MaxCandidates}

\* Those that are so, however ties are broken.
SurelyNearest(n) ==
    LET all == TrueCandidates(n)
    IN  {c \in all : Cardinality({b \in all : ~Less(c, b)}) <= MaxCandidates}

\* The candidates of a node are its nearest neighbours in terms of alpha values, which
\* are exact, and then of cost; with symmetric sets also those that it is near to.
\* With POPMUSIC they are the nearest in the graph of the given candidate edges and those
\* of the 1-tree, as OrderCandidateSet leaves them. Its comment (OrderCandidateSet.cpp:12-21)
\* says more: that edges are added by transitive relations, and that MaxAlpha limits the
\* alpha values. The code does neither, so this does not ask for it (README, section 5).
CandidatesAreNearest ==
    pc = "run" /\ best = {} =>
        \A n \in Node :
            LET s == generated[n]
            IN  /\ SurelyNearest(n) \subseteq Range(s)
                /\ \A c \in Range(s) :
                    \/ c \in Nearest(n)
                    \/ p.symmetric /\ [c EXCEPT !.to = n] \in Nearest(c.to)
                /\ Len(s) >= Min({MaxCandidates, Cardinality(TrueCandidates(n))})
                /\ \A i, j \in DOMAIN s : i < j => s[i].to # s[j].to /\ ~Less(s[j], s[i])
                /\ p.symmetric => \A c \in Range(s) : [c EXCEPT !.to = n] \in Range(generated[c.to])

\* While a run lasts the candidates include the edges of the best tour, those it shares
\* with the tour before it first; when the run is over the candidates are, in the order
\* of their alpha values, the ones that every run begins with.
CandidatesReset ==
    pc = "run" => \A n \in Node :
        LET Shared(i) == {n, cand[n][i].to} \in best \cap nextBest
        IN  /\ IF best = {} THEN Range(cand[n]) = Range(generated[n])
                            ELSE Range(generated[n]) \subseteq Range(cand[n])
            /\ \A m \in Node : {n, m} \in best => \E c \in Range(cand[n]) : c.to = m
            /\ \A i, j \in DOMAIN cand[n] : i < j =>
                    /\ cand[n][i].to # cand[n][j].to
                    /\ Shared(j) => Shared(i)
                    /\ best = {} => ~Less(cand[n][j], cand[n][i])

\* The ascent ends: steps that improve the bound, double the period and start all over
\* with more candidates do so finitely often.
AscentEnds == <>(pc \in {"run", "solved"})

=============================================================================
