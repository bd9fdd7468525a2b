------------------------------ MODULE LocalSearch ------------------------------
(***************************************************************************)
(* LinKernighan (src/LinKernighan.cpp): from an initial tour, chains of    *)
(* sequential moves anchored at "active" nodes until no node is active,    *)
(* with the stack of 2-opt moves (SwapStack.h), StoreTour, RestoreTour,    *)
(* Excludable, Exclude, the queue of active nodes and the hash table.      *)
(*                                                                         *)
(* The tour is its set of edges, as every representation implements it and *)
(* as the hash value stands for it (ListTour); the moves are the ones of   *)
(* SequentialMoves, where nodes are counted from t2.  Left open: the order *)
(* of the queue, the order of candidates and with it the choice among      *)
(* improving moves and among the best ones that do not improve, and what   *)
(* Gain23 finds.  max_breadth does not cut, the gain criterion is used.    *)
(***************************************************************************)
EXTENDS Integers, SequencesExt

CONSTANTS
    N,              \* nodes
    MoveTypes,      \* values of move_type
    MaxSwaps,       \* max_swaps
    Gain23Used,     \* gain23_used
    Instances       \* problems, with some of the parameters:
                    \* [c |-> costs, cand |-> candidates, tree |-> edges of the 1-tree,
                    \*  opt |-> move_type, restricted |-> restricted_search,
                    \*  runs |-> runs, trials |-> max_trials]

ASSUME LocalSearchAssumption ==
    /\ N \in Nat /\ N >= 5
    /\ MoveTypes \subseteq 2..5
    /\ MaxSwaps \in Nat
    /\ Gain23Used \in BOOLEAN
    /\ \A p \in Instances : /\ \A x, y \in 1..N : p.c[x][y] \in Int /\ p.c[x][y] = p.c[y][x]
                           /\ p.opt \in MoveTypes

Node == 1..N
Infinity == 1000    \* INT_MAX, and the largest GainType

VARIABLES
    p,          \* one of Instances
    cand,       \* Node.candidates: to which nodes
    best,       \* the edges of BestSuc, {} before the first trial of a run
    tour,       \* the edges of Suc and Prd
    cost,       \* Cost
    stack,      \* SwapStack: <<t1, t2, t3, t4>> for each 2-opt move
    old,        \* OldPrd and OldSuc, as a set
    excluded,   \* those of old with OldPredExcluded or OldSucExcluded set
    minCand,    \* Node.Cost: the least cost of a candidate edge not on the tour
    queue,      \* ActiveQueue
    t1, sides,  \* the anchor, and its neighbours not tried yet as t2
    t2, G0,     \* the end of the chain, and what is gained before it is closed
    table,      \* HashTable.hash_cost: tours with their costs
    pc,         \* "pop", "side", "move", "local"; "end" of LinKernighan
    hit,        \* has the hash table ended the search?
    tried,      \* the neighbours of a node when it was tried in vain as t1
    late, stop  \* is the time over, has Stop been called?

lkVars == <<tour, cost, stack, old, excluded, minCand, queue, t1, sides, t2, G0,
            table, pc, hit, tried>>

-----------------------------------------------------------------------------
(* Tours. *)

C(x, y) == p.c[x][y]

Orders == {s \in [Node -> Node] : \A x \in Node : \E i \in Node : s[i] = x}
EdgesOf(s) == {{s[i], s[(i % N) + 1]} : i \in Node}
Tours == {EdgesOf(s) : s \in {s \in Orders : s[1] = 1}}

Nbrs(T, x) == {y \in Node \ {x} : {x, y} \in T}
EdgeCost(e) == LET x == CHOOSE x \in e : TRUE  y == CHOOSE y \in e : y # x IN C(x, y)
TourCost(T) == MapThenSumSet(EdgeCost, T)

\* The nodes from y round to x, two neighbours on the tour T.
OrderFrom(T, x, y) ==
    LET s[i \in Node] == IF i = 1 THEN y
                         ELSE CHOOSE z \in Nbrs(T, s[i - 1]) :
                                  z # IF i = 2 THEN x ELSE s[i - 2]
    IN  s

\* They are all the nodes, each once, as nothing could go on from a tour of which
\* this is not true.
Walks(T, x, y) == {OrderFrom(T, x, y)} \cap {s \in Orders : s[N] = x}

\* Near: the edge is in the best tour or, as long as there is none, in the 1-tree.
Near(x, y) == {x, y} \in IF best = {} THEN p.tree ELSE best

-----------------------------------------------------------------------------
(* The moves of Best2OptMove and its like: choices of t3, t4, ... *)

M(s, k) == INSTANCE SequentialMoves
           WITH opt <- p.opt, t <- s, case <- k,
                pc <- "", swaps <- <<>>, tour <- <<>>

Moves == INSTANCE MakeMoves

\* m with one more pair of nodes: the gain stays positive with the new edge.
\* o: the nodes from t2 to t1.
Extensions(m, o) ==
    LET x2 == o[m.s[Len(m.s)]]
    IN  UNION {LET s == Append(m.s, i)
               IN  {[s |-> Append(s, e[1]), case |-> e[2],
                     g |-> m.g - C(x2, o[i]) + C(o[i], o[e[1]])] : e \in M(s, m.case)!Ends(s)} :
               i \in {i \in M(m.s, m.case)!Candidates(m.s) :
                         o[i] \in cand[x2] /\ m.g - C(x2, o[i]) > 0}}

\* All that BestMove tries from an edge (t1,t2), by the number of its pairs.
Considered(o, g) ==
    LET L[k \in 1..p.opt] ==
            IF k = 1 THEN {[s |-> <<N, 1>>, case |-> 0, g |-> g]}
            ELSE UNION {Extensions(m, o) : m \in L[k - 1]}
    IN  [k \in 2..p.opt |-> L[k]]

\* Mutant: the edge that closes the tour costs nothing.
Gain_Open(m, o) == m.g

Gain(m, o) == m.g - C(o[m.s[Len(m.s)]], o[N])

\* Mutant: a move that gains nothing is an improvement.
Improving_OrEqual(o, g) ==
    {m \in UNION {Considered(o, g)[k] : k \in 2..p.opt} :
        M(m.s, m.case)!Closable /\ Gain(m, o) >= 0}

Improving(o, g) ==
    {m \in UNION {Considered(o, g)[k] : k \in 2..p.opt} :
        M(m.s, m.case)!Closable /\ Gain(m, o) > 0}

\* Is (x,y) an edge of the tour at the start of the chain, not excluded since?
Excludable(x, y) == x \in old[y] /\ x \notin excluded[y]

\* The best moves that do not improve: G maximal, worth going on with.
BestMoves(o, g) ==
    LET ok == {m \in Considered(o, g)[p.opt] :
                  LET x == o[m.s[2 * p.opt - 1]]  y == o[m.s[2 * p.opt]]
                  IN  /\ m.g - 1 >= minCand[y]
                      /\ Len(stack) < MaxSwaps
                      /\ Excludable(x, y)}
    IN  {m \in ok : \A n \in ok : n.g <= m.g}

\* The 2-opt moves of a Make function that change the tour, as they are stacked.
Swaps(m, o) ==
    LET args == M(m.s, m.case)!Make
        t(j) == m.s[args[j]]
        run[i \in 0..(Len(args) \div 3)] ==
            IF i = 0 THEN [seq |-> [j \in Node |-> j], recs |-> <<>>]
            ELSE LET r == run[i - 1]
                     a == t(3*i - 2)  b == t(3*i - 1)  c == t(3*i)
                     u == Moves!Unrolled(r.seq, a, b)
                 IN  [seq |-> Moves!Flip(r.seq, a, b, c),
                      recs |-> IF Moves!Adjacent(r.seq, b, c) THEN r.recs
                               ELSE Append(r.recs,
                                           <<o[a], o[b], o[c], o[u[Moves!Place(u, c) - 1]]>>)]
    IN  run[Len(args) \div 3].recs

-----------------------------------------------------------------------------
(* The stack. *)

\* The tour after a 2-opt move <<a, b, c, d>>: (a,b) and (c,d) are replaced.
Swap1(T, r) == (T \ {{r[1], r[2]}, {r[3], r[4]}}) \cup {{r[2], r[3]}, {r[4], r[1]}}
Undo(T, r) == (T \ {{r[2], r[3]}, {r[4], r[1]}}) \cup {{r[1], r[2]}, {r[3], r[4]}}

NodesOf(recs) == UNION {Range(recs[i]) : i \in DOMAIN recs}

\* The least cost of a candidate edge of x that is not on the tour T.
LeastCost(T, x, cands) == Min({C(x, y) : y \in cands[x] \ Nbrs(T, x)} \cup {Infinity})

\* Mutant: t4 of a 2-opt move is forgotten.
StoreTour_NotT4(T, recs, again) ==
    LET touched == NodesOf([i \in DOMAIN recs |-> SubSeq(recs[i], 1, 3)])
    IN  /\ old' = [x \in Node |-> IF x \in touched THEN Nbrs(T, x) ELSE old[x]]
        /\ excluded' = [x \in Node |-> IF x \in touched THEN {} ELSE excluded[x]]
        /\ minCand' = [x \in Node |-> IF x \in touched THEN LeastCost(T, x, cand) ELSE minCand[x]]
        /\ queue' = queue \cup touched \cup again
        /\ stack' = <<>>

\* StoreTour: T becomes the starting tour of the next chains, the nodes of the
\* 2-opt moves recs that led to it are active, and those in again.
StoreTour(T, recs, again) ==
    LET touched == NodesOf(recs)
    IN  /\ old' = [x \in Node |-> IF x \in touched THEN Nbrs(T, x) ELSE old[x]]
        /\ excluded' = [x \in Node |-> IF x \in touched THEN {} ELSE excluded[x]]
        /\ minCand' = [x \in Node |-> IF x \in touched THEN LeastCost(T, x, cand) ELSE minCand[x]]
        /\ queue' = queue \cup touched \cup again
        /\ stack' = <<>>

-----------------------------------------------------------------------------
(* LinKernighan. *)

\* From the entry on; T is the initial tour.
StartSearch(T, cands) ==
    /\ tour' = T
    /\ cost' = TourCost(T)
    /\ stack' = <<>>
    /\ old' = [x \in Node |-> Nbrs(T, x)]
    /\ excluded' = [x \in Node |-> {}]
    /\ minCand' = [x \in Node |-> LeastCost(T, x, cands)]
    /\ queue' = Node
    /\ tried' = [x \in Node |-> {}]
    /\ hit' = FALSE
    /\ pc' = "pop"
    /\ UNCHANGED <<t1, sides, t2, G0>>

\* The next active node is made passive.
Pop ==
    /\ pc = "pop"
    /\ \E x \in queue :
           /\ queue' = queue \ {x}
           /\ t1' = x
           /\ sides' = Nbrs(tour, x)
           /\ pc' = "side"
    /\ UNCHANGED <<tour, cost, stack, old, excluded, minCand, t2, G0, table, hit, tried>>

\* "Time limit exceeded".
GiveUp ==
    /\ pc = "pop" /\ queue # {} /\ late
    /\ pc' = "end"
    /\ UNCHANGED <<tour, cost, stack, old, excluded, minCand, queue, t1, sides, t2, G0,
                   table, hit, tried>>

\* The loop over X2: the next neighbour of t1 as t2, or the next active node.
ChooseT2 ==
    /\ pc = "side"
    /\ \/ /\ sides = {}
          /\ tried' = [tried EXCEPT ![t1] = Nbrs(tour, t1)]
          /\ pc' = "pop"
          /\ t1' = 1
          /\ UNCHANGED <<sides, t2, G0>>
       \/ \E y \in sides :
              /\ sides' = sides \ {y}
              /\ IF p.restricted /\ Near(t1, y)
                 THEN UNCHANGED <<t2, G0, pc>>
                 ELSE t2' = y /\ G0' = C(t1, y) /\ pc' = "move"
              /\ UNCHANGED <<tried, t1>>
    /\ UNCHANGED <<tour, cost, stack, old, excluded, minCand, queue, table, hit>>

\* Mutant: t1 is not made active again.
Improve_Passive ==
    /\ pc = "move"
    /\ \E o \in Walks(tour, t1, t2) : \E m \in Improving(o, G0) :
       \E recs \in {Swaps(m, o)} : \E T \in {FoldLeft(Swap1, tour, recs)} :
           /\ tour' = T
           /\ cost' = cost - Gain(m, o)
           /\ hit' = (<<T, cost'>> \in table)
           /\ StoreTour(T, stack \o recs, {})
           /\ pc' = IF hit' THEN "end" ELSE "pop"
    /\ t1' = 1 /\ t2' = 1 /\ G0' = 0 /\ sides' = {}
    /\ UNCHANGED <<table, tried>>

\* BestMove finds a move that closes up to a better tour: it becomes the tour, and
\* t1 active again, unless it is in the hash table.
Improve ==
    /\ pc = "move"
    /\ \E o \in Walks(tour, t1, t2) : \E m \in Improving(o, G0) :
       \E recs \in {Swaps(m, o)} : \E T \in {FoldLeft(Swap1, tour, recs)} :
           /\ tour' = T
           /\ cost' = cost - Gain(m, o)
           /\ hit' = (<<T, cost'>> \in table)
           /\ StoreTour(T, stack \o recs, IF hit' THEN {} ELSE {t1})
           /\ pc' = IF hit' THEN "end" ELSE "pop"
    /\ t1' = 1 /\ t2' = 1 /\ G0' = 0 /\ sides' = {}
    /\ UNCHANGED <<table, tried>>

\* Exclude, for the pairs of a move that has led to T.
Exclude(T, pairs) ==
    excluded' = [x \in Node |-> excluded[x] \cup {y \in old[x] : {x, y} \in pairs \ T}]

\* BestMove makes the best of the moves that do not improve; the chain goes on
\* from its last node.
Advance ==
    /\ pc = "move"
    /\ \E o \in Walks(tour, t1, t2) :
           /\ Improving(o, G0) = {}
           /\ \E m \in BestMoves(o, G0) :
              \E recs \in {Swaps(m, o)} : \E T \in {FoldLeft(Swap1, tour, recs)} :
                  /\ tour' = T
                  /\ stack' = stack \o recs
                  /\ Exclude(T, {{o[m.s[2*i - 1]], o[m.s[2*i]]} : i \in 1..p.opt})
                  /\ t2' = o[m.s[2 * p.opt]]
                  /\ G0' = m.g
    /\ UNCHANGED <<cost, old, minCand, queue, t1, sides, table, pc, hit, tried>>

\* BestMove finds nothing: RestoreTour undoes the chain.
Fail ==
    /\ pc = "move"
    /\ \E o \in Walks(tour, t1, t2) :
           Improving(o, G0) = {} /\ BestMoves(o, G0) = {}
    /\ tour' = FoldLeft(Undo, tour, Reverse(stack))
    /\ excluded' = [x \in Node |-> IF x \in NodesOf(stack) THEN {} ELSE excluded[x]]
    /\ stack' = <<>>
    /\ pc' = "side"
    /\ t2' = 1 /\ G0' = 0
    /\ UNCHANGED <<cost, old, minCand, queue, t1, sides, table, hit, tried>>

\* Gain23: tours that 4 or 5 exchanged edges make better.
Gain23 == {T \in Tours : TourCost(T) < cost /\ Cardinality(tour \ T) \in {4, 5}}

\* Mutant: the tour is inserted before it is searched for.
Local_InsertFirst ==
    /\ pc = "pop" /\ queue = {}
    /\ table' = table \cup {<<tour, cost>>}
    /\ hit' = TRUE
    /\ pc' = "end"
    /\ UNCHANGED <<tour, cost, stack, old, excluded, minCand, queue, t1, sides, t2, G0, tried>>

\* No node is active.  A tour met before ends the search, so does a failure of
\* Gain23, and Stop is heeded only after it has found something.
Local ==
    /\ pc = "pop" /\ queue = {}
    /\ \/ /\ <<tour, cost>> \in table
          /\ hit' = TRUE
          /\ pc' = "end"
          /\ UNCHANGED <<tour, cost, stack, old, excluded, minCand, queue, table>>
       \/ /\ <<tour, cost>> \notin table
          /\ table' = table \cup {<<tour, cost>>}
          /\ pc' = "end"
          /\ UNCHANGED <<tour, cost, stack, old, excluded, minCand, queue, hit>>
       \/ /\ <<tour, cost>> \notin table
          /\ Gain23Used
          /\ table' = table \cup {<<tour, cost>>}
          /\ \E T \in Gain23 :
                 /\ tour' = T
                 /\ cost' = TourCost(T)
                 /\ hit' = (<<T, cost'>> \in table')
                 /\ StoreTour(T, <<SetToSeq(UNION (tour \ T))>>, {})
                 /\ pc' = IF hit' \/ stop THEN "end" ELSE "pop"
    /\ UNCHANGED <<t1, sides, t2, G0, tried>>

LinKernighan ==
    /\ Pop \/ GiveUp \/ ChooseT2 \/ Improve \/ Advance \/ Fail \/ Local
    /\ UNCHANGED <<p, cand, best, late, stop>>

-----------------------------------------------------------------------------
(* Properties. *)

\* The tour at the start of the chain.
StartTour == FoldLeft(Undo, tour, Reverse(stack))

\* Excludable knows the tour at the start of the chain and what the chain has
\* taken from it: each node's old neighbours are the ones on that tour, and those
\* that are no neighbours any more are excluded, in both directions.
OldTourIsKnown ==
    pc \in {"pop", "side", "move"} =>
        \A x \in Node :
            /\ old[x] = Nbrs(StartTour, x)
            /\ old[x] \ Nbrs(tour, x) \subseteq excluded[x] /\ excluded[x] \subseteq old[x]
            /\ \A y \in excluded[x] : x \in excluded[y]
            /\ stack = <<>> => excluded[x] = {}
            /\ minCand[x] = LeastCost(StartTour, x, cand)

\* Cost is the cost of the tour; within a chain, the tour as it is closed differs
\* from it by what G0 says.
CostIsKept ==
    /\ pc \in {"pop", "side"} => TourCost(tour) = cost
    /\ pc = "move" => TourCost(tour) = cost - (G0 - C(t1, t2)) /\ {t1, t2} \in tour

\* A node that is not active has been tried since its neighbours last changed:
\* no improvement has been passed over because a node was forgotten.
PassiveNodesWereTried ==
    /\ pc = "pop" => \A x \in Node \ queue : tried[x] = Nbrs(tour, x)
    /\ pc = "side" => \A x \in Node \ (queue \cup {t1}) : tried[x] = Nbrs(tour, x)

=============================================================================
