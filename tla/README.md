# LKHcpp in TLA+

Specifications of LKHcpp, a C++ port of the Lin-Kernighan-Helsgaun heuristic for
the travelling salesman problem: modules that TLC checks on small instances, and
theorems that TLAPS proves for all of them. Paths below are relative to the
repository; the sources of the program itself are `src/` and `include/`.

## 1. The system

A call of `LKHcpp::Solve(Param, TSPLIB)` encodes a problem as a cost matrix and
solves it in `param.threads` threads. Each thread has its own `context` and `param`
(both `thread_local`) and shares with the others only the flag `stop_` and one slot
each in two vectors on the caller's stack. A thread makes `runs` runs
(`FindTour`) of `max_trials` trials. A trial chooses an initial tour, improves it
with `LinKernighan`, merges it with the best tour of the run and with the tour
1, 2, ..., n, and records it if it is better. `LinKernighan` makes sequences of
2-opt moves (`Swap1`) on a tour representation and undoes those that did not pay
(`RestoreTour`), and ends with `Gain23`, which tries non-sequential moves.

| component | state | operations | interacts with |
|---|---|---|---|
| tour, doubly linked list (`Flip.cpp`, `Between.cpp`, `Tree.h`) | `Suc`, `Prd`, `Rank` of nodes, `Reversed` | `SUC`, `PRD`, `BETWEEN`, `Flip` | called by all moves; pushes on the stack, updates the hash value |
| tour, two-level list (`Flip.cpp`, `Between_SL.cpp`) | the same, and segments with `First`, `Last`, `Size`, `Rank`, `Reversed`, `Parent` | `Flip_SL`, `SplitSegment`, `FlipNodes` | as above |
| tour, three-level list (`Flip.cpp`, `Between_SSL.cpp`) | the same, and super segments of segments | `Flip_SSL`, `SplitSegment`, `FlipNodes` | as above |
| stack of moves (`SwapStack.h`) | records `t1..t4` | `push`, `pop`, `restore` | `RestoreTour`, `Improvement`, `StoreTour` |
| hash table (`HashTable.h`) | hash value of the tour, known local optima | `update_hash`, `insert`, `search`, `clear` | representations, `LinKernighan`, `FindTour` |
| local search (`LinKernighan.cpp`, `move/`, `Gain23.cpp`, `BridgeGain.cpp`) | queue of active nodes, excluded edges, gains, `gain23_s1` | `BestMove`, `Make*OptMove`, `Gain23` | representations, candidates, hash table, `stop_` |
| merging (`MergeWithTourIPT.cpp`) | two tours as `OldSuc`/`OldPrd` and `Next`/`Prev`, their costs | exchange parts of one for parts of the other | `FindTour` |
| candidate sets (`candidate/`) | candidates of every node with alpha values | create, order, trim, adjust, reset | 1-tree, `FindTour` |
| 1-tree and ascent (`Ascent.cpp`, ...) | `Pi`, `Dad`, `Cost`, `Norm`, step size, period | minimum spanning tree, 1-tree, step of the ascent | candidates; may solve the problem |
| trials (`FindTour.cpp`, ...) | `BestSuc`, `BetterCost`, `Trial` | trials of a run | local search, `stop_`, time limits |
| library (`LKHcpp.cpp`) | `stop_`, threads, results, exceptions | `Solve`, `SolveParallel`, `stop` | any thread may call `stop` |
| program (`main.cpp`) | `g_stop`, `solve_done`, `tour_file` | SIGINT, polling, joining, writing | library |
| C interface (`LKH.cpp`) | a handle | create, solve, stop, destroy | library |
| POPMUSIC (`POpMUSICCandidateSetCreator.cpp`) | an array of cities, sub-paths, a tour array with its inverse | `build_path`, `fast_POPMUSIC`, `path_threeOpt`, `flip`, `doubleBridgeKick` | candidate sets |
| parameters (`Param.cpp`) | fields of `Param` | read, `Patch`, `Adjust` | program, library |
| Steiner variant (`STTSPVariant.cpp`, `Dijkstra.h`, `Heap.h`) | network, record of the search, heap, paths between required nodes | `Encode`, `Decode` | library, `ExtractFinalTour` |
| TSPLIB reader, other variants | data | read, encode | library |

### What is hard here

*Long sequences of legal calls.* A tour representation is right after one move
and must be right after millions. Ranks drift downwards, segments shrink to one
node, grow, and are read in either direction; a mistake shows as a wrong answer of
`BETWEEN` long after the move that caused it.

*Values kept beside what they describe.* `Cost` is never computed again after the first
tour; `OldPrd`, `OldSuc`, two flags and `Node.Cost` are refreshed only at the nodes of
the stack; the queue of active nodes must hold every node whose neighbours have changed;
candidates are extended in a run and must come back as they were.

*Undoing.* `RestoreTour` undoes moves by moves that push on the stack it is emptying.
A move and its inverse may reverse different sides of the tour, so the tour may
come back in the opposite direction; the callers of `Improvement` hold nodes that
they read before.

*Interleaving and failure.* Threads end in any order, with a tour, without one, or
with an exception. `stop` and the time limits come between any two steps. SIGINT
comes while the solver is returning.

*State that outlives its problem.* `context` is `thread_local`; a second call by the
same thread begins with what the first has left.

`PROJECT.json` lists these hazards one by one, with the line where each bites and the
properties that would show it going wrong.

### What makes each component correct

* representation: callers see one cycle through all nodes, the same forwards and
  backwards; a flip is the 2-opt move it is called for; `BETWEEN` is what a walk
  along the tour would say; undoing restores the tour and, for `Improvement`, the
  direction; the hash value is that of the tour;
* moves: the move made is the exchange whose gain was computed, and no move of the
  kind looked for is passed over;
* local search: the cost kept is the cost of the tour; what is known of the tour at the
  start of a chain is right; no node is forgotten; the hash table cuts nothing that
  matters; the search ends;
* merging: the result is a tour, with its cost, and no worse than the one given;
* candidate sets: the nearest nodes in terms of exact alpha values; the original sets
  come back after a run;
* 1-tree and ascent: the bound holds for every tour, `Norm == 0` means an optimal tour,
  the ascent ends;
* trials and library: the best tour found is the one returned, with its cost,
  whatever the order of threads, `stop` or time limits; every call returns and
  leaves no thread; a solver works on the problem it was given;
* POPMUSIC: a path keeps its ends and does not get longer, the moves made on the array are
  those whose gains were counted, the tour stays one, the recursion ends;
* parameters: what the command line says is in force, and what `Adjust` leaves fits the problem;
* Steiner variant: costs and paths are those of shortest ways, and what is decoded is a
  closed walk of the cost reported;
* program: always ends, and writes nothing but the answer.

## 2. The modules

| module | models | lines of the program |
|---|---|---|
| `Cycles` | directed Hamiltonian cycles, their edges, paths and 2-opt moves; the vocabulary of the rest | |
| `CyclicTour` | abstract: what every representation promises, one tour that changes by 2-opt moves and turns of direction | |
| `ListTour` | the doubly linked list (tree_type 1), the stack of moves, the hash value | `Flip`, `Between`, `SUC`, `PRD`, `RestoreTour`, `Improvement`, `StoreTour` |
| `TreeTour` | the two-level list (tree_type 2, the default) and the three-level list (tree_type 3) | `Flip_SL`, `Flip_SSL`, `SplitSegment`, `FlipNodes`, `Between_SL`, `Between_SSL`, `AllocateSegments`, start and end of `LinKernighan` |
| `MakeMoves` | moves of up to five edges as sequences of 2-opt moves | `Make2OptMove`, ..., `Make5OptMove` |
| `SequentialMoves` | the nodes that a move chooses, and its cases; extends `MakeMoves` | `Best2OptMove`, ..., `Best5OptMove` |
| `NonSequentialMoves` | two exchanges, one that splits the tour and one that joins it; extends `MakeMoves` | `Gain23`, `BridgeGain` |
| `LocalSearch` | the local search: gains, chains, active nodes, excluded edges, hash table; the moves are those of `SequentialMoves` and `MakeMoves` | `LinKernighan`, `StoreTour`, `RestoreTour`, `Exclude`, `Excludable`, `HashTable` |
| `Trials` | runs and trials on real tours; extends `LocalSearch` | `FindTour`, `ChooseInitialTour`, `RecordBetterTour` |
| `MergeTours` | merging of two tours | `MergeWithTourIPT` |
| `Candidates` | 1-trees, the ascent, candidate sets until the end of a run | `MinimumSpanningTree`, `Minimum1TreeCost`, `Connect`, `Ascent`, `src/candidate` |
| `ThreeOpt` | the 3-opt search on a path | `POpMUSICThreeOpt` |
| `Popmusic` | how POPMUSIC makes a tour; extends `ThreeOpt` | `build_path`, `fast_POPMUSIC`, `optimize_path` |
| `Solver` | calls, threads, runs and trials, with tours as atoms | `LKHcpp.cpp`, `FindTour.cpp`, outer loop of `LinKernighan` |
| `Main` | the program around it; extends `Solver` | `main.cpp` |
| `MC*` | instances for TLC | |
| `CycleTheorems`, `ListTourProofs`, `TreeTheorems`, `TreeTourProofs`, `MoveProofs`, `MergeToursProofs`, `TrialsProofs`, `MainProofs` | theorems and proofs | |

How they fit together: `ListTour` and `TreeTour` implement `CyclicTour`, so that everything
above them may take a tour for its cycle. `SequentialMoves`, `NonSequentialMoves` and
`MakeMoves` say which moves there are on such a tour; `LocalSearch` makes them, `Trials`
calls `LocalSearch`, with what `MergeTours` and `Candidates` show about the two other
things that `FindTour` calls. `Candidates` takes the tours that POPMUSIC makes as given;
`Popmusic` and `ThreeOpt` are about how they are made. `Solver` keeps of all this only the costs and has the
threads, calls and exceptions instead; `Main` is the process around it.

Definitions named `X_Y`, commented as mutants, are variants of `X` with a plausible
mistake. With any of them in place of `X` TLC finds the property that
`PROJECT.json` names violated, so none of the properties holds by itself.

### ListTour

`suc`, `prd` and `rank` are functions on nodes for the fields `Suc`, `Prd` and `Rank`.
`flip` and `undo` hold the locals of a running `Flip` and `RestoreTour`. The reversal
loop is one action per iteration (`ReverseNode`), since it walks the pointers that it
rewrites, and `EndFlip` does what follows it: two links, the record, the hash value.
`RestoreTour` is one action per popped record (`UndoMove` and `DropInverse`), and
`EndRestore` includes what `Improvement` does after it. `Swap1`, `StoreTour`,
`RestoreTour`, `Turn` (the direction that `Gain23` sets) and `Reenter`
(`LinKernighan` ends and is entered again) are what the search may do; it is free
to do any of them in any order when no call is running. `BestMove` is the beginning of
`Best2OptMove`, ..., `Best5OptMove`: the check point of the stack is set, and the
direction in which `t2` follows `t1` is taken.

The hash value is the XOR of one product of random numbers per edge. The model takes
the set of edges that were XORed an odd number of times, that is, numbers that do not
collide. `kept`, `mark` and parts of `flip` are history that only properties read: the
edges of the tour that was last kept, and `SUC` when the check point was set.

`RestoreTour` is called in two ways. `LinKernighan` clears the check point and gives the
whole chain up. `Improvement` goes down to the check point and turns the direction back
for the node its caller holds. `LinKernighan` calls `Improvement` only with a positive
gain, with which it keeps the tour, so the second way is what the
functions offer rather than what this port takes today.

### TreeTour

Nodes, segments and super segments are one type in the code, `TreeNode`, and
`SplitSegment` and `FlipNodes` work on nodes and on segments alike. So here all three are
numbers of one kind, the whole pointer structure is one record, `tour`, whose fields
are functions on them, and the functions of `Flip.cpp` are operators from record to
record, in the order of the code: `Prepared` splits pieces where `Flip_SL` and
`Flip_SSL` do, `Local` chooses the arguments of `FlipNodes`, `FlipSegments` and
`FlipSupers` turn whole pieces around. `SplitSegment` consists of two mirrored halves,
each with two cases; `GiveAway` is one of these halves, with its direction as a
parameter. A move and a step of `RestoreTour` are one action: what is inside a loop
was shown in `ListTour`.

`tour.type` is `tree_type`. With 2 the ring of the top level consists of segments, with 3
of super segments; `Turned` is the direction in which an item is read, from its own
parent's bit and, with three levels, its grandparent's. With a single segment `Flip_SL`
and `Flip_SSL` call `Flip`. `LinKernighan` lays the segments over the nodes from a random
`FirstNode`; up to renaming nodes this is the tour and the `FirstNode` of the initial
states, so `Reenter` needs no other.

### MakeMoves and SequentialMoves

Nothing in the choice of a move depends on the names of nodes, so a node is its place on
the tour at the call, counted from `t2`: `t1` is `N`, `t2` is 1, and `SUC`, `PRD`,
`BETWEEN` are arithmetic. (`ListTour` and `TreeTour` show that the representations
answer in this way.) `t` is `<<t1, t2, ...>>` and grows by two nodes in `ChooseNext`,
which is one turn of two nested loops: a candidate of the last node, and one of the
two neighbours of it. Gains, the number of candidates (`max_breadth`) and `Excludable`
decide which of the choices are tried, and in which order; here any may be, and any may
be the one that is made. So a run says of every cost matrix and every candidate set
that the move made is the one whose gain was computed. `opt` tells which of the
four functions runs; they differ in `Tried6`, `Tried8Of4`, `Tried8Of5` and in which
closed tours they try (`Closable`). A further step of a chain begins with the same
state up to names of nodes.

`MakeMove` is the call of a Make function. These are tables of arguments for `Swap1`, ...,
`Swap5`, with indices of `t` in the place of nodes; `swaps` is what is left of the
list, and `Swap1` makes one 2-opt move on `tour`, a sequence of nodes, as `CyclicTour`
promises it. A case that a table does not know is the code's exception, and then no
exchange is made: `MoveIsTheExchange` covers it.

`AllMovesConsidered` compares `ChooseNext` with all pairs of nodes that may extend the
move: one that is passed over leads to no closed tour with the number of edges the
function looks for. It is about pure sequential moves, whose last edge is not an edge
of the tour; it says nothing of moves that the gain criterion leaves out.

### NonSequentialMoves

The same for `Gain23` (`s`, `case`) and `BridgeGain` (`t`, `side`). `side` is the segment
from `u2` to `u3` in which `t1` is chosen. The code takes the cycle with fewer
nodes, but `SegmentSize` is approximate on segment lists, so either may be taken;
after a 2-opt move `Gain23` asks before the call and only the first is. The module ends
with the first move that is made: `Improvement` with a positive gain keeps it
and `Gain23` returns. If `BridgeGain` finds nothing, `Gain23` goes on as if it had not
been called, which is the choice between `CallBridgeGain` and `ChooseNext`.

### LocalSearch and Trials

`p` is a problem: costs, candidates, the 1-tree and a few parameters. The tour is its set
of edges, which is what the hash value stands for. `pc` is `pop` at the head of the loop
over active nodes, `side` in the loop over the two neighbours of `t1`, `move` where
`BestMove` is called, `local` is passed when no node is active, and `end` is the end of
`LinKernighan`. One call of `BestMove` is one action: `Improve` when some closed tour is
better, otherwise `Advance` with a best move that does not close up, otherwise `Fail`,
which undoes the chain. What can be tried is computed with the operators `Candidates`,
`Ends` and `Closable` of `SequentialMoves` from the nodes in the order of the tour, with
the gains of the code; what is made are the 2-opt moves of `MakeMoves`, and these are
what is stacked. `Walks` are the orders of the nodes in which the edges are a tour's; a set of
edges that is no tour has none, and nothing goes on from it.

Open are the order in which active nodes are taken, the order of candidates (and so which
of several improving moves is found first, and which of several best ones is kept), and
what `Gain23` finds: any better tour at a distance of four or five edges. `max_breadth`
does not cut, and `gain_criterion_used` is on.

`Trials` adds `ChooseInitialTour` (`Alternatives` are its rules, one after the other),
merging (`Merged`, any result that `MergeTours!ReturnsBetterTour` allows),
`RecordBetterTour` and `AdjustCandidateSet`, the hash table that is cleared with a better
tour, and the runs of `LKHcpp::Solve`, which share the table. `late` and `stop` are set at
any moment at which they are looked at next. `tried` and `hit` are history for the
properties; `Forget` gives variables that nobody reads any more a fixed value.

The costs are those that the search works with (`SwitchCostToD`), penalties included. The
code subtracts the penalties from the cost of a tour, which is the same for all tours.

### MergeTours

One call. `Shrink` takes out the nodes with the same neighbours in both tours and sets
ranks and costs; `Scan` looks for the shortest stretch of equal nodes in both, from every
node and in both directions, in the order of the code; `Merge` replaces it in the tour in
which it is dearer (`ImproveT1`, `ImproveT2`); `Return` decides which tour is expanded.
The direction of the second tour is turned when the code does, in `Shrink`.

### Candidates

`tree` is the 1-tree: `order` is the list of nodes that `Follow` and `Precede` rearrange,
`dad` and `cost` the fields of nodes, `next` and `nextCost` those of the special node,
which is first in the list. `OneTrees` gives every 1-tree that `Minimum1TreeCost` may
find: in a dense graph the code's order decides among equal edges, in a sparse one the
heap, of which only the promise is kept, that its top is a least element. `asc` holds the
locals of `Ascent`. The actions are `Start` (from the label in the code to the loop),
`AscentStep` (one turn of the inner loop, with the second 1-tree and the jump back to
`Start`), `EndPeriod`, `EndAscent` and `CreateCandidateSet`. `RecordBetterTour`, with
any better tour, and `EndRun` are what trials do to the sets. In place of POPMUSIC, `AddTours`
makes candidate sets from given tours.

Alpha values are compared with their definition, what a cheapest 1-tree with the edge
costs more than a cheapest one, from all spanning trees (`TrueAlpha`).

### ThreeOpt and Popmusic

`tour` is the array from place 0 on, and `pos` its inverse, which every assignment of the
code renews. `flips` is what is left of the calls of `flip` that a move or a kick consists
of; in the code all but the first depend on whether two nodes are neighbours after the
first (`Flipped`), and here the first is written in the same way, with a test that holds.
`Improve` is one turn of the loops over neighbours that ends in a move, any of those that
gain in place of the first; `NoImprovement` one that does not. `reversed` is a member of the
object: a search begins with what the one before has left.

`Popmusic` has the recursion as a list of parts that are still to be treated, in the order
of the recursive calls; a call that returns at once is left out. A part is a pair of
places, and the end of one and the beginning of the next are cities of neighbouring clusters,
as in the code. `OptimizePart` and `OptimizeSample` call the search (`Begin`), whose steps are
`SearchOn`; it returns in the action that uses its result (`PartOptimized`, `Divide`), and its
arrays are freed.

### Solver

A tour is an element of a set with a cost. What the local search leaves is any tour
that is not more expensive, and a further pass needs a cheaper one (`Gain > 0`).
`MergeWithTourIPT` leaves the tour it was given or one that is cheaper than both it
merges (`Merged`; `MergeTours` shows it). `thread[i]` holds the locals of `Solve` and `FindTour` and the
fields of `Context` that they use. Whether a time limit has passed is a choice at
every look at the clock: `EndTrials` and the unmerged tour of `TrialTours` are always possible.

`pc` goes through `init` (candidates and ascent), `runs` (the loop of `Solve`),
`trials` (the loop of `FindTour`), `search` (`LinKernighan`), `merge` and `end`
(the end of `FindTour` and what `Solve` does with its tour). `Stop` may come
between any two of them. `s1` is the call of `Solve` in whose nodes
`context.gain23_s1` lies. With one thread the caller solves the problem itself and
keeps its context over calls; with more, every call starts new threads. `max_trials` is a
parameter of each call.

`CalcOrdinalTourCost`, candidates and what `AdjustCandidateSet` does are left out:
no decision in this module depends on them. Encoding may fail or not; decoding, which is
part of `ReturnBest`, does not fail. A tour cheaper than the known optimum becomes the new
optimum before it is compared with it (`LKHcpp.cpp:83`), so that with
`stop_at_optimum` it ends the runs as one that is as good does; `RunsAreMade` allows both.

### Main

The solving thread is the caller of `Solver` with one call. The main thread polls for
`solve_done` and `g_stop`, calls `stop` at most once, joins, and writes the tour. The
100 ms of sleep are no action: a poll that finds nothing changes nothing.

## 3. What TLC checks

| run | instance | checks |
|---|---|---|
| `list_tour` | 5 nodes, 2 records on the stack when a move is made, ranks from 1 | `ListIsTour`, `BetweenIsOnPath`, `SegmentSizeIsExact`, `RestoredTour`, that the list implements `CyclicTour`, and `RestoreReturns` (liveness) |
| `trees` | 7 nodes in segments of 2, 2, 2, 1, or one by one in super segments of 2, 2, 2, 1; 2 moves | `ListIsTour`, `BetweenIsOnPath`, `SegmentSizeIsNearlyExact`, `RestoredTour`, and that the trees implement `CyclicTour` |
| `trees_split` | 10 nodes in segments of 3, 3, 3, 1, or in pairs in super segments of 2, 2, 1; 2 moves | `SegmentsHoldTheirNodes`, `SegmentsFormRing` |
| `best_moves` | 10 nodes, all four functions | `MoveIsTheExchange`, `AllMovesConsidered` |
| `gain23` | 12 nodes | `MoveIsTheExchange`, `SideIsACycle` |
| `local_search` | five problems of 5 nodes, up to 2 runs of 2 trials, with stop and time limit | `OldTourIsKnown`, `CostIsKept`, `PassiveNodesWereTried`, `HitLosesNothing`, `BestIsKept`, `RunsEnd` (liveness) |
| `merge` | 10 nodes, two cost functions, all second tours that keep each node within two places, in both directions | `ShrunkenToursAreTours`, `ReturnsBetterTour` |
| `candidates` | 5 nodes, 4 cost functions, sets made from alpha values or by POPMUSIC, symmetric or not, optimum known or not | `BoundHolds`, `CandidatesAreNearest`, `CandidatesReset`, `AscentEnds` (liveness) |
| `popmusic` | the POPMUSIC problems of `candidates` | violates `SolvedIsOptimal`, see section 5 |
| `popmusic_tours` | 6 cities; samples of 2 with 4 cost functions and 24 orders, samples of 3 (all searches of 7 nodes, with kicks) with 4 cost functions; 2 trials, 3 neighbours | `LengthIsKept`, `PathIsTour`, `ScansShorten`, `BuildEnds` (liveness) |
| `solver_reentrant` | 1 thread, 2 calls | violates `Gain23StartsInProblem`, see section 5 |
| `program` | 2 threads, 2 runs, a call with 0, 1 or 2 trials, 2 tours, one cheaper and one dearer than the known optimum | `ExitsWithAnswer`, `RunsAreMade`, `ThreadsJoined`, `StopsPromptly`, `BestSoFar`, `AnswerIsBest`, `ProgramEnds` (liveness) |

### Bounds

*Lists.* `MaxStack` bounds the moves that are pending, not the moves of a behaviour:
moves may be kept (`StoreTour`) and go on. Five nodes are the fewest with which the two
sides of a move have different lengths in both orders and a third node lies
between; with four, every proper move is one of two. `MinRank` stops moves when ranks
have drifted below it; the properties depend on differences of ranks only, and one
full turn is within the bound.

*Trees.* Four pieces are the fewest with which a move turns more than one around (with
three or fewer one of the two paths always lies within a piece and `FlipNodes` is
enough), and segments of three nodes, or super segments of two segments, the fewest
with which a split has a shorter part. `MaxFlips` bounds the moves in a behaviour:
after the first move pieces have other sizes and directions, and the second meets
them. Moves of `RestoreTour` are not counted. Chains start from one node (`Callers`):
the tours before and after are enough different for one, and the node changes only the
direction. In `trees_split` there are none, since the direction matters to none of the
two properties.

*Moves.* A case of a move is an order of the ends of its removed edges on the tour, with
any number of nodes between them, none included. A 5-opt move has ten such ends, so with
ten nodes all can differ, or coincide with some nodes left; more nodes between two ends
would be a piece of the tour that stays as it is, and neighbours on the tour are never
candidates of each other. `Gain23` and `BridgeGain` together remove
at most six edges, twelve ends.

*Local search.* Five nodes have twelve tours, and a 3-opt move on them can be a proper
one. The instances differ in what they bring about: `Mixed` has a search with 3-opt
moves, `Ties` many tours of equal cost and `restricted_search`, `Merging` local
optima that merging improves, `Chains` and `Loose` chains of one and two moves that do
not improve, some of which fail and are undone. `MaxSwaps` is 5, as many as there are nodes.

*Merging.* Ten nodes have room for stretches of three, four and more common nodes, in one
another and side by side, with nodes taken out between them; two cost functions, one
without equal differences and one with many, make both tours the one that is improved.

*Candidates.* With five nodes all spanning trees can be enumerated for the true alpha
values. The cost functions have many ties (1 and 2 only), zeros (bounds that double, and
restarts of the ascent), and all different costs. Periods of 4 are halved twice.

*POPMUSIC.* With fewer than seven nodes the part that `flip` is called for and the rest hardly
differ in size, and with fewer than six there are no kicks: with samples of three each search
is of seven. With samples of two the six cities are cut up in up to three levels, and the scans
take parts of four, the last of which overlaps the one before. Larger samples would choose more
cities at random and do nothing else.

*Solver.* Two threads, two runs and two trials are enough for each to meet one before
and one after it. Two tours give a better and a worse one; ties change nothing in the
properties. `MaxCost` is any number above their costs.

### Fairness

In `ListTour` a running loop goes on (weak fairness of the loop's
actions): it is straight-line code of one thread. The search itself need not do
anything. In `Solver` the caller and each thread are scheduled (weak fairness of each);
nobody needs to call or to stop. No fairness is put on single outcomes: that a search
ends follows from the falling cost, that a run ends from the count of trials, not from
a fair choice between going on and ending. `Main` adds the main thread and the end of
the solving thread; the signal need not come.

`Popmusic` with its searches is one thread that waits for nothing: weak fairness of its next-state
relation. `Trials` and `Candidates` are one thread each, and it keeps running until it is done. This
is weak fairness of its steps. It is written as `[]<>done \/ []<><<step>>_vars`, without
`ENABLED`, whose evaluation takes long for steps as large as these: as some step is
possible until the end, which TLC shows by checking for deadlocks, the two are the same.
Stop, the time limit and the calls that come after the preparation are not part of it.

### Deadlock

is checked for the tours, the local search and the candidates, with an explicit step when
they are done. `SequentialMoves`, `NonSequentialMoves` and `MergeTours` are one call
of a function, which comes to an end, so there it is off. `Solver` and `Main` stop when the
last call has returned, so their configurations switch the check off; that `Main`, with the
solver in it, stops nowhere else is `ProgramEnds`.

## 4. What is proved

No theorem depends on a bound of section 3, nor on the number of nodes, threads, runs
or trials.

`CycleTheorems` is about cycles alone. `ReversalIsTwoOpt` says that a permutation in
which one side of a tour between two of its edges is turned around, and its ends are
linked crosswise, is again one cycle, and that its edges are those of the 2-opt move.
Connectedness is stated with closed sets of nodes, without paths or induction, and the
proofs follow a closed set of the new tour back to one of the old. `SameEdges` says that
two tours with the same edges are the same or each other's reverse.

`ListTourProofs` proves, for any number of nodes and moves and without a bound on the
ranks:

* `TypeCorrect`: `Spec => []TypeOK`;
* `ListCorrect`: `Spec => []ListIsTour`;
* `Implements`: `Spec => ImplementsTour`, every step of the list is a step or a stutter
  of `CyclicTour`.

`ListIsTour` is not inductive: it says nothing while the reversal runs. The invariant
is `ListInv` (TLC agreed on the instance of `list_tour`): in the middle of the loop the nodes passed are a piece of the old tour
that begins at `t3` and has not reached `t2` or `t4`, their links are swapped and all
others are as before (`Reversing`). When the loop meets the null pointer that was put
at `t1`, the piece is exactly one side, and `ReversalIsTwoOpt` gives the rest.

It also proves `RanksFollowTour` (`RankInv`), `BetweenCorrect` (`Spec =>
[]BetweenIsOnPath`) and `SegmentSizeCorrect` (`Spec => []SegmentSizeIsExact`). Both functions
look at ranks only, and no invariant of one step at a time relates ranks to paths. The
inductive invariant is that ranks are `Consecutive`: a step along the tour adds 1 or
takes `N - 1` away, no two ranks are equal and none is `N` above another. While `Flip`
runs (`RanksTurning`), the nodes passed have the ranks of their mirror images in
the segment; the segment may hold the place where ranks wrap around, and then they
drift below the others by as many as were above, which keeps them consecutive. From
consecutive ranks, `AheadSteps` counts the steps from a node without a path,
`PathByDistance` turns the count into `OnPath` with two closed sets of nodes, and
`PathLength` gets the size of a path from a bijection with an interval. TLC cannot
check `RankInv` as it stands, for it says that there are ranks among all integers; it checked the
two properties.

Last it proves `StackIsHistory` (`RestoreInv`) and `Restores` (`Spec =>
RestoredTour`). The stack holds moves, not tours, so the invariant says that there is a
history of tours behind it: it begins with the edges last kept, each record is a proper
2-opt move from one tour to the next, the last tour is the present one, the one at
the check point is the one marked. `RestoreTour` pops a record, makes the inverse
as a move, and drops that one's record; in between the record undone is in the locals
only (`Made`). A popped record undoes its move although the direction may have changed in
between, since a tour with the same edges is the same or the reverse (`SameEdges`), and a node
with the same successor settles which. TLC agreed with `RestoreInv` on four nodes (29040
states).

`TreeTourProofs` proves of the two-level list (tree_type 2, the default), for any number of
nodes above one and any number of moves:

* `Invariance`: `Spec => []IInv`;
* `TreeIsTour`: `Spec => []ListIsTour`;
* `SegmentsHold`: `Spec => []SegmentsHoldTheirNodes`;
* `SegmentsRing`: `Spec => []SegmentsFormRing`;
* `Implements`: `Spec => ImplementsTour`;
* `StackIsHistory`: `Spec => []RestoreInv`, and `Restores`: `Spec => RestoredTour`.

They assume `TreeTypes = {2}` and `N > 1`; the reader of problems rejects fewer than three nodes
(`src/data/TSPLIBReader.cpp:366`). `IInv` says that the tree is well formed
(`GoodTree`), that the nodes as they are read, each with its segment's bit, are a
tour (`Ahead`), and that the hash value is this tour's. A well-formed level (`Level`) is one in which
every segment holds a `Stretch` of its list, ranked up from `First` to `Last` whichever
way it is read (`Stretches`), and the stretches, read with their bits, join up along the ring of
their segments (`Joined`); the segments' ranks count along this ring with one break
(`RingRanked`). None of the four properties is inductive by itself: that a move of whole segments is a
2-opt move needs the ring and its ranks, since `Flip_SL` takes the shorter way
round by comparing ranks; that the ring stays one needs the reading.

The argument follows the code. `TreeTheorems` has the updates in place as functions of the
structure before: `FlipNodesIs`, `FlipSegmentsIs`, and `GiveLeftIs` and `GiveRightIs` for the
halves of `SplitSegment`; and what they do to stretches: turned over with their bits
(`TurnOverLevel`), turned around inside, and handed in part to a neighbour. `SplitSegmentKeeps`
then says that splitting changes nothing that is read (`SameReading`), although it changes
links, ranks, parents and ends; `PreparedKeeps` that after the splits the nodes of
the move are still such a move. `LocalIs` says that the arguments that `Local` chooses are
nodes of one stretch in the order of their ranks and name the same move, and `InOrderIs` that
otherwise the run of segments chosen begins and ends with two of them.
In either case a path of the tour has been turned around (`PathFlipped`), and
`ReversalIsTwoOpt` of `CycleTheorems` says that this is the move (`FLIPMoves`). The layout at the start of
`LinKernighan` and the lists normalised at its end are `LayoutOfList` and
`NormalizedIsList`.

The walks along lists (`Path`) are recursive functions. Induction is not out of reach
where it is over a set: `UpFromZero` gets it from the finiteness of an interval, and with it
`PathIs` says what a walk is, once, for all later proofs, and `SquareRootIs` that there are roots.

`RestoreInv` is like that of `ListTour`. Here a move and its undoing are atomic, but
the record pushed may name the move by others of its four names (`Turnings`), and between the move and its
undoing the segments were split and merged; `RecordMakes` and `UndoesRecord` say that neither
matters.

Its last part proves `BetweenCorrect` (`Spec => []BetweenIsOnPath`) and `SegmentSizeCorrect`
(`Spec => []SegmentSizeIsNearlyExact`) of the two-level list. Ranks are compared within a
segment only, and those of segments with each other. The proofs number the tour from the
first node of a segment: the place of a node is that at which its segment begins and the
number of nodes before it there, by rank, read up or down as the segment's bit says
(`BySegments`). `Between_SL` then compares places in each of its cases, whichever of the three
nodes share a segment. `SegmentSize` is exact within a segment, and across segments as long
as at most one whole segment lies between; otherwise it counts whole segments by the average
size, so the property promises no more.

`MoveProofs` proves `MakesTheExchange` (`Spec => []MoveIsTheExchange`) of `SequentialMoves`: for any
number of nodes from five on, every case that `Best2OptMove`, ..., `Best5OptMove` can end in is known to
`Make2OptMove`, ..., `Make5OptMove`, and the 2-opt moves of its table make the exchange whose gain was
computed. TLC shows this on 10 nodes; the proof needs no bound, since only the ends of the parts
between removed edges matter. The argument has three layers.

* *Blocks.* A tour is a ring of 2 to 5 blocks, each read from its head to its end
  (`Blocks`). What a 2-opt move does whose nodes are ends of blocks (`FlipBlocks`), that
  the ring may be read from any block (`RotateBlocks`) and in either direction (`ReverseBlocks`), and
  which edges the tour has (`BlockEdges`), is proved once, over places and their remainders.
* *Orders.* Each case of a Best function stands for some orders of t1, ..., t2k on the tour
  (`Orders4`, `Orders6`, `Orders8`, `Orders10`), up to twelve for one case of `Best5OptMove`. The lemmas
  `Step...`, one per case, take the conditions on `BETWEEN`, `SUC` and `PRD` by which two more nodes are
  chosen and find that they leave only these orders (`Choose4`, ..., `Choose10`). Where the code tests
  whether a move may be closed, `Closable8` finds that the orders left are those that the tables expect.
* *Swaps.* The lemmas `Move...`, one per case, play the arguments of `Swap1` on each of its
  orders, from the last one back: `Leads` says of a tour and a rest of the arguments that every 2-opt move
  finds the nodes it needs and that the last one gives the exchange.

The invariant (`IInv`) says that the nodes chosen lie in an order of their case (`Placed`), and in a
Make function that what is left of its arguments `Leads` from the tour (`OnTheWay`).

`MergeToursProofs` proves `MergedAreTours` (`Spec => []ShrunkenToursAreTours`): whatever is
taken out and exchanged, both tours remain tours of the nodes left and `Prev` turns `Next` around. What
`Shrink` leaves is a cycle of the nodes kept, as any cycle is when one goes on over those left
out (`Shortcut`), and its ranks are places on the first tour (`RanksCount`). `ScanFinds` says what
the numbers of a scan mean: with as many steps as ranks in its range, a stretch has the same
nodes in both tours and the same end (`StretchIsSame`). The exchange of such stretches leaves one cycle
when they go the same way (`Exchange`) and when they go opposite ways (`ExchangeBack`). That no cost gets
worse, `ReturnsBetterTour`, is left to TLC.

`TrialsProofs` proves `HitIsHarmless` (`Spec => []HitLosesNothing`): when a search ends because
its tour is in the hash table, the tour is no better than the best one known. The table is not
cleared between searches, so the invariant (`TableInv`) is about its entries: each has a cost
that is not below the best one known, unless the search or the trial that made it has not ended and
is now at a cheaper tour or at that one. Of the moves it needs only that a gain is positive, which follows
from the test in `Improve`; of merging that a merged tour is not dearer.

`MainProofs` proves of `Solver`, for any number of threads, runs, trials and calls, any set of
tours and costs: `TypeCorrect`, `KeepsBest` (`BestSoFar`), `JoinsAll`
(`ThreadsJoined`), `Stops` (`StopsPromptly`), `MakesRuns` (`RunsAreMade`),
`AnswersBest` (`AnswerIsBest`) and `StaysStopped` (`StoppedForGood`). The inductive
invariant says of each thread that the tours it keeps have the costs beside them and
are the best of its trials (`ThreadInv`), and of the caller that the threads it
has passed in its loop of joins have finished (`CallerInv`). It needs the number of
passes after `stop` to be 0 during a pass: only then is the count at most 1 after it.
The action properties follow from the invariant in the state before the step.

Of `Main` it proves `Exits` (`MainSpec => []ExitsWithAnswer`), `UsesLibrary` and `KeepsLibrary`.
Every step of the program is a step of `Solver` or a stutter, so all this holds in
the program. For its exit two more facts are needed: between calls the answer is not
cheaper nor dearer than what the threads have found (`AnswerInv`), since no thread moves
then, and the solving thread hands the answer over once, after the call (`HandOver`).

Apart from the two of `TreeTourProofs`, the assumptions are those of the modules: there are nodes,
finitely many, `NIL` is none, and for moves at least five; initial tours are tours; a cost is an integer below `MaxCost`, the known optimum is below
it too, and there is at least one thread; the costs of the local search are integers and the same in both
directions; the second tours to merge are tours.

`TypeOK`, `StoppedForGood` and the inductive invariants (`ListInv`, `IInv`, `RankInv`, `RestoreInv`,
`TableInv`, and `IInv` of `MoveProofs`) are proved and in no run of their own.

**Only model-checked:**

* liveness: `RestoreReturns`, `RunsEnd`, `AscentEnds`, `BuildEnds`, `ProgramEnds`. The proof system
  has neither fairness nor `ENABLED`;
* the three-level list;
* of non-sequential moves `MoveIsTheExchange` and `SideIsACycle`: more cases of the same kind, on a
  tour and on two; and `AllMovesConsidered`, which is about the tours that no choice leads to;
* of the local search and of trials `OldTourIsKnown`, `CostIsKept`, `PassiveNodesWereTried` and
  `BestIsKept`, which rest on both kinds of moves;
* `ReturnsBetterTour`, `LengthIsKept`, `PathIsTour` and `ScansShorten`, which compare sums of costs
  before and after moves, and `BoundHolds`, `CandidatesAreNearest` and `CandidatesReset`, about
  spanning trees: what a fold over a set computes for every input is out of reach where no set
  carries the induction;
* `Gain23StartsInProblem` and `SolvedIsOptimal`, which are violated.

## 5. What was found

*Gain23 goes on from a node that no longer exists.* `README.md:15` promises "Reentrant
solving methods". `Gain23` goes through the nodes from where its last call ended,
`context.gain23_s1`, and begins at `FirstNode` only if that pointer is null
(`src/Gain23.cpp:51`). `Initializer::Init` replaces `context.node_set`, and with it all
nodes, but not this pointer. The second `Solve` of one thread therefore begins with a
node of the first problem, whose memory was freed. Run `solver_reentrant` shows it for
one thread; with more, each call has new threads and contexts.

*With POPMUSIC a tour may be returned as solved that is not optimal.* `Ascent` ends when the
norm of the 1-tree is zero, "in that case the true optimum has been found"
(`src/Ascent.cpp:61-62`), and `LKHcpp::Solve` then returns this tour without any trial.
That is right for a 1-tree of all edges (`BoundHolds`). With `candidate_set_type` POPMUSIC
the first 1-tree is already one of the candidate edges only. If these come from a single
tour, or from tours of which one is the cheapest 1-tree of their union, the norm is zero and
the answer is that tour. Run `popmusic` shows one that is not the cheapest.

*Candidates from POPMUSIC are not what a comment says.* `OrderCandidateSet` "augments the
candidate set by using transitive relatations": "If the edges (i,j) and (j,k) are contained
the candidate set, then the edge (i,k) is added to the candidate set"
(`src/candidate/OrderCandidateSet.cpp:12-15`), and "MaxAlpha puts an upper limit on their
Alpha-values" (lines 20-21). It does neither: the only edges it adds are those of the 1-tree
(lines 46-59), and after `MaxAlpha` has been cut down to `INT_MAX` (line 45) nothing reads it.
`Ascent.cpp:74` and `CreateCandidateSet.cpp:60` compute a limit and pass it in vain. A far edge
of a POPMUSIC tour therefore stays a candidate as long as its node has few others: with five
nodes, an edge of cost 9 among edges of cost 1 and 2, and the candidates from the tours 1-2-3-4-5 and
1-3-2-5-4, a run may begin with that edge at an alpha value of 7 where the limit is 1.
`CandidatesAreNearest` says what the code does: with POPMUSIC the candidates are the nearest
in the graph of the given candidate edges and those of the 1-tree, without a limit on alpha
values. `GenerateCandidates` keeps the limit, and there `CandidatesAreNearest` asks for it.

*A comment calls two moves infeasible that are tours.* The list of cases at the end of
`Gain23.cpp` says that "(*) signifies an infeasible solution" (`src/Gain23.cpp:227`) and
marks `Case6` = 5 and 6 with it (lines 234 and 240). Both exchanges give a tour, and the
code is right to make them with `Make3OptMove` (line 121): they are among the moves of
which run `gain23` shows `MoveIsTheExchange`.

*The original order of candidates need not come back.* `ResetCandidateSet` says that "the
original order is re-established" (`src/candidate/ResetCandidateSet.cpp:8`). It sorts by
alpha value and cost, so candidates with equal ones stay as the run has left them.
`CandidatesReset` therefore promises the same candidates, sorted.

Seen while modelling, without a run: a POPMUSIC sample of one city makes `build_path` call
itself without end, and nothing forbids `popmusic_sample_size` = 1 (`Adjust` limits it from
above); `popmusic_trials` = 0 is replaced by the size of the first path that is searched and
stays so for all others (module `ThreeOpt` keeps `trials` from search to search); an option
whose value is the default of `Param` does not override the parameter file
(`src/data/Param.cpp:6`), so `--runs 10` with `"runs": 3` in the file makes three runs; in `EdgeDataEncoder.cpp` a pair of nodes without an edge costs 0.

## 6. What is not modelled, and the plan

Not modelled:

* vendored code (`include/CLI11`, `include/nlohmann`, `include/plog`), which is most of the
  lines of the repository; the program uses it for options, JSON and logging;
* reading of TSPLIB text and JSON, floating-point distances, costs from coordinates and from
  lists of edges, logging: I/O or arithmetic that says nothing about states;
* parameters, their reading and adjustment, and the Steiner variant: sequential passes before
  and after the solver, which `Solver` and `Candidates` take as given;
* the C interface, which passes its calls on to `LKHcpp` and turns exceptions into null;
* the tour of fixed edges and the random numbers that POPMUSIC begins with: it may begin
  with any order;
* `SegmentSize` with three levels between different segments, a rough guess;
* `max_candidates == 0`, `max_breadth`, and `gain_criterion_used == false`;
* two problems in one context, except for `gain23_s1`.

Theorems planned: the three-level list, whose segments are items of a level as nodes are (`Level`
is stated for both); non-sequential moves, by the lemmas of `MoveProofs` on blocks; the cost and the
old tour kept by the local search under the promise of the moves; `ReturnsBetterTour`.
