------------------------------- MODULE ThreeOpt -------------------------------
(***************************************************************************)
(* POpMUSICThreeOpt (src/candidate/POpMUSICCandidateSetCreator.cpp): the   *)
(* 3-opt search that shortens a path between two fixed ends.  The path is  *)
(* closed by an edge between its ends that is never removed, and the tour  *)
(* is an array; pos[v], the place of v in it, is kept with every           *)
(* assignment.                                                             *)
(***************************************************************************)
EXTENDS Integers, SequencesExt, FiniteSetsExt

CONSTANTS
    max_neighbors,  \* as in Param
    Trials          \* Param::popmusic_trials, 0 for one per node

ASSUME ThreeOptAssumption == max_neighbors \in Nat \ {0} /\ Trials \in Nat

VARIABLES
    pc,             \* "idle" between calls, "scan" or "trial"
    trials,         \* the member of this name, a reference to Param::popmusic_trials
    dist,           \* POpMUSICThreeOpt::dist, symmetric, 0 between the ends
    tour,           \* the nodes from place 0 of the array on
    flips,          \* what is left to do of the move that was begun
    reversed,       \* whether the tour is read backwards
    tourLength,
    dontLook,       \* nodes that are passed over
    b, xa,          \* the loops of threeOpt; xa = 0 before b is looked at
    improved,
    trial,
    bestTour, bestTourLength,
    best_sol        \* the path as the caller sees it, from node 0 to node N

scan == <<b, xa, improved>>
best == <<bestTour, bestTourLength>>

n == Len(best_sol)
N == n - 1
Node == 0..N

call == <<trials, dist, best_sol>>
searchVars == <<pc, call, tour, flips, reversed, tourLength, dontLook, scan, trial, best>>

\* length_path: the sum of d over the steps of p.
PathLength(d, p) ==
    LET sum[i \in DOMAIN p] == IF i = 1 THEN 0 ELSE sum[i - 1] + d[p[i - 1]][p[i]]
    IN  sum[Len(p)]

-----------------------------------------------------------------------------
(* The tour t, read backwards if r. *)

pos(t, v) == (CHOOSE i \in 1..n : t[i] = v) - 1

next(t, v) == t[((pos(t, v) + 1) % n) + 1]
prev(t, v) == t[((pos(t, v) - 1) % n) + 1]

NEXT(t, r, v) == IF r THEN prev(t, v) ELSE next(t, v)
PREV(t, r, v) == IF r THEN next(t, v) ELSE prev(t, v)

\* v2 is met on the way from v1 to v3.
BETWEEN(t, r, v1, v2, v3) ==
    LET u == IF r THEN v3 ELSE v1
        w == IF r THEN v1 ELSE v3
        x == pos(t, u)
        y == pos(t, v2)
        z == pos(t, w)
    IN  IF x <= z THEN (y >= x /\ y <= z) ELSE (y <= z \/ y >= x)

\* The edge that closes the path.
fixed(u, v) == {u, v} = {0, N}

\* The tour from place i on.
From(t, i) == SubSeq(t, i + 1, n) \o SubSeq(t, 1, i)

\* The places from i on to j change their nodes end for end.
Turned(t, i, j) ==
    LET u    == From(t, i)
        size == ((j - i) % n) + 1
    IN  From(Reverse(SubSeq(u, 1, size)) \o SubSeq(u, size + 1, n), (n - i) % n)

\* flip: the way from `from' to `to' is turned, or else all the rest.
flip(t, r, from, to) ==
    LET i == pos(t, IF r THEN to ELSE from)
        j == pos(t, IF r THEN from ELSE to)
    IN  IF from = to THEN t
        ELSE IF (j - i) % n >= n \div 2 THEN Turned(t, (j + 1) % n, (i - 1) % n)
        ELSE Turned(t, i, j)

\* A call of flip from u to v, or from v to u if y does not come next after x: then
\* the flips before have turned the rest of the array.
Flip(x, y, u, v) == [if |-> <<x, y>>, from |-> u, to |-> v]

\* Mutant: it is taken for granted how the flips before were made.
Flipped_AsIs(t, r, m) == flip(t, r, m.from, m.to)

Flipped(t, r, m) ==
    IF NEXT(t, r, m.if[1]) = m.if[2] THEN flip(t, r, m.from, m.to)
                                     ELSE flip(t, r, m.to, m.from)

-----------------------------------------------------------------------------
(* createNeighbors: the max_neighbors nearest nodes, nearer numbers first. *)

Nearer(v, u, w) == dist[v][u] < dist[v][w] \/ (dist[v][u] = dist[v][w] /\ u < w)

Neighbors(v) ==
    {w \in Node \ {v} :
        Cardinality({u \in Node \ {v} : Nearer(v, u, w)}) < max_neighbors}

\* Neighbours of v that are not next to it on the tour.
Apart(v) == Neighbors(v) \ {next(tour, v), prev(tour, v)}

-----------------------------------------------------------------------------
(* The moves that threeOpt finds from b in the present direction; the code  *)
(* takes the first it meets in the order of the neighbour lists.            *)

Next1(v) == NEXT(tour, reversed, v)
Prev1(v) == PREV(tour, reversed, v)

\* The edges {a,b} and {c,d} to be removed, d after c or before it.
Second ==
    LET a == Prev1(b)
    IN  {<<xc, c, d>> \in {1, 2} \X Apart(b) \X Node :
            /\ ~fixed(a, b)
            /\ dist[a][b] - dist[b][c] > 0
            /\ d = (IF xc = 1 THEN Prev1(c) ELSE Next1(c))
            /\ d # a /\ ~fixed(c, d)}

\* g2
Gain2(c, d) == dist[Prev1(b)][b] - dist[b][c] + dist[c][d]

TwoOptMoves ==
    LET a == Prev1(b)
    IN  {[flips |-> <<Flip(a, b, b, s[3])>>,
          gain |-> Gain2(s[2], s[3]) - dist[s[3]][a],
          ends |-> {a, b, s[2], s[3]}] :
            s \in {x \in Second : x[1] = 1 /\ Gain2(x[2], x[3]) - dist[x[3]][a] > 0}}

\* The ends f that e may have, with the number of the case.
Sixth(xc, c, e) ==
    IF xc = 1 THEN {<<1, IF BETWEEN(tour, reversed, b, e, c) THEN Next1(e) ELSE Prev1(e)>>}
              ELSE {<<2, Prev1(e)>>, <<3, Next1(e)>>}

\* The third edge {e,f}.
Third ==
    UNION {UNION {{<<x[1], s[2], s[3], e, x[2]>> : x \in Sixth(s[1], s[2], e)} :
                      e \in {v \in Apart(s[3]) :
                                /\ s[1] = 2 => BETWEEN(tour, reversed, b, v, s[2])
                                /\ Gain2(s[2], s[3]) - dist[s[3]][v] > 0}} :
              s \in Second}

Gain3(c, d, e, f) == Gain2(c, d) - dist[d][e] + dist[e][f] - dist[f][Prev1(b)]

\* The flips of the three kinds of moves.
Flips(k, c, d, e, f) ==
    LET a == Prev1(b)
    IN  IF k = 1 THEN <<Flip(a, b, b, d), Flip(f, e, e, a)>>
        ELSE IF k = 2 THEN <<Flip(c, d, e, c), Flip(a, b, b, f)>>
        ELSE <<Flip(c, d, d, a), Flip(e, f, f, c), Flip(d, b, b, e)>>

ThreeOptMoves ==
    LET a == Prev1(b)
    IN  {[flips |-> Flips(m[1], m[2], m[3], m[4], m[5]),
          gain |-> Gain3(m[2], m[3], m[4], m[5]),
          ends |-> {a, b, m[2], m[3], m[4], m[5]}] :
            m \in {x \in Third : /\ x[5] # a /\ ~fixed(x[4], x[5])
                                 /\ Gain3(x[2], x[3], x[4], x[5]) > 0}}

-----------------------------------------------------------------------------
(* Steps. *)

SearchInit ==
    /\ pc = "idle" /\ trials = Trials
    /\ dist = <<>> /\ best_sol = <<>> /\ tour = <<>> /\ bestTour = <<>>
    /\ tourLength = 0 /\ bestTourLength = 0
    /\ flips = <<>> /\ dontLook = {} /\ trial = 0
    /\ b = 0 /\ xa = 0 /\ improved = FALSE
    /\ reversed \in BOOLEAN

\* path_threeOpt is called for a path of m nodes, numbered in its order, with
\* distances d.
Begin(m, d) ==
    /\ pc = "idle" /\ pc' = "scan"
    /\ dist' = d /\ best_sol' = [i \in 1..m |-> i - 1]
    /\ tour' = best_sol' /\ bestTour' = tour'
    /\ tourLength' = PathLength(d, tour')
    /\ bestTourLength' = tourLength'
    /\ trials' = IF trials = 0 THEN m ELSE trials
    /\ trial' = 1
    /\ UNCHANGED <<flips, reversed, dontLook, scan>>

\* b is passed over, or looked at from both sides.
Take ==
    /\ pc = "scan" /\ flips = <<>> /\ b < n /\ xa = 0
    /\ IF b \in dontLook THEN (b' = b + 1 /\ UNCHANGED <<xa, dontLook>>)
                         ELSE (xa' = 1 /\ dontLook' = dontLook \cup {b} /\ UNCHANGED b)
    /\ UNCHANGED <<pc, call, tour, flips, reversed, tourLength, improved, trial, best>>

\* for (xa = 1; xa <= 2; xa++, reversed = !reversed)
OtherSide ==
    /\ reversed' = ~reversed
    /\ xa' = IF xa = 1 THEN 2 ELSE 0
    /\ b' = IF xa = 1 THEN b ELSE b + 1

\* A move that shortens the tour is begun.
Improve ==
    /\ pc = "scan" /\ flips = <<>> /\ xa # 0
    /\ \E m \in TwoOptMoves \cup ThreeOptMoves :
        /\ flips' = m.flips
        /\ tourLength' = tourLength - m.gain
        /\ dontLook' = dontLook \ m.ends
    /\ improved' = TRUE
    /\ UNCHANGED <<pc, call, tour, reversed, b, xa, trial, best>>

\* The next flip of the move, or of the kick, for which xa = 0.
DoFlip ==
    /\ flips # <<>>
    /\ tour' = Flipped(tour, reversed, Head(flips))
    /\ flips' = Tail(flips)
    /\ IF Tail(flips) = <<>> /\ xa # 0 THEN OtherSide ELSE UNCHANGED <<reversed, b, xa>>
    /\ UNCHANGED <<pc, call, tourLength, dontLook, improved, trial, best>>

\* No move shortens the tour.
NoImprovement ==
    /\ pc = "scan" /\ flips = <<>> /\ xa # 0
    /\ TwoOptMoves \cup ThreeOptMoves = {}
    /\ OtherSide
    /\ UNCHANGED <<pc, call, tour, flips, tourLength, dontLook, improved, trial, best>>

\* All nodes were taken; they are once more if there was an improvement.
EndPass ==
    /\ pc = "scan" /\ b = n
    /\ b' = 0 /\ improved' = FALSE
    /\ pc' = IF improved THEN "scan" ELSE "trial"
    /\ UNCHANGED <<call, tour, flips, reversed, tourLength, dontLook, xa, trial, best>>

\* The better one of the tour and bestTour.
Kept == IF tourLength < bestTourLength THEN tour ELSE bestTour
KeptLength == Min({tourLength, bestTourLength})

LastTrial == n <= 5 \/ trial = trials

\* t[0..3] of doubleBridgeKick, in the order of their places: each begins an edge
\* that may go.
KickStarts(t) ==
    LET free == {i \in 1..n : ~fixed(t[i], next(t, t[i]))}
    IN  {<<t[i], t[j], t[k], t[l]>> :
            <<i, j, k, l>> \in {x \in free \X free \X free \X free :
                                    x[1] < x[2] /\ x[2] < x[3] /\ x[3] < x[4]}}

\* doubleBridgeKick: {a,b}, {c,d}, {e,f} and {g,h} give way to {b,c}, {d,a}, {f,g}
\* and {h,e}.
Kick ==
    /\ pc = "trial" /\ ~LastTrial
    /\ \E k \in KickStarts(Kept) :
        LET a == k[1]  bb == next(Kept, a)
            e == k[2]  f == next(Kept, e)
            c == k[3]  d == next(Kept, c)
            g == k[4]  h == next(Kept, g)
        IN  /\ flips' = <<Flip(a, bb, bb, c), Flip(e, f, f, h), Flip(d, bb, c, d)>>
            /\ dontLook' = dontLook \ {a, bb, c, d, e, f, g, h}
            /\ tourLength' = KeptLength
                  - (dist[a][bb] - dist[bb][c] + dist[c][d] - dist[d][a]
                     + dist[e][f] - dist[f][g] + dist[g][h] - dist[h][e])
    /\ tour' = Kept
    /\ bestTour' = Kept /\ bestTourLength' = KeptLength
    /\ reversed' = FALSE /\ trial' = trial + 1
    /\ pc' = "scan"
    /\ UNCHANGED <<call, scan>>

\* Mutant: the path is read in the direction that the search left.
Written_AsIs(t) ==
    LET u == From(t, pos(t, 0)) IN IF reversed THEN <<0>> \o Reverse(Tail(u)) ELSE u

\* From 0 along the tour, in the direction in which N comes last.
Written(t) ==
    LET u == From(t, pos(t, 0)) IN IF next(t, 0) = N THEN <<0>> \o Reverse(Tail(u)) ELSE u

\* The path that path_threeOpt returns.
Result == Written(Kept)

\* path_threeOpt returns; its arrays are freed.
Return ==
    /\ pc = "trial" /\ LastTrial
    /\ pc' = "idle"
    /\ best_sol' = Result
    /\ reversed' = (next(Kept, 0) = N)
    /\ dist' = <<>> /\ tour' = <<>> /\ bestTour' = <<>>
    /\ tourLength' = 0 /\ bestTourLength' = 0
    /\ dontLook' = {} /\ trial' = 0
    /\ UNCHANGED <<trials, flips, scan>>

Search == Take \/ Improve \/ DoFlip \/ NoImprovement \/ EndPass \/ Kick

-----------------------------------------------------------------------------
(* Properties. *)

\* tourLength, which is only ever changed by the gains of the moves, is the length
\* of the tour in the array: each sequence of flips makes just the move whose gain
\* was computed, whichever part of the array flip has turned, and the kick too; and
\* the edge between the ends, of length 0, is never removed.
LengthIsKept ==
    pc # "idle" /\ flips = <<>> =>
        /\ tourLength = PathLength(dist, tour) + dist[Last(tour)][tour[1]]
        /\ next(tour, 0) = N \/ prev(tour, 0) = N

=============================================================================
