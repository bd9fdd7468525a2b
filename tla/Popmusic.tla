------------------------------- MODULE Popmusic -------------------------------
(***************************************************************************)
(* How POPMUSIC makes a tour from which candidates are taken               *)
(* (src/candidate/POpMUSICCandidateSetCreator.cpp, build_path and          *)
(* fast_POPMUSIC).  A tour in random order is cut up recursively: a sample *)
(* of its cities is ordered, every other city goes to the nearest of the   *)
(* sample, and the clusters are laid out in the order of the sample and    *)
(* treated in the same way.  Then overlapping parts of the tour are        *)
(* improved in two scans.  Parts and samples are ordered by the search of  *)
(* module ThreeOpt (optimize_path), step by step.                          *)
(***************************************************************************)
EXTENDS ThreeOpt

CONSTANTS
    Cities,
    Problems        \* records: symmetric matrix, order that shuffle made, sample size

NCities == Cardinality(Cities)

ASSUME PopmusicAssumption ==
    /\ IsFiniteSet(Cities) /\ NCities >= 3
    /\ \A p \in Problems :
        /\ \A c, d \in Cities : p.length[c][d] \in Nat /\ p.length[c][d] = p.length[d][c]
        /\ Len(p.order) = NCities /\ ToSet(p.order) = Cities
        /\ p.sample_size \in Nat /\ p.sample_size >= 2

VARIABLES
    phase,      \* "build", "scan1", "scan2" or "done"
    length,
    sample_size,    \* Param::popmusic_sample_size
    path,       \* the cities at places 0..n of the array, as 1..n+1
    parts,      \* the parts still to be treated, first to last, as pairs of places
    sample      \* the sample that is being ordered, <<>> if a part is

vars == <<searchVars, phase, length, sample_size, path, parts, sample>>

dis(c, d) == length[c][d]

\* The part of the path from place part[1] to place part[2], and the path with q there.
Part(part) == SubSeq(path, part[1] + 1, part[2] + 1)
With(part, q) == SubSeq(path, 1, part[1]) \o q \o SubSeq(path, part[2] + 2, NCities + 1)

Size(part) == part[2] - part[1]

\* build_path optimizes a part of this size at once; fast_POPMUSIC takes parts of it.
R == sample_size * sample_size

-----------------------------------------------------------------------------
(* build_path for a part p that is larger than that. *)

Inner(p) == {p[i] : i \in 2..(Len(p) - 1)}

Closest(c, S) == {s \in S : \A t \in S : dis(s, c) <= dis(t, c)}

\* The samples: the city closest to the first one, any others, and the one closest
\* to the last.
Samples(p) ==
    UNION {UNION {{<<p[1], first>> \o s \o <<last, Last(p)>> :
                      s \in UNION {SetToSeqs(o) :
                                o \in kSubset(sample_size - 2, Inner(p) \ {first, last})}} :
                      last \in Closest(Last(p), Inner(p) \ {first})} :
              first \in Closest(p[1], Inner(p))}

\* Mutant: a city of the sample is not known as such.
Assigned_ByDistance(q, c) ==
    Min({j \in 1..sample_size : \A k \in 1..sample_size : dis(c, q[j + 1]) <= dis(c, q[k + 1])})

\* The place in the ordered sample q of the city to which c is assigned.
Assigned(q, c) ==
    LET J == 1..sample_size
    IN  IF \E j \in J : q[j + 1] = c THEN CHOOSE j \in J : q[j + 1] = c
        ELSE Min({j \in J : \A k \in J : dis(c, q[j + 1]) <= dis(c, q[k + 1])})

\* Cluster j, in the order that its cities have in p.
Cluster(p, q, j) ==
    LET Member(c) == Assigned(q, c) = j
    IN  SelectSeq(SubSeq(p, 2, Len(p) - 1), Member)

Clusters(p, q) == [j \in 1..sample_size |-> Cluster(p, q, j)]

\* start_clust
Start(clusters, j) == Len(FlattenSeq(SubSeq(clusters, 1, j)))

\* The part of a cluster lies between a city of the cluster before and one of the
\* cluster after; those of two cities, or of one between two, need no treatment.
PartsOf(part, clusters) ==
    LET Larger(p) == Size(p) > 2
    IN  SelectSeq([j \in 1..sample_size |->
            <<part[1] + Start(clusters, j - 1), part[1] + Start(clusters, j) + 1>>], Larger)

-----------------------------------------------------------------------------
(* fast_POPMUSIC *)

ScanSize == Min({R, NCities})

\* The parts of one scan; the last overlaps the one before if the size is no divisor.
ScanParts ==
    [i \in 1..(NCities \div ScanSize) |-> <<ScanSize * (i - 1), ScanSize * i>>]
    \o (IF NCities % ScanSize # 0 THEN <<<<NCities - ScanSize, NCities>>>> ELSE <<>>)

\* Mutant: the end of the array stays what it was.
Shifted_KeepsEnd ==
    SubSeq(path, (ScanSize \div 2) + 1, NCities) \o SubSeq(path, 1, ScanSize \div 2)
    \o <<path[NCities + 1]>>

\* circular_right_shift, with path[n] = path[0] after it.
Shifted ==
    LET s == ScanSize \div 2
    IN  SubSeq(path, s + 1, NCities) \o SubSeq(path, 1, s) \o <<path[s + 1]>>

-----------------------------------------------------------------------------
(* Steps. *)

Init ==
    /\ SearchInit
    /\ phase = "build"
    /\ \E p \in Problems :
        /\ length = p.length /\ sample_size = p.sample_size
        /\ path = p.order \o <<p.order[1]>>
    /\ parts = <<<<0, NCities>>>>
    /\ sample = <<>>

\* optimize_path is called for p: its ends are joined by an edge of length 0.
OptimizePath(p) ==
    LET last == Len(p) - 1
    IN  Begin(Len(p), [u \in 0..last |-> [v \in 0..last |->
            IF u = v \/ {u, v} = {0, last} THEN 0 ELSE dis(p[u + 1], p[v + 1])]])

\* For a small part, from build_path, or a part of a scan.
OptimizePart ==
    /\ pc = "idle" /\ parts # <<>>
    /\ phase = "build" => Size(Head(parts)) <= R
    /\ OptimizePath(Part(Head(parts)))
    /\ UNCHANGED <<phase, length, sample_size, path, parts, sample>>

\* For the sample of a larger part.
OptimizeSample ==
    /\ pc = "idle" /\ phase = "build" /\ parts # <<>> /\ Size(Head(parts)) > R
    /\ \E s \in Samples(Part(Head(parts))) : sample' = s /\ OptimizePath(s)
    /\ UNCHANGED <<phase, length, sample_size, path, parts>>

\* A step of the search.
SearchOn == Search /\ UNCHANGED <<phase, length, sample_size, path, parts, sample>>

\* The cities of p in the order that the search returns.
Ordered(p) == [i \in 1..Len(p) |-> p[Result[i] + 1]]

\* optimize_path writes the part into the array.
PartOptimized ==
    /\ sample = <<>> /\ Return
    /\ path' = With(Head(parts), Ordered(Part(Head(parts))))
    /\ parts' = Tail(parts)
    /\ UNCHANGED <<phase, length, sample_size, sample>>

\* build_path cuts the part up into clusters, which are treated before what is left.
Divide ==
    /\ sample # <<>> /\ Return
    /\ LET p == Part(Head(parts))
           c == Clusters(p, Ordered(sample))
       IN  /\ path' = With(Head(parts), <<p[1]>> \o FlattenSeq(c) \o <<Last(p)>>)
           /\ parts' = PartsOf(Head(parts), c) \o Tail(parts)
    /\ sample' = <<>>
    /\ UNCHANGED <<phase, length, sample_size>>

BeginScan ==
    /\ pc = "idle" /\ phase = "build" /\ parts = <<>>
    /\ phase' = "scan1" /\ parts' = ScanParts
    /\ UNCHANGED <<searchVars, length, sample_size, path, sample>>

SecondScan ==
    /\ pc = "idle" /\ phase = "scan1" /\ parts = <<>>
    /\ phase' = "scan2" /\ parts' = ScanParts
    /\ path' = Shifted
    /\ UNCHANGED <<searchVars, length, sample_size, sample>>

EndScan ==
    /\ pc = "idle" /\ phase = "scan2" /\ parts = <<>>
    /\ phase' = "done"
    /\ UNCHANGED <<searchVars, length, sample_size, path, parts, sample>>

Done == phase = "done" /\ UNCHANGED vars

Next ==
    \/ OptimizePart \/ OptimizeSample \/ SearchOn \/ PartOptimized \/ Divide
    \/ BeginScan \/ SecondScan \/ EndScan \/ Done

\* One thread runs all this without waiting for anything.
Spec == Init /\ [][Next]_vars /\ WF_vars(Next)

-----------------------------------------------------------------------------
(* Properties. *)

\* The array holds a closed tour at every moment: counting cities into clusters,
\* writing back what the search returns and shifting the array lose none and double
\* none, and its two ends are the same city, without which the cost and the candidates
\* of the last edge would be of another tour.
PathIsTour ==
    /\ ToSet(SubSeq(path, 1, NCities)) = Cities
    /\ Len(path) = NCities + 1 /\ path[NCities + 1] = path[1]

\* From the first scan on the tour never gets longer, however the parts overlap: the
\* search returns a path between the same ends that is no longer, also after kicks.
ScansShorten ==
    [][phase # "build" => PathLength(length, path') <= PathLength(length, path)]_vars

\* build_path and the scans come to their end: a search improves or gives up, kicks
\* lengthen the tour only so many times, and every cluster is smaller than what was
\* cut up, also when cities lie in the same place.
BuildEnds == <>(phase = "done")

=============================================================================
