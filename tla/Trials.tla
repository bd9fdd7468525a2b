--------------------------------- MODULE Trials --------------------------------
(***************************************************************************)
(* FindTour (src/FindTour.cpp): the trials of a run, each an initial tour  *)
(* (ChooseInitialTour), a local search, a merge with the best tour, and    *)
(* what a better tour changes for the trials to come: RecordBetterTour,    *)
(* AdjustCandidateSet, the hash table.  The runs of LKHcpp::Solve follow   *)
(* each other and share the hash table; stop_at_optimum is off (Solver).    *)
(***************************************************************************)
EXTENDS LocalSearch

CONSTANTS
    MayStop,        \* may Stop be called?
    MayBeLate       \* may the time run out?

ASSUME TrialsAssumption ==
    /\ \A p0 \in Instances : {p0.runs, p0.trials} \subseteq Nat \ {0}
    /\ {MayStop, MayBeLate} \subseteq BOOLEAN

VARIABLES
    run, trial,     \* Run and Trial
    better,         \* BetterCost
    nextBest,       \* the edges of NextBestSuc
    bestCost        \* BestCost of Solve: of all runs

vars == <<p, cand, best, late, stop, run, trial, better, nextBest, bestCost, lkVars>>

-----------------------------------------------------------------------------
(* ChooseInitialTour. *)

\* What may follow the nodes of s.  The first free node of the old list, of which
\* the direction is not known, if no candidate is left.
Alternatives(s) ==
    LET x == s[Len(s)]
        free == Node \ Range(s)
        common == {y \in cand[x] \cap free :
                      /\ y \in p.cand[x] /\ {x, y} \in p.tree
                      /\ {x, y} \in best \cup nextBest}
    IN  IF trial > 0 /\ common # {} THEN common
        ELSE IF cand[x] \cap free # {} THEN cand[x] \cap free
        ELSE {o[Min({i \in Node : o[i] \in free})] : o \in {OrderFrom(tour, y, s[1]) : y \in Nbrs(tour, s[1])}}

InitialTours ==
    {EdgesOf(s) : s \in {s \in Orders : \A i \in 1..(N - 1) : s[i + 1] \in Alternatives(SubSeq(s, 1, i))}}

-----------------------------------------------------------------------------
(* What MergeTours shows of MergeWithTourIPT: the tour as it is, or one made  *)
(* of edges of both that is better than both.                                 *)

Merged(m, T2) ==
    {m} \cup {[tour |-> T, cost |-> TourCost(T)] :
                 T \in {T \in Tours : /\ T \subseteq m.tour \cup T2
                                      /\ TourCost(T) < m.cost /\ TourCost(T) < TourCost(T2)}}

OrdinalTour == EdgesOf([i \in Node |-> i])

\* Merging with the best tour, then with the ordinal tour as long as neither that
\* nor the best one is better than it.
MergeTrial ==
    LET withBest == IF best = {} THEN {[tour |-> tour, cost |-> cost]}
                    ELSE Merged([tour |-> tour, cost |-> cost], best)
    IN  UNION {IF m.cost >= TourCost(OrdinalTour) /\ better > TourCost(OrdinalTour)
               THEN Merged(m, OrdinalTour) ELSE {m} : m \in withBest}

-----------------------------------------------------------------------------
(* FindTour. *)

Init ==
    /\ p \in Instances
    /\ cand = p.cand
    /\ best = {} /\ nextBest = {} /\ better = Infinity /\ bestCost = Infinity
    /\ tour \in Tours /\ cost = 0
    /\ stack = <<>>
    /\ old = [x \in Node |-> {}] /\ excluded = old /\ tried = old
    /\ minCand = [x \in Node |-> 0]
    /\ queue = {} /\ t1 = 1 /\ sides = {} /\ t2 = 1 /\ G0 = 0
    /\ table = {} /\ hit = FALSE
    /\ pc = "trial" /\ run = 1 /\ trial = 0
    /\ late = FALSE /\ stop = FALSE

BeginTrial ==
    /\ pc = "trial"
    /\ trial < p.trials /\ ~stop /\ ~late
    /\ trial' = trial + 1
    /\ \E T \in InitialTours : StartSearch(T, cand)
    /\ UNCHANGED <<p, cand, best, late, stop, run, better, nextBest, bestCost, table>>

\* The local variables of LinKernighan are gone; those of the nodes that it sets
\* anew are forgotten with them.
Forget ==
    /\ old' = [x \in Node |-> {}] /\ excluded' = old' /\ tried' = old'
    /\ minCand' = [x \in Node |-> 0]
    /\ queue' = {} /\ t1' = 1 /\ sides' = {} /\ t2' = 1 /\ G0' = 0 /\ stack' = <<>>

\* The search is over: its tour is merged if there is time, and recorded if it is
\* better than those of the trials before.
EndTrial ==
    /\ pc = "end"
    /\ \E m \in IF late THEN {[tour |-> tour, cost |-> cost]} ELSE MergeTrial :
           /\ tour' = m.tour
           /\ cost' = m.cost
           /\ IF m.cost < better
              THEN /\ better' = m.cost
                   /\ nextBest' = best
                   /\ best' = m.tour
                   /\ cand' = [x \in Node |-> cand[x] \cup Nbrs(m.tour, x)]
                   /\ table' = {<<m.tour, m.cost>>}
              ELSE UNCHANGED <<better, nextBest, best, cand, table>>
    /\ pc' = "trial"
    /\ Forget
    /\ UNCHANGED <<p, late, stop, run, trial, bestCost, hit>>

\* Mutant: ResetCandidateSet is not called.
EndRun_KeepsCandidates ==
    /\ pc = "trial"
    /\ trial = p.trials \/ stop \/ late
    /\ tour' = IF best = {} THEN tour ELSE best
    /\ bestCost' = Min({bestCost, better})
    /\ IF run < p.runs /\ ~stop
       THEN /\ run' = run + 1 /\ trial' = 0
            /\ best' = {} /\ nextBest' = {} /\ better' = Infinity
            /\ late' = FALSE
            /\ pc' = "trial"
       ELSE /\ pc' = "done"
            /\ UNCHANGED <<run, trial, best, nextBest, better, late>>
    /\ UNCHANGED <<p, cand, stop, cost, stack, old, excluded, minCand, queue, t1, sides,
                   t2, G0, table, hit, tried>>

\* No trial is left, no time, or Stop was called: the best tour is linked again,
\* the candidates are as they were, the next run knows of no tour.
EndRun ==
    /\ pc = "trial"
    /\ trial = p.trials \/ stop \/ late
    /\ tour' = IF best = {} THEN tour ELSE best
    /\ cand' = p.cand
    /\ bestCost' = Min({bestCost, better})
    /\ IF run < p.runs /\ ~stop
       THEN /\ run' = run + 1 /\ trial' = 0
            /\ best' = {} /\ nextBest' = {} /\ better' = Infinity
            /\ late' = FALSE
            /\ pc' = "trial"
       ELSE /\ pc' = "done"
            /\ UNCHANGED <<run, trial, best, nextBest, better, late>>
    /\ UNCHANGED <<p, stop, cost, stack, old, excluded, minCand, queue, t1, sides,
                   t2, G0, table, hit, tried>>

\* The clock, and a caller, who need to be looked at only where they are read.
TimeOut == MayBeLate /\ ~late /\ pc \in {"pop", "end", "trial"} /\ late' = TRUE
           /\ UNCHANGED <<p, cand, best, stop, run, trial, better, nextBest, bestCost, lkVars>>

Stop == MayStop /\ ~stop /\ pc \in {"pop", "trial"} /\ stop' = TRUE
        /\ UNCHANGED <<p, cand, best, late, run, trial, better, nextBest, bestCost, lkVars>>

Search == LinKernighan /\ UNCHANGED <<run, trial, better, nextBest, bestCost>>

FindTour == BeginTrial \/ Search \/ EndTrial \/ EndRun

Done == pc = "done" /\ UNCHANGED vars

Next == FindTour \/ TimeOut \/ Stop \/ Done

\* The thread that solves keeps running: WF_vars(FindTour), for some step of it is
\* possible until it is done, as the absence of deadlocks shows.
Fairness == []<>(pc = "done") \/ []<><<FindTour>>_vars

Spec == Init /\ [][Next]_vars /\ Fairness

-----------------------------------------------------------------------------
(* Properties. *)

\* The hash table ends a search only at a tour that is not better than the best
\* one that some run has recorded: a cut search loses nothing.
HitLosesNothing ==
    pc = "end" /\ hit => cost >= Min({bestCost, better})

\* The best tour of a run has the cost that FindTour returns, also when it comes
\* from a merge, and the candidates are the original ones and the edges of the tours
\* recorded in this run, for the local search of every trial.
BestIsKept ==
    /\ best # {} => TourCost(best) = better
    /\ pc # "done" =>
           \A x \in Node :
               /\ p.cand[x] \cup Nbrs(best \cup nextBest, x) \subseteq cand[x]
               /\ best = {} => cand[x] = p.cand[x]

\* Every search comes to an end, with it every trial and every run.
RunsEnd == <>(pc = "done")

=============================================================================
