-------------------------------- MODULE Solver --------------------------------
(***************************************************************************)
(* The solver as a library: LKHcpp::Solve and SolveParallel                *)
(* (src/LKHcpp.cpp), FindTour (src/FindTour.cpp) and the outer loop of     *)
(* LinKernighan, with LKHcpp::stop called by another thread at any time.   *)
(*                                                                         *)
(* A tour is an element of Tour with a cost.  What the local search finds  *)
(* is a nondeterministic choice among the tours it may leave behind, what  *)
(* MergeWithTourIPT returns among those it promises.                       *)
(***************************************************************************)
EXTENDS Integers

CONSTANTS
    Tour,           \* the tours of the problem
    CostOf,         \* their costs
    OrdinalTour,    \* the tour 1, 2, ..., dimension
    NoTour,         \* an empty Tour, or a BestSuc that is nullptr
    MaxCost,        \* numeric_limits<GainType>::max(), the cost of NoTour
    Threads,        \* param.threads
    Runs,           \* param.runs
    MaxTrials,      \* bound: param.max_trials of a call
    StopAtOptimum,  \* param.stop_at_optimum
    KnownOptimum,   \* param.known_optimum
    MaxCalls        \* bound: calls of Solve on the handle

ASSUME SolverAssumption ==
    /\ CostOf \in [Tour -> Int]
    /\ OrdinalTour \in Tour /\ NoTour \notin Tour
    /\ MaxCost \in Int /\ \A t \in Tour : CostOf[t] < MaxCost
    /\ Threads \in Nat \ {0}
    /\ Runs \in Nat /\ MaxTrials \in Nat /\ MaxCalls \in Nat
    /\ StopAtOptimum \in BOOLEAN
    /\ KnownOptimum \in Int /\ KnownOptimum < MaxCost

VARIABLES
    stop,           \* LKHcpp::stop_
    caller,         \* the thread inside LKHcpp::Solve(Param, TSPLIB)
    thread,         \* the threads inside LKHcpp::Solve(Param, Problem)
    answer          \* what the last call returned

vars == <<stop, caller, thread, answer>>

Thread == 1..Threads

CostIn(t) == IF t = NoTour THEN MaxCost ELSE CostOf[t]

Finished(i) == thread[i].pc \in {"returned", "threw"}

max_trials == caller.max_trials     \* param.max_trials of the call

-----------------------------------------------------------------------------

NoAnswer  == [kind |-> "none", tour |-> NoTour, cost |-> MaxCost]
Failure   == [kind |-> "exception", tour |-> NoTour, cost |-> MaxCost]

\* A thread that has not been started.  Its Context is empty.
NewThread ==
    [pc |-> "returned", run |-> 0, trial |-> 1,
     list |-> OrdinalTour,      \* Suc of the nodes
     bestSuc |-> NoTour,        \* BestSuc of the nodes
     betterCost |-> MaxCost,    \* Context::BetterCost
     optimum |-> KnownOptimum,  \* Context::Optimum
     best |-> NoTour,           \* best_tour, with its cost ...
     bestCost |-> MaxCost,      \* ... best_tour.cost
     s1 |-> 0,                  \* Context::gain23_s1: the call whose node it is
     low |-> MaxCost,           \* history: the lowest cost of a trial
     passes |-> 0]              \* history: passes of the search that ended after stop

Init ==
    /\ stop = FALSE
    /\ caller = [pc |-> "idle", calls |-> 0, joined |-> 0, begunStopped |-> FALSE,
                  max_trials |-> 0]
    /\ thread = [i \in Thread |-> NewThread]
    /\ answer = NoAnswer

\* LKHcpp::stop, from any thread.
Stop ==
    /\ ~stop
    /\ stop' = TRUE
    /\ UNCHANGED <<caller, thread, answer>>

-----------------------------------------------------------------------------
(* The calling thread: LKHcpp::Solve(Param, TSPLIB) and SolveParallel *)

Call ==
    /\ caller.pc = "idle" /\ caller.calls < MaxCalls
    /\ \E m \in 0..MaxTrials :
          caller' = [pc |-> "encode", calls |-> caller.calls + 1, joined |-> 0,
                     begunStopped |-> stop, max_trials |-> m]
    /\ UNCHANGED <<stop, thread, answer>>

Return(a) ==
    /\ answer' = a
    /\ caller' = [caller EXCEPT !.pc = "idle"]

\* Adjust, VariantFactory::Create or Encode throws.
EncodeFails ==
    /\ caller.pc = "encode"
    /\ Return(Failure)
    /\ UNCHANGED <<stop, thread>>

\* The problem is encoded, but the caller is asked to stop.
EncodeStopped ==
    /\ caller.pc = "encode" /\ stop
    /\ Return(NoAnswer)
    /\ UNCHANGED <<stop, thread>>

\* One thread solves the problem itself, and its Context is that of the previous
\* call; more start as new threads.
Started(i) ==
    [NewThread EXCEPT !.pc = "init",
                      !.s1 = IF Threads = 1 THEN thread[i].s1 ELSE 0]

StartThreads ==
    /\ caller.pc = "encode" /\ ~stop
    /\ caller' = [caller EXCEPT !.pc = "join"]
    /\ thread' = [i \in Thread |-> Started(i)]
    /\ UNCHANGED <<stop, answer>>

\* Mutant: the first exception ends the wait.
Join_UntilException ==
    /\ caller.pc = "join" /\ caller.joined < Threads
    /\ Finished(caller.joined + 1)
    /\ caller' = [caller EXCEPT !.joined =
            IF thread[@ + 1].pc = "threw" THEN Threads ELSE @ + 1]
    /\ UNCHANGED <<stop, thread, answer>>

\* for (auto& t : threads) t.join()
Join ==
    /\ caller.pc = "join" /\ caller.joined < Threads
    /\ Finished(caller.joined + 1)
    /\ caller' = [caller EXCEPT !.joined = @ + 1]
    /\ UNCHANGED <<stop, thread, answer>>

Rethrow ==
    /\ caller.pc = "join" /\ caller.joined = Threads
    /\ \E i \in Thread : thread[i].pc = "threw"
    /\ Return(Failure)
    /\ UNCHANGED <<stop, thread>>

\* i is the first thread whose result has the lowest cost (std::min_element).
IsMinElement(i) ==
    /\ \A j \in Thread : thread[i].bestCost <= thread[j].bestCost
    /\ \A j \in Thread : j < i => thread[j].bestCost > thread[i].bestCost

\* Mutant: the first result that is a tour is taken.
ReturnBest_First ==
    /\ caller.pc = "join" /\ caller.joined = Threads
    /\ \A i \in Thread : thread[i].pc # "threw"
    /\ \E i \in Thread :
        /\ \A j \in Thread : j < i => thread[j].best = NoTour
        /\ thread[i].best # NoTour \/ i = Threads
        /\ Return([kind |-> IF thread[i].best = NoTour THEN "none" ELSE "tour",
                   tour |-> thread[i].best, cost |-> thread[i].bestCost])
    /\ UNCHANGED <<stop, thread>>

ReturnBest ==
    /\ caller.pc = "join" /\ caller.joined = Threads
    /\ \A i \in Thread : thread[i].pc # "threw"
    /\ \E i \in Thread :
        /\ IsMinElement(i)
        /\ Return([kind |-> IF thread[i].best = NoTour THEN "none" ELSE "tour",
                   tour |-> thread[i].best, cost |-> thread[i].bestCost])
    /\ UNCHANGED <<stop, thread>>

-----------------------------------------------------------------------------
(* A solving thread *)

\* Thread i is at this point, and only threads move.
At(i, pc) ==
    /\ thread[i].pc = pc
    /\ UNCHANGED <<stop, caller, answer>>

Lower(a, b) == IF a < b THEN a ELSE b

\* Initializer::Init and CreateCandidateSet; the 1-tree is not a tour.  Building
\* it leaves the list of nodes in another order.
Prepare(i) ==
    \E t \in Tour :
        /\ At(i, "init")
        /\ thread' = [thread EXCEPT ![i].pc = "runs",
                                    ![i].list = t]

\* The ascent has solved the problem (Norm == 0).
AscentSolves(i) ==
    \E t \in Tour :
        /\ At(i, "init")
        /\ thread' = [thread EXCEPT ![i].pc = "returned",
                                    ![i].list = t,
                                    ![i].bestSuc = t,
                                    ![i].optimum = CostOf[t],
                                    ![i].best = t,
                                    ![i].bestCost = CostOf[t],
                                    ![i].low = CostOf[t]]

\* No candidates, or an internal error of a move.
Throw(i) ==
    \E from \in {"init", "search"} :
        /\ At(i, from)
        /\ thread' = [thread EXCEPT ![i].pc = "threw"]

\* The loop over runs ends.
EndSolve(i) ==
    /\ thread[i].run >= Runs \/ stop
    /\ At(i, "runs")
    /\ thread' = [thread EXCEPT ![i].pc = "returned"]

\* Mutant: the cost of the only tour is not recorded.
FindInitialTour_Unrecorded(i) ==
    /\ thread[i].run < Runs /\ ~stop
    /\ \E t \in Tour :
        /\ At(i, "runs")
        /\ thread' = [thread EXCEPT ![i].pc = "trials",
                                    ![i].trial = 1,
                                    ![i].list = t,
                                    ![i].bestSuc = t,
                                    ![i].low = Lower(@, CostOf[t])]

\* FindTour is entered and makes trials.
BeginTrials(i) ==
    /\ thread[i].run < Runs /\ ~stop
    /\ At(i, "runs")
    /\ thread' = [thread EXCEPT ![i].pc = "trials",
                                ![i].trial = 1,
                                ![i].bestSuc = NoTour,
                                ![i].betterCost = MaxCost]

\* With no trials, ChooseInitialTour leaves the tour of the run.
FindInitialTour(i) ==
    /\ thread[i].run < Runs /\ ~stop
    /\ \E t \in Tour :
        /\ At(i, "runs")
        /\ thread' = [thread EXCEPT ![i].pc = "trials",
                                    ![i].trial = 1,
                                    ![i].list = t,
                                    ![i].bestSuc = t,
                                    ![i].betterCost = CostOf[t],
                                    ![i].low = Lower(@, CostOf[t])]

\* A run begins.
FindTour(i) == IF max_trials = 0 THEN FindInitialTour(i) ELSE BeginTrials(i)

ChooseInitialTour(i) ==
    /\ thread[i].trial <= max_trials /\ ~stop
    /\ \E t \in Tour :
        /\ At(i, "trials")
        /\ thread' = [thread EXCEPT ![i].pc = "search",
                                    ![i].list = t]

\* The loop over trials ends: after the last one, on stop, or because GetTime() has
\* reached time_limit or total_time_limit, which may be at any look at the clock.
EndTrials(i) ==
    /\ At(i, "trials")
    /\ thread' = [thread EXCEPT ![i].pc = "end"]

\* Gain23 starts at gain23_s1, and at FirstNode if there is none.
Gain23Start(i) == IF thread[i].s1 = 0 THEN caller.calls ELSE thread[i].s1

\* A pass ends, after stop or before.
Ended(i) == IF stop THEN thread[i].passes + 1 ELSE thread[i].passes

\* Mutant: the search does not look at stop between its passes.
SearchOn_Unstoppable(i) ==
    \E t \in Tour :
        /\ CostOf[t] < CostOf[thread[i].list]
        /\ At(i, "search")
        /\ thread' = [thread EXCEPT ![i].list = t,
                                    ![i].s1 = Gain23Start(i),
                                    ![i].passes = Ended(i)]

\* A pass of LinKernighan over the active nodes, after which Gain23 finds a
\* further improvement: there will be another pass.
SearchOn(i) ==
    /\ ~stop
    /\ \E t \in Tour :
        /\ CostOf[t] < CostOf[thread[i].list]
        /\ At(i, "search")
        /\ thread' = [thread EXCEPT ![i].list = t,
                                    ![i].s1 = Gain23Start(i),
                                    ![i].passes = Ended(i)]

\* The last pass of LinKernighan.  Gain23 is not reached when the time is over
\* or the tour is in the hash table.
EndSearch(i) ==
    \E t \in Tour, s1 \in {thread[i].s1, Gain23Start(i)} :
        /\ CostOf[t] <= CostOf[thread[i].list]
        /\ At(i, "search")
        /\ thread' = [thread EXCEPT ![i].pc = "merge",
                                    ![i].list = t,
                                    ![i].s1 = s1,
                                    ![i].passes = Ended(i)]

\* What MergeWithTourIPT may leave in Suc, given t in Suc and u in Next.
Merged(t, u) == {t} \cup {v \in Tour : CostOf[v] < Lower(CostOf[t], CostOf[u])}

\* The tours that the trial may end with.  It is not merged when the time is over.
TrialTours(i) ==
    LET T == thread[i]
        first == IF T.bestSuc = NoTour THEN {T.list} ELSE Merged(T.list, T.bestSuc)
        second(t) == IF CostOf[t] >= CostOf[OrdinalTour]
                          /\ T.betterCost > CostOf[OrdinalTour]
                     THEN Merged(t, OrdinalTour) ELSE {t}
    IN  {T.list} \cup UNION {second(t) : t \in first}

\* The tour is merged with the best ones and recorded if it is better; the
\* trials are over when it has the optimal cost.
EndTrial(i) ==
    \E t \in TrialTours(i) :
        LET better == CostOf[t] < thread[i].betterCost
            optimal == better /\ StopAtOptimum /\ CostOf[t] = thread[i].optimum
        IN  /\ At(i, "merge")
            /\ thread' = [thread EXCEPT ![i].pc = IF optimal THEN "end" ELSE "trials",
                                        ![i].trial = IF optimal THEN @ ELSE @ + 1,
                                        ![i].list = t,
                                        ![i].bestSuc = IF better THEN t ELSE @,
                                        ![i].betterCost = IF better THEN CostOf[t] ELSE @,
                                        ![i].low = Lower(@, CostOf[t])]

\* Mutant: the runs are over as soon as one improves.
EndRun_AtAnyImprovement(i) ==
    LET T == thread[i]
        cost == T.betterCost
        over == cost < T.bestCost
        tour == IF T.bestSuc = NoTour \/ max_trials = 0 THEN T.list ELSE T.bestSuc
    IN  /\ At(i, "end")
        /\ thread' = [thread EXCEPT ![i].pc = IF over THEN "returned" ELSE "runs",
                                    ![i].run = IF over THEN @ ELSE @ + 1,
                                    ![i].list = tour,
                                    ![i].best = IF over THEN tour ELSE @,
                                    ![i].bestCost = IF over THEN cost ELSE @]

\* FindTour returns with its best tour in Suc, and Solve takes it if it is
\* better than those of the runs before.
EndRun(i) ==
    LET T == thread[i]
        cost == T.betterCost
        optimum == Lower(cost, T.optimum)
        over == StopAtOptimum /\ cost = optimum
        tour == IF T.bestSuc = NoTour \/ max_trials = 0 THEN T.list ELSE T.bestSuc
        found == cost < T.bestCost
    IN  /\ At(i, "end")
        /\ thread' = [thread EXCEPT ![i].pc = IF over THEN "returned" ELSE "runs",
                                    ![i].run = IF over THEN @ ELSE @ + 1,
                                    ![i].list = tour,
                                    ![i].bestSuc = tour,
                                    ![i].best = IF found THEN tour ELSE @,
                                    ![i].bestCost = IF found THEN cost ELSE @,
                                    ![i].optimum = optimum]

Solve(i) ==
    \/ Prepare(i) \/ AscentSolves(i) \/ Throw(i)
    \/ FindTour(i) \/ EndSolve(i)
    \/ ChooseInitialTour(i) \/ EndTrials(i)
    \/ SearchOn(i) \/ EndSearch(i)
    \/ EndTrial(i) \/ EndRun(i)

-----------------------------------------------------------------------------

Serve == EncodeFails \/ EncodeStopped \/ StartThreads \/ Join \/ Rethrow \/ ReturnBest

Next == Stop \/ Call \/ Serve \/ \E i \in Thread : Solve(i)

\* Every running thread is scheduled; nobody has to call or to stop.
Fairness == WF_vars(Serve) /\ \A i \in Thread : WF_vars(Solve(i))

Spec == Init /\ [][Next]_vars /\ Fairness

-----------------------------------------------------------------------------
(* Properties *)

Costs == {CostOf[t] : t \in Tour} \cup {MaxCost}

ThreadType ==
    [pc : {"init", "runs", "trials", "search", "merge", "end", "returned", "threw"},
     run : 0..Runs, trial : 1..(MaxTrials + 1), list : Tour,
     bestSuc : Tour \cup {NoTour}, betterCost : Costs,
     optimum : Costs \cup {KnownOptimum},
     best : Tour \cup {NoTour}, bestCost : Costs,
     s1 : 0..MaxCalls, low : Costs, passes : Nat]

CallerType ==
    [pc : {"idle", "encode", "join"}, calls : 0..MaxCalls, joined : 0..Threads,
     begunStopped : BOOLEAN, max_trials : 0..MaxTrials]

TypeOK ==
    /\ stop \in BOOLEAN
    /\ caller \in CallerType
    /\ thread \in [Thread -> ThreadType]
    /\ answer \in [kind : {"none", "exception", "tour"}, tour : Tour \cup {NoTour},
                   cost : Costs]

\* A thread that is solving has in best_tour the best tour of its finished runs
\* and in BestSuc the best one of the current run, each with the cost kept beside
\* it; together they are the best of all its trials.
BestSoFar ==
    \A i \in Thread : LET T == thread[i] IN
        /\ T.bestCost = CostIn(T.best)
        /\ T.pc \in {"trials", "search", "merge", "end"} =>
              /\ T.betterCost = CostIn(T.bestSuc)
              /\ T.low = Lower(T.bestCost, T.betterCost)
        /\ T.pc \in {"runs", "returned"} => T.low = T.bestCost

\* A call that returns a tour returns one with the lowest cost among all trials
\* of all threads, and a call that returns without one has not finished a trial:
\* stop, a time limit or the order of the threads loses nothing.
AnswerIsBest ==
    [][caller.pc = "join" /\ caller'.pc = "idle" /\ answer'.kind # "exception" =>
          /\ answer'.cost = CostIn(answer'.tour)
          /\ \A i \in Thread : answer'.cost <= thread[i].low
          /\ \E i \in Thread : answer'.cost = thread[i].low]_vars

\* No thread outlives the call that started it: they write into vectors on the
\* caller's stack.
ThreadsJoined ==
    caller.pc # "join" => \A i \in Thread : Finished(i)

\* After stop, each thread makes at most one more pass of the search: the one it
\* is in, or the first of a trial that it was about to start.
StopsPromptly == \A i \in Thread : thread[i].passes <= 1

\* All runs are made unless the solver was asked to stop, the ascent solved the
\* problem, or a tour as good as the known optimum or cheaper was found and the
\* parameters say to stop there. (A cheaper tour is taken for the new optimum before it
\* is compared with it, LKHcpp.cpp:82-91.)
RunsAreMade ==
    \A i \in Thread :
        thread[i].pc = "returned" /\ thread[i].betterCost # MaxCost /\ ~stop
            => \/ thread[i].run = Runs
               \/ StopAtOptimum /\ thread[i].bestCost <= KnownOptimum

\* A handle that was stopped once stays stopped: a call begun after that returns
\* no tour, not even one that the ascent would have found.
StoppedForGood ==
    [][caller.begunStopped /\ caller.pc # "idle" /\ caller'.pc = "idle"
          => answer'.kind # "tour"]_vars

\* README.md:15, "Reentrant solving methods": a call works on nodes of its own.
\* A gain that Gain23 finds was found from a node of the problem being solved.
Gain23StartsInProblem ==
    [][\A i \in Thread :
          /\ thread[i].pc = "search" /\ thread'[i].pc = "search"
          /\ thread'[i] # thread[i]
          => thread'[i].s1 = caller.calls]_vars

=============================================================================
