------------------------------ MODULE MainProofs ------------------------------
(***************************************************************************)
(* Theorems of modules Solver and Main for every number of threads, runs    *)
(* and trials, every set of tours and every cost function: what the library *)
(* answers, and that the program uses it as Solver says and exits with its  *)
(* answer.                                                                  *)
(***************************************************************************)
EXTENDS Main, TLAPS

Points == {"init", "runs", "trials", "search", "merge", "end", "returned", "threw"}

\* Between FindTour's first trial and its end.
InRun == {"trials", "search", "merge", "end"}

\* What a solving thread keeps of its record: the numbers of its run and trial,
\* the tours beside their costs, and the passes it made after stop.
ThreadInv(T, stopped, m) ==
    /\ T.pc \in InRun => T.run < Runs
    /\ T.pc \in {"search", "merge"} => T.trial <= m
    /\ m = 0 /\ T.pc \in InRun => T.list = T.bestSuc
    /\ T.bestCost = CostIn(T.best)
    /\ T.pc \in InRun => T.betterCost = CostIn(T.bestSuc)
    /\ T.pc \in InRun => T.low = Lower(T.bestCost, T.betterCost)
    /\ T.pc \in {"init", "runs", "returned"} => T.low = T.bestCost
    /\ T.pc = "init" => T.betterCost = MaxCost
    /\ T.passes <= 1
    /\ ~stopped \/ T.pc = "search" => T.passes = 0
    /\ T.pc \notin {"returned", "threw"} => T.optimum <= KnownOptimum
    /\ T.pc = "returned" /\ T.betterCost # MaxCost /\ ~stopped
         => T.run = Runs \/ (StopAtOptimum /\ T.bestCost <= KnownOptimum)

\* The caller has joined the threads in order and is with them only while it waits.
CallerInv ==
    /\ caller.pc = "join" => \A i \in Thread : i <= caller.joined => Finished(i)
    /\ caller.pc # "join" => \A i \in Thread : Finished(i)
    /\ caller.pc = "encode" => caller.calls > 0 /\ caller.joined = 0
    /\ caller.begunStopped => stop
    /\ caller.begunStopped => caller.pc # "join"

\* The inductive invariant.
IInv ==
    /\ TypeOK
    /\ CallerInv
    /\ \A i \in Thread : ThreadInv(thread[i], stop, max_trials)

-----------------------------------------------------------------------------

USE DEF Thread

\* Costs are integers, and none exceeds that of an empty tour.
LEMMA CostFacts ==
    /\ \A c \in Costs : c \in Int /\ c <= MaxCost
    /\ \A t \in Tour : CostOf[t] \in Costs /\ CostOf[t] < MaxCost /\ CostIn(t) = CostOf[t]
    /\ MaxCost \in Costs /\ CostIn(NoTour) = MaxCost
    /\ \A t \in Tour : t # NoTour
BY SolverAssumption DEF Costs, CostIn

\* The lower of two costs is a cost.
LEMMA LowerCost ==
    ASSUME NEW a \in Costs, NEW b \in Costs
    PROVE  Lower(a, b) \in Costs
BY DEF Lower

\* A record with one field changed to a value of the field's type has its type.
LEMMA FieldTypes ==
    ASSUME NEW T \in ThreadType
    PROVE  /\ \A v \in Points : [T EXCEPT !.pc = v] \in ThreadType
           /\ \A v \in 0..Runs : [T EXCEPT !.run = v] \in ThreadType
           /\ \A v \in 1..(MaxTrials + 1) : [T EXCEPT !.trial = v] \in ThreadType
           /\ \A v \in Tour : [T EXCEPT !.list = v] \in ThreadType
           /\ \A v \in Tour \cup {NoTour} : [T EXCEPT !.bestSuc = v] \in ThreadType
           /\ \A v \in Costs : [T EXCEPT !.betterCost = v] \in ThreadType
           /\ \A v \in Costs \cup {KnownOptimum} : [T EXCEPT !.optimum = v] \in ThreadType
           /\ \A v \in Tour \cup {NoTour} : [T EXCEPT !.best = v] \in ThreadType
           /\ \A v \in Costs : [T EXCEPT !.bestCost = v] \in ThreadType
           /\ \A v \in 0..MaxCalls : [T EXCEPT !.s1 = v] \in ThreadType
           /\ \A v \in Costs : [T EXCEPT !.low = v] \in ThreadType
           /\ \A v \in Nat : [T EXCEPT !.passes = v] \in ThreadType
BY DEF ThreadType, Points

\* What a step of Solve(i) must show: the new record of thread i is in order.
LEMMA OneThread ==
    ASSUME IInv, NEW i \in Thread,
           UNCHANGED <<stop, caller, answer>>,
           \A j \in Thread : j # i => thread'[j] = thread[j],
           thread' \in [Thread -> ThreadType],
           ThreadInv(thread'[i], stop, max_trials),
           ~Finished(i)
    PROVE  IInv'
<1>1. TypeOK'
    BY DEF IInv, TypeOK
<1>2. CallerInv'
    BY DEF IInv, CallerInv, Finished
<1>3. \A j \in Thread : ThreadInv(thread'[j], stop', max_trials')
    BY DEF IInv, max_trials
<1> QED BY <1>1, <1>2, <1>3 DEF IInv, ThreadInv, CostIn, Lower

\* The candidate sets are made.
LEMMA PrepareInv ==
    ASSUME IInv, NEW i \in Thread, Prepare(i)
    PROVE  IInv'
<1> DEFINE T == thread[i]
           S == thread'[i]
<1>1. T \in ThreadType /\ ThreadInv(T, stop, max_trials)
    BY DEF IInv, TypeOK
<1>2. PICK t \in Tour :
          At(i, "init") /\ thread' = [thread EXCEPT ![i].pc = "runs", ![i].list = t]
    BY DEF Prepare
<1>3. T.pc = "init"
      /\ UNCHANGED <<stop, caller, answer>>
    BY <1>2 DEF At
<1>4. S = [T EXCEPT !.pc = "runs",
                      !.list = t]
    BY <1>2 DEF IInv, TypeOK
<1> HIDE DEF T, S
<1>5. /\ S.pc = "runs" /\ S.run = T.run /\ S.trial = T.trial
      /\ S.list = t /\ S.bestSuc = T.bestSuc /\ S.betterCost = T.betterCost
      /\ S.optimum = T.optimum /\ S.best = T.best /\ S.bestCost = T.bestCost
      /\ S.s1 = T.s1 /\ S.low = T.low /\ S.passes = T.passes
    BY <1>1, <1>4 DEF ThreadType
<1>6. S \in ThreadType
  <2>1. "runs" \in Points /\ t \in Tour
    BY <1>1, <1>3, CostFacts, SolverAssumption DEF Points, ThreadType
  <2> QED BY <1>1, <1>4, <2>1, FieldTypes
<1>7. ThreadInv(S, stop, max_trials)
    BY <1>1, <1>3, <1>5, CostFacts, SolverAssumption DEF ThreadType, ThreadInv, InRun, Lower
<1>8. thread' \in [Thread -> ThreadType] /\ \A j \in Thread : j # i => thread'[j] = thread[j]
    BY <1>2, <1>6 DEF S, IInv, TypeOK
<1> QED BY <1>2, <1>3, <1>7, <1>8, OneThread DEF Finished, T, S

\* The ascent solves the problem.
LEMMA AscentSolvesInv ==
    ASSUME IInv, NEW i \in Thread, AscentSolves(i)
    PROVE  IInv'
<1> DEFINE T == thread[i]
           S == thread'[i]
<1>1. T \in ThreadType /\ ThreadInv(T, stop, max_trials)
    BY DEF IInv, TypeOK
<1>2. PICK t \in Tour :
      /\ At(i, "init") /\ thread' = [thread EXCEPT ![i].pc = "returned",
                               ![i].list = t,
                               ![i].bestSuc = t,
                               ![i].optimum = CostOf[t],
                               ![i].best = t,
                               ![i].bestCost = CostOf[t],
                               ![i].low = CostOf[t]]
    BY DEF AscentSolves
<1>3. T.pc = "init"
      /\ UNCHANGED <<stop, caller, answer>>
    BY <1>2 DEF At
<1>4. S = [T EXCEPT !.pc = "returned",
                      !.list = t,
                      !.bestSuc = t,
                      !.optimum = CostOf[t],
                      !.best = t,
                      !.bestCost = CostOf[t],
                      !.low = CostOf[t]]
    BY <1>2 DEF IInv, TypeOK
<1> HIDE DEF T, S
<1>5. /\ S.pc = "returned" /\ S.run = T.run /\ S.trial = T.trial
      /\ S.list = t /\ S.bestSuc = t /\ S.betterCost = T.betterCost
      /\ S.optimum = CostOf[t] /\ S.best = t /\ S.bestCost = CostOf[t]
      /\ S.s1 = T.s1 /\ S.low = CostOf[t] /\ S.passes = T.passes
    BY <1>1, <1>4 DEF ThreadType
<1>6. S \in ThreadType
  <2>1. "returned" \in Points /\ CostOf[t] \in Costs
    BY <1>1, <1>3, CostFacts, SolverAssumption DEF Points, ThreadType
  <2> QED BY <1>1, <1>4, <2>1, FieldTypes
<1>7. ThreadInv(S, stop, max_trials)
    BY <1>1, <1>3, <1>5, CostFacts, SolverAssumption DEF ThreadType, ThreadInv, InRun, Lower
<1>8. thread' \in [Thread -> ThreadType] /\ \A j \in Thread : j # i => thread'[j] = thread[j]
    BY <1>2, <1>6 DEF S, IInv, TypeOK
<1> QED BY <1>2, <1>3, <1>7, <1>8, OneThread DEF Finished, T, S

\* The loop over runs ends.
LEMMA EndSolveInv ==
    ASSUME IInv, NEW i \in Thread, EndSolve(i)
    PROVE  IInv'
<1> DEFINE T == thread[i]
           S == thread'[i]
<1>1. T \in ThreadType /\ ThreadInv(T, stop, max_trials)
    BY DEF IInv, TypeOK
<1>2. /\ At(i, "runs") /\ thread' = [thread EXCEPT ![i].pc = "returned"]
      /\ thread[i].run >= Runs \/ stop
    BY DEF EndSolve
<1>3. T.pc = "runs" /\ (T.run >= Runs \/ stop)
      /\ UNCHANGED <<stop, caller, answer>>
    BY <1>2 DEF At
<1>4. S = [T EXCEPT !.pc = "returned"]
    BY <1>2 DEF IInv, TypeOK
<1> HIDE DEF T, S
<1>5. /\ S.pc = "returned" /\ S.run = T.run /\ S.trial = T.trial
      /\ S.list = T.list /\ S.bestSuc = T.bestSuc /\ S.betterCost = T.betterCost
      /\ S.optimum = T.optimum /\ S.best = T.best /\ S.bestCost = T.bestCost
      /\ S.s1 = T.s1 /\ S.low = T.low /\ S.passes = T.passes
    BY <1>1, <1>4 DEF ThreadType
<1>6. S \in ThreadType
  <2>1. "returned" \in Points
    BY <1>1, <1>3, CostFacts, SolverAssumption DEF Points, ThreadType
  <2> QED BY <1>1, <1>4, <2>1, FieldTypes
<1>7. ThreadInv(S, stop, max_trials)
    BY <1>1, <1>3, <1>5, CostFacts, SolverAssumption DEF ThreadType, ThreadInv, InRun, Lower
<1>8. thread' \in [Thread -> ThreadType] /\ \A j \in Thread : j # i => thread'[j] = thread[j]
    BY <1>2, <1>6 DEF S, IInv, TypeOK
<1> QED BY <1>2, <1>3, <1>7, <1>8, OneThread DEF Finished, T, S

\* FindTour is entered and makes trials.
LEMMA BeginTrialsInv ==
    ASSUME IInv, NEW i \in Thread, max_trials > 0, BeginTrials(i)
    PROVE  IInv'
<1> DEFINE T == thread[i]
           S == thread'[i]
<1>1. T \in ThreadType /\ ThreadInv(T, stop, max_trials)
    BY DEF IInv, TypeOK
<1>2. /\ At(i, "runs") /\ thread' = [thread EXCEPT ![i].pc = "trials",
                               ![i].trial = 1,
                               ![i].bestSuc = NoTour,
                               ![i].betterCost = MaxCost]
      /\ thread[i].run < Runs /\ max_trials > 0
    BY DEF BeginTrials
<1>3. T.pc = "runs" /\ T.run < Runs /\ max_trials > 0
      /\ UNCHANGED <<stop, caller, answer>>
    BY <1>2 DEF At
<1>4. S = [T EXCEPT !.pc = "trials",
                      !.trial = 1,
                      !.bestSuc = NoTour,
                      !.betterCost = MaxCost]
    BY <1>2 DEF IInv, TypeOK
<1> HIDE DEF T, S
<1>5. /\ S.pc = "trials" /\ S.run = T.run /\ S.trial = 1
      /\ S.list = T.list /\ S.bestSuc = NoTour /\ S.betterCost = MaxCost
      /\ S.optimum = T.optimum /\ S.best = T.best /\ S.bestCost = T.bestCost
      /\ S.s1 = T.s1 /\ S.low = T.low /\ S.passes = T.passes
    BY <1>1, <1>4 DEF ThreadType
<1>6. S \in ThreadType
  <2>1. "trials" \in Points /\ 1 \in 1..(MaxTrials + 1) /\ MaxCost \in Costs
    BY <1>1, <1>3, CostFacts, SolverAssumption DEF Points, ThreadType
  <2> QED BY <1>1, <1>4, <2>1, FieldTypes
<1>7. ThreadInv(S, stop, max_trials)
    BY <1>1, <1>3, <1>5, CostFacts, SolverAssumption DEF ThreadType, ThreadInv, InRun, Lower
<1>8. thread' \in [Thread -> ThreadType] /\ \A j \in Thread : j # i => thread'[j] = thread[j]
    BY <1>2, <1>6 DEF S, IInv, TypeOK
<1> QED BY <1>2, <1>3, <1>7, <1>8, OneThread DEF Finished, T, S

\* FindTour is entered and makes no trials.
LEMMA FindInitialTourInv ==
    ASSUME IInv, NEW i \in Thread, max_trials = 0, FindInitialTour(i)
    PROVE  IInv'
<1> DEFINE T == thread[i]
           S == thread'[i]
<1>1. T \in ThreadType /\ ThreadInv(T, stop, max_trials)
    BY DEF IInv, TypeOK
<1>2. PICK t \in Tour :
      /\ At(i, "runs") /\ thread' = [thread EXCEPT ![i].pc = "trials",
                               ![i].trial = 1,
                               ![i].list = t,
                               ![i].bestSuc = t,
                               ![i].betterCost = CostOf[t],
                               ![i].low = Lower(@, CostOf[t])]
      /\ thread[i].run < Runs /\ max_trials = 0
    BY DEF FindInitialTour
<1>3. T.pc = "runs" /\ T.run < Runs /\ max_trials = 0
      /\ UNCHANGED <<stop, caller, answer>>
    BY <1>2 DEF At
<1>4. S = [T EXCEPT !.pc = "trials",
                      !.trial = 1,
                      !.list = t,
                      !.bestSuc = t,
                      !.betterCost = CostOf[t],
                      !.low = Lower(T.low, CostOf[t])]
    BY <1>2 DEF IInv, TypeOK
<1> HIDE DEF T, S
<1>5. /\ S.pc = "trials" /\ S.run = T.run /\ S.trial = 1
      /\ S.list = t /\ S.bestSuc = t /\ S.betterCost = CostOf[t]
      /\ S.optimum = T.optimum /\ S.best = T.best /\ S.bestCost = T.bestCost
      /\ S.s1 = T.s1 /\ S.low = Lower(T.low, CostOf[t]) /\ S.passes = T.passes
    BY <1>1, <1>4 DEF ThreadType
<1>6. S \in ThreadType
  <2>1. "trials" \in Points /\ 1 \in 1..(MaxTrials + 1) /\ CostOf[t] \in Costs
    BY <1>1, <1>3, CostFacts, SolverAssumption DEF Points, ThreadType
  <2>2. T.low \in Costs
    BY <1>1 DEF ThreadType
  <2>3. Lower(T.low, CostOf[t]) \in Costs
    BY <2>1, <2>2, LowerCost
  <2> QED BY <1>1, <1>4, <2>1, <2>3, FieldTypes
<1>7. ThreadInv(S, stop, max_trials)
    BY <1>1, <1>3, <1>5, CostFacts, SolverAssumption DEF ThreadType, ThreadInv, InRun, Lower
<1>8. thread' \in [Thread -> ThreadType] /\ \A j \in Thread : j # i => thread'[j] = thread[j]
    BY <1>2, <1>6 DEF S, IInv, TypeOK
<1> QED BY <1>2, <1>3, <1>7, <1>8, OneThread DEF Finished, T, S

\* A trial starts.
LEMMA ChooseInitialTourInv ==
    ASSUME IInv, NEW i \in Thread, ChooseInitialTour(i)
    PROVE  IInv'
<1> DEFINE T == thread[i]
           S == thread'[i]
<1>1. T \in ThreadType /\ ThreadInv(T, stop, max_trials)
    BY DEF IInv, TypeOK
<1>2. PICK t \in Tour :
      /\ At(i, "trials") /\ thread' = [thread EXCEPT ![i].pc = "search",
                               ![i].list = t]
      /\ thread[i].trial <= max_trials /\ ~stop
    BY DEF ChooseInitialTour
<1>3. T.pc = "trials" /\ T.trial <= max_trials /\ ~stop
      /\ UNCHANGED <<stop, caller, answer>>
    BY <1>2 DEF At
<1>4. S = [T EXCEPT !.pc = "search",
                      !.list = t]
    BY <1>2 DEF IInv, TypeOK
<1> HIDE DEF T, S
<1>5. /\ S.pc = "search" /\ S.run = T.run /\ S.trial = T.trial
      /\ S.list = t /\ S.bestSuc = T.bestSuc /\ S.betterCost = T.betterCost
      /\ S.optimum = T.optimum /\ S.best = T.best /\ S.bestCost = T.bestCost
      /\ S.s1 = T.s1 /\ S.low = T.low /\ S.passes = T.passes
    BY <1>1, <1>4 DEF ThreadType
<1>6. S \in ThreadType
  <2>1. "search" \in Points
    BY <1>1, <1>3, CostFacts, SolverAssumption DEF Points, ThreadType
  <2> QED BY <1>1, <1>4, <2>1, FieldTypes
<1>7. ThreadInv(S, stop, max_trials)
    BY <1>1, <1>3, <1>5, CostFacts, SolverAssumption DEF ThreadType, ThreadInv, InRun, Lower
<1>8. thread' \in [Thread -> ThreadType] /\ \A j \in Thread : j # i => thread'[j] = thread[j]
    BY <1>2, <1>6 DEF S, IInv, TypeOK
<1> QED BY <1>2, <1>3, <1>7, <1>8, OneThread DEF Finished, T, S

\* The loop over trials ends.
LEMMA EndTrialsInv ==
    ASSUME IInv, NEW i \in Thread, EndTrials(i)
    PROVE  IInv'
<1> DEFINE T == thread[i]
           S == thread'[i]
<1>1. T \in ThreadType /\ ThreadInv(T, stop, max_trials)
    BY DEF IInv, TypeOK
<1>2. /\ At(i, "trials") /\ thread' = [thread EXCEPT ![i].pc = "end"]
    BY DEF EndTrials
<1>3. T.pc = "trials"
      /\ UNCHANGED <<stop, caller, answer>>
    BY <1>2 DEF At
<1>4. S = [T EXCEPT !.pc = "end"]
    BY <1>2 DEF IInv, TypeOK
<1> HIDE DEF T, S
<1>5. /\ S.pc = "end" /\ S.run = T.run /\ S.trial = T.trial
      /\ S.list = T.list /\ S.bestSuc = T.bestSuc /\ S.betterCost = T.betterCost
      /\ S.optimum = T.optimum /\ S.best = T.best /\ S.bestCost = T.bestCost
      /\ S.s1 = T.s1 /\ S.low = T.low /\ S.passes = T.passes
    BY <1>1, <1>4 DEF ThreadType
<1>6. S \in ThreadType
  <2>1. "end" \in Points
    BY <1>1, <1>3, CostFacts, SolverAssumption DEF Points, ThreadType
  <2> QED BY <1>1, <1>4, <2>1, FieldTypes
<1>7. ThreadInv(S, stop, max_trials)
    BY <1>1, <1>3, <1>5, CostFacts, SolverAssumption DEF ThreadType, ThreadInv, InRun, Lower
<1>8. thread' \in [Thread -> ThreadType] /\ \A j \in Thread : j # i => thread'[j] = thread[j]
    BY <1>2, <1>6 DEF S, IInv, TypeOK
<1> QED BY <1>2, <1>3, <1>7, <1>8, OneThread DEF Finished, T, S

\* The search goes on.
LEMMA SearchOnInv ==
    ASSUME IInv, NEW i \in Thread, SearchOn(i)
    PROVE  IInv'
<1> DEFINE T == thread[i]
           S == thread'[i]
<1>1. T \in ThreadType /\ ThreadInv(T, stop, max_trials)
    BY DEF IInv, TypeOK
<1>2. PICK t \in Tour :
      /\ At(i, "search") /\ thread' = [thread EXCEPT ![i].list = t,
                               ![i].s1 = Gain23Start(i),
                               ![i].passes = Ended(i)]
      /\ ~stop
    BY DEF SearchOn
<1>3. T.pc = "search" /\ ~stop
      /\ UNCHANGED <<stop, caller, answer>>
    BY <1>2 DEF At
<1>4. S = [T EXCEPT !.list = t,
                      !.s1 = Gain23Start(i),
                      !.passes = Ended(i)]
    BY <1>2 DEF IInv, TypeOK
<1>a. Gain23Start(i) \in 0..MaxCalls /\ Ended(i) = IF stop THEN T.passes + 1 ELSE T.passes
    BY <1>1, SolverAssumption DEF Gain23Start, Ended, IInv, TypeOK, CallerType, ThreadType
<1> HIDE DEF T, S
<1>5. /\ S.pc = T.pc /\ S.run = T.run /\ S.trial = T.trial
      /\ S.list = t /\ S.bestSuc = T.bestSuc /\ S.betterCost = T.betterCost
      /\ S.optimum = T.optimum /\ S.best = T.best /\ S.bestCost = T.bestCost
      /\ S.s1 = Gain23Start(i) /\ S.low = T.low /\ S.passes = Ended(i)
    BY <1>1, <1>4 DEF ThreadType
<1>6. S \in ThreadType
  <2>1. Gain23Start(i) \in 0..MaxCalls /\ Ended(i) \in Nat
    BY <1>1, <1>3, <1>a, CostFacts, SolverAssumption DEF Points, ThreadType
  <2> QED BY <1>1, <1>4, <2>1, FieldTypes
<1>7. ThreadInv(S, stop, max_trials)
    BY <1>1, <1>3, <1>5, <1>a, CostFacts, SolverAssumption DEF ThreadType, ThreadInv, InRun, Lower
<1>8. thread' \in [Thread -> ThreadType] /\ \A j \in Thread : j # i => thread'[j] = thread[j]
    BY <1>2, <1>6 DEF S, IInv, TypeOK
<1> QED BY <1>2, <1>3, <1>7, <1>8, OneThread DEF Finished, T, S

\* The search ends.
LEMMA EndSearchInv ==
    ASSUME IInv, NEW i \in Thread, EndSearch(i)
    PROVE  IInv'
<1> DEFINE T == thread[i]
           S == thread'[i]
<1>1. T \in ThreadType /\ ThreadInv(T, stop, max_trials)
    BY DEF IInv, TypeOK
<1>2. PICK t \in Tour, s1 \in {thread[i].s1, Gain23Start(i)} :
      /\ At(i, "search") /\ thread' = [thread EXCEPT ![i].pc = "merge",
                               ![i].list = t,
                               ![i].s1 = s1,
                               ![i].passes = Ended(i)]
    BY DEF EndSearch
<1>3. T.pc = "search" /\ s1 \in {T.s1, Gain23Start(i)}
      /\ UNCHANGED <<stop, caller, answer>>
    BY <1>2 DEF At
<1>4. S = [T EXCEPT !.pc = "merge",
                      !.list = t,
                      !.s1 = s1,
                      !.passes = Ended(i)]
    BY <1>2 DEF IInv, TypeOK
<1>a. Gain23Start(i) \in 0..MaxCalls /\ Ended(i) = IF stop THEN T.passes + 1 ELSE T.passes
    BY <1>1, SolverAssumption DEF Gain23Start, Ended, IInv, TypeOK, CallerType, ThreadType
<1> HIDE DEF T, S
<1>5. /\ S.pc = "merge" /\ S.run = T.run /\ S.trial = T.trial
      /\ S.list = t /\ S.bestSuc = T.bestSuc /\ S.betterCost = T.betterCost
      /\ S.optimum = T.optimum /\ S.best = T.best /\ S.bestCost = T.bestCost
      /\ S.s1 = s1 /\ S.low = T.low /\ S.passes = Ended(i)
    BY <1>1, <1>4 DEF ThreadType
<1>6. S \in ThreadType
  <2>1. "merge" \in Points /\ s1 \in 0..MaxCalls /\ Ended(i) \in Nat
    BY <1>1, <1>3, <1>a, CostFacts, SolverAssumption DEF Points, ThreadType
  <2> QED BY <1>1, <1>4, <2>1, FieldTypes
<1>7. ThreadInv(S, stop, max_trials)
    BY <1>1, <1>3, <1>5, <1>a, CostFacts, SolverAssumption DEF ThreadType, ThreadInv, InRun, Lower
<1>8. thread' \in [Thread -> ThreadType] /\ \A j \in Thread : j # i => thread'[j] = thread[j]
    BY <1>2, <1>6 DEF S, IInv, TypeOK
<1> QED BY <1>2, <1>3, <1>7, <1>8, OneThread DEF Finished, T, S

\* A thread throws.
LEMMA ThrowInv ==
    ASSUME IInv, NEW i \in Thread, Throw(i)
    PROVE  IInv'
<1> DEFINE T == thread[i]
           S == thread'[i]
<1>1. T \in ThreadType /\ ThreadInv(T, stop, max_trials)
    BY DEF IInv, TypeOK
<1>2. PICK from \in {"init", "search"} :
        At(i, from) /\ thread' = [thread EXCEPT ![i].pc = "threw"]
    BY DEF Throw
<1>3. T.pc \in {"init", "search"} /\ UNCHANGED <<stop, caller, answer>>
    BY <1>2 DEF At
<1>4. S = [T EXCEPT !.pc = "threw"]
    BY <1>2 DEF IInv, TypeOK
<1> HIDE DEF T, S
<1>5. /\ S.pc = "threw" /\ S.best = T.best /\ S.bestCost = T.bestCost
      /\ S.passes = T.passes
    BY <1>1, <1>4 DEF ThreadType
<1>6. S \in ThreadType
    BY <1>1, <1>4, FieldTypes DEF Points
<1>7. ThreadInv(S, stop, max_trials)
    BY <1>1, <1>3, <1>5, CostFacts, SolverAssumption DEF ThreadType, ThreadInv, InRun
<1>8. thread' \in [Thread -> ThreadType] /\ \A j \in Thread : j # i => thread'[j] = thread[j]
    BY <1>2, <1>6 DEF S, IInv, TypeOK
<1> QED BY <1>2, <1>3, <1>7, <1>8, OneThread DEF Finished, T, S

\* A trial ends with a tour of the problem.
LEMMA TrialToursAreTours ==
    ASSUME IInv, NEW i \in Thread, NEW t \in TrialTours(i)
    PROVE  t \in Tour
<1>1. thread[i].list \in Tour /\ thread[i].bestSuc \in Tour \cup {NoTour}
    BY DEF IInv, TypeOK, ThreadType
<1> QED BY <1>1, SolverAssumption DEF TrialTours, Merged

\* A trial ends.
LEMMA EndTrialInv ==
    ASSUME IInv, NEW i \in Thread, EndTrial(i)
    PROVE  IInv'
<1> DEFINE T == thread[i]
           S == thread'[i]
<1>1. T \in ThreadType /\ ThreadInv(T, stop, max_trials)
    BY DEF IInv, TypeOK
<1>2. PICK t \in TrialTours(i) :
        LET better == CostOf[t] < thread[i].betterCost
            optimal == better /\ StopAtOptimum /\ CostOf[t] = thread[i].optimum
        IN  /\ At(i, "merge")
            /\ thread' = [thread EXCEPT ![i].pc = IF optimal THEN "end" ELSE "trials",
                                        ![i].trial = IF optimal THEN @ ELSE @ + 1,
                                        ![i].list = t,
                                        ![i].bestSuc = IF better THEN t ELSE @,
                                        ![i].betterCost = IF better THEN CostOf[t] ELSE @,
                                        ![i].low = Lower(@, CostOf[t])]
    BY DEF EndTrial
<1> DEFINE better == CostOf[t] < T.betterCost
           optimal == better /\ StopAtOptimum /\ CostOf[t] = T.optimum
           pc == IF optimal THEN "end" ELSE "trials"
           trial == IF optimal THEN T.trial ELSE T.trial + 1
           bestSuc == IF better THEN t ELSE T.bestSuc
           betterCost == IF better THEN CostOf[t] ELSE T.betterCost
           low == Lower(T.low, CostOf[t])
<1>3. T.pc = "merge" /\ UNCHANGED <<stop, caller, answer>>
    BY <1>2 DEF At
<1>4. S = [T EXCEPT !.pc = pc, !.trial = trial, !.list = t, !.bestSuc = bestSuc,
                    !.betterCost = betterCost, !.low = low]
    BY <1>2 DEF IInv, TypeOK
<1>a. t \in Tour
    BY TrialToursAreTours
<1> HIDE DEF T, S
<1>b. /\ pc \in {"end", "trials"} /\ trial \in 1..(MaxTrials + 1)
      /\ bestSuc \in Tour \cup {NoTour} /\ betterCost \in Costs
      /\ betterCost = CostIn(bestSuc) /\ max_trials # 0
  <2>1. T.trial \in 1..max_trials /\ T.betterCost = CostIn(T.bestSuc)
    BY <1>1, <1>3, SolverAssumption DEF ThreadType, ThreadInv, InRun
  <2>2. max_trials \in 0..MaxTrials
    BY DEF IInv, TypeOK, CallerType, max_trials
  <2> QED BY <1>1, <1>a, <2>1, <2>2, CostFacts, SolverAssumption DEF ThreadType
<1>c. low \in Costs /\ low = Lower(T.bestCost, betterCost)
  <2>1. T.low \in Costs /\ CostOf[t] \in Costs
    BY <1>1, <1>a, CostFacts DEF ThreadType
  <2>2. T.low = Lower(T.bestCost, T.betterCost)
    BY <1>1, <1>3 DEF ThreadInv, InRun
  <2>3. T.bestCost \in Int /\ T.betterCost \in Int /\ CostOf[t] \in Int
    BY <1>1, <2>1, CostFacts DEF ThreadType
  <2> QED BY <2>1, <2>2, <2>3, LowerCost DEF Lower
<1> HIDE DEF pc, trial, bestSuc, betterCost, low
<1>5. /\ S.pc = pc /\ S.run = T.run /\ S.trial = trial
      /\ S.list = t /\ S.bestSuc = bestSuc /\ S.betterCost = betterCost
      /\ S.optimum = T.optimum /\ S.best = T.best /\ S.bestCost = T.bestCost
      /\ S.s1 = T.s1 /\ S.low = low /\ S.passes = T.passes
    BY <1>1, <1>4 DEF ThreadType
<1>6. S \in ThreadType
  <2>1. pc \in Points
    BY <1>b DEF Points
  <2> QED BY <1>1, <1>4, <1>a, <1>b, <1>c, <2>1, FieldTypes
<1>7. ThreadInv(S, stop, max_trials)
    BY <1>1, <1>3, <1>5, <1>b, <1>c DEF ThreadType, ThreadInv, InRun
<1>8. thread' \in [Thread -> ThreadType] /\ \A j \in Thread : j # i => thread'[j] = thread[j]
    BY <1>2, <1>6 DEF S, IInv, TypeOK
<1> QED BY <1>2, <1>3, <1>7, <1>8, OneThread DEF Finished, T, S, At

\* A run ends.
LEMMA EndRunInv ==
    ASSUME IInv, NEW i \in Thread, EndRun(i)
    PROVE  IInv'
<1> DEFINE T == thread[i]
           S == thread'[i]
           cost == T.betterCost
           optimum == Lower(cost, T.optimum)
           over == StopAtOptimum /\ cost = optimum
           tour == IF T.bestSuc = NoTour \/ max_trials = 0 THEN T.list ELSE T.bestSuc
           found == cost < T.bestCost
           pc == IF over THEN "returned" ELSE "runs"
           run == IF over THEN T.run ELSE T.run + 1
           best == IF found THEN tour ELSE T.best
           bestCost == IF found THEN cost ELSE T.bestCost
<1>1. T \in ThreadType /\ ThreadInv(T, stop, max_trials)
    BY DEF IInv, TypeOK
<1>2. /\ At(i, "end")
      /\ thread' = [thread EXCEPT ![i].pc = pc,
                                  ![i].run = run,
                                  ![i].list = tour,
                                  ![i].bestSuc = tour,
                                  ![i].best = best,
                                  ![i].bestCost = bestCost,
                                  ![i].optimum = optimum]
    BY DEF EndRun
<1>3. T.pc = "end" /\ UNCHANGED <<stop, caller, answer>>
    BY <1>2 DEF At
<1>4. S = [T EXCEPT !.pc = pc, !.run = run, !.list = tour, !.bestSuc = tour,
                    !.best = best, !.bestCost = bestCost, !.optimum = optimum]
    BY <1>2 DEF IInv, TypeOK
<1> HIDE DEF T, S
<1>a. /\ T.betterCost \in Costs /\ T.bestCost \in Costs
      /\ T.betterCost \in Int /\ T.bestCost \in Int
      /\ T.betterCost <= MaxCost /\ T.bestCost <= MaxCost
      /\ T.optimum \in Int /\ T.run \in 0..Runs /\ T.run < Runs
      /\ T.low = Lower(T.bestCost, T.betterCost)
      /\ T.betterCost = CostIn(T.bestSuc) /\ T.optimum <= KnownOptimum
      /\ max_trials = 0 => T.list = T.bestSuc
    BY <1>1, <1>3, CostFacts, SolverAssumption DEF ThreadType, ThreadInv, InRun
<1>b. tour \in Tour /\ best \in Tour \cup {NoTour} /\ bestCost \in Costs
      /\ bestCost = CostIn(best) /\ bestCost = T.low
  <2>1. tour \in Tour
    BY <1>1, SolverAssumption DEF ThreadType
  <2>2. best \in Tour \cup {NoTour}
    BY <1>1, <2>1 DEF ThreadType
  <2>3. bestCost \in Costs /\ bestCost = T.low
    BY <1>a DEF Lower
  <2>4. bestCost = CostIn(best)
    <3>1. CASE found
      <4>1. T.bestSuc # NoTour
        BY <1>a, <3>1, CostFacts
      <4>2. tour = T.bestSuc
        BY <1>a, <4>1
      <4> QED BY <1>a, <3>1, <4>2
    <3>2. CASE ~found
      BY <1>1, <3>2 DEF ThreadInv
    <3> QED BY <3>1, <3>2
  <2> QED BY <2>1, <2>2, <2>3, <2>4
<1>c. /\ optimum \in Costs \cup {KnownOptimum} /\ optimum <= KnownOptimum
      /\ pc \in {"returned", "runs"} /\ run \in 0..Runs
      /\ pc = "returned" => StopAtOptimum /\ bestCost <= KnownOptimum
  <2>1. optimum \in Costs \cup {KnownOptimum}
    BY <1>1, <1>a DEF ThreadType, Lower
  <2>2. optimum <= KnownOptimum
    BY <1>a, SolverAssumption DEF Lower
  <2>3. pc \in {"returned", "runs"} /\ run \in 0..Runs
    BY <1>a, SolverAssumption
  <2>4. over => StopAtOptimum /\ bestCost <= KnownOptimum
    BY <1>a, <2>2, SolverAssumption
  <2> QED BY <2>1, <2>2, <2>3, <2>4
<1> HIDE DEF tour, best, bestCost, optimum, pc, run
<1>5. /\ S.pc = pc /\ S.run = run /\ S.trial = T.trial
      /\ S.list = tour /\ S.bestSuc = tour /\ S.betterCost = T.betterCost
      /\ S.optimum = optimum /\ S.best = best /\ S.bestCost = bestCost
      /\ S.s1 = T.s1 /\ S.low = T.low /\ S.passes = T.passes
    BY <1>1, <1>4 DEF ThreadType
<1>6. S \in ThreadType
  <2>1. pc \in Points
    BY <1>c DEF Points
  <2> QED BY <1>1, <1>4, <1>b, <1>c, <2>1, FieldTypes
<1>7. ThreadInv(S, stop, max_trials)
    BY <1>1, <1>3, <1>5, <1>b, <1>c DEF ThreadType, ThreadInv, InRun
<1>8. thread' \in [Thread -> ThreadType] /\ \A j \in Thread : j # i => thread'[j] = thread[j]
    BY <1>2, <1>6 DEF S, IInv, TypeOK
<1> QED BY <1>2, <1>3, <1>7, <1>8, OneThread DEF Finished, T, S

\* FindTour is entered.
LEMMA FindTourInv ==
    ASSUME IInv, NEW i \in Thread, FindTour(i)
    PROVE  IInv'
<1>1. max_trials \in Nat
    BY SolverAssumption DEF IInv, TypeOK, CallerType, max_trials
<1> QED BY <1>1, BeginTrialsInv, FindInitialTourInv DEF FindTour

\* Every step of a solving thread keeps the invariant.
LEMMA SolveInv ==
    ASSUME IInv, NEW i \in Thread, Solve(i)
    PROVE  IInv'
BY PrepareInv, AscentSolvesInv, ThrowInv, FindTourInv, EndSolveInv,
   ChooseInitialTourInv, EndTrialsInv, SearchOnInv, EndSearchInv, EndTrialInv, EndRunInv
   DEF Solve

\* A thread that has not been started is in order.
LEMMA NewThreadInv ==
    /\ NewThread \in ThreadType /\ ThreadInv(NewThread, stop, max_trials)
    /\ \A s1 \in 0..MaxCalls :
          LET T == [NewThread EXCEPT !.pc = "init", !.s1 = s1]
          IN  T \in ThreadType /\ T.pc = "init" /\ ThreadInv(T, stop, max_trials)
<1>1. NewThread \in ThreadType
    BY CostFacts, SolverAssumption DEF NewThread, ThreadType
<1>2. ThreadInv(NewThread, stop, max_trials)
    BY CostFacts, SolverAssumption DEF NewThread, ThreadInv, InRun
<1>3. ASSUME NEW s1 \in 0..MaxCalls, NEW T, T = [NewThread EXCEPT !.pc = "init", !.s1 = s1]
      PROVE  T \in ThreadType /\ T.pc = "init" /\ ThreadInv(T, stop, max_trials)
  <2>1. T \in ThreadType
    BY <1>1, <1>3, FieldTypes DEF Points
  <2>2. /\ T.pc = "init" /\ T.best = NoTour /\ T.bestCost = MaxCost /\ T.low = MaxCost
        /\ T.betterCost = MaxCost /\ T.passes = 0 /\ T.optimum = KnownOptimum
    BY <1>3 DEF NewThread
  <2>3. ThreadInv(T, stop, max_trials)
    BY <2>2, CostFacts, SolverAssumption DEF ThreadInv, InRun
  <2> QED BY <2>1, <2>2, <2>3
<1> QED BY <1>1, <1>2, <1>3

\* The invariant holds at the start.
LEMMA InitInv == Init => IInv
<1> SUFFICES ASSUME Init PROVE IInv
    OBVIOUS
<1>1. \A i \in Thread : thread[i] = NewThread
    BY DEF Init
<1>2. \A i \in Thread : ThreadInv(thread[i], stop, max_trials)
    BY <1>1, NewThreadInv
<1>3. TypeOK
  <2>1. thread \in [Thread -> ThreadType]
    BY NewThreadInv DEF Init
  <2>2. caller \in CallerType
    BY SolverAssumption DEF Init, CallerType
  <2>3. answer \in [kind : {"none", "exception", "tour"}, tour : Tour \cup {NoTour},
                    cost : Costs]
    BY CostFacts DEF Init, NoAnswer
  <2> QED BY <2>1, <2>2, <2>3 DEF Init, TypeOK
<1>4. CallerInv
    BY <1>1 DEF Init, CallerInv, Finished, NewThread
<1> QED BY <1>2, <1>3, <1>4 DEF IInv

\* stop_ is set.  The threads that search make their last pass.
LEMMA StopInv ==
    ASSUME IInv, Stop
    PROVE  IInv'
<1>1. TypeOK'
    BY DEF IInv, TypeOK, Stop
<1>2. CallerInv'
    BY DEF IInv, CallerInv, Stop, Finished
<1>3. \A i \in Thread : ThreadInv(thread'[i], stop', max_trials')
    BY DEF IInv, Stop, ThreadInv, max_trials
<1> QED BY <1>1, <1>2, <1>3 DEF IInv, ThreadInv, CostIn, Lower

\* The caller moves and the threads do not.
LEMMA CallerStep ==
    ASSUME IInv, UNCHANGED <<stop, thread>>, TypeOK', CallerInv',
           max_trials' = max_trials \/ \A i \in Thread : Finished(i)
    PROVE  IInv'
<1>1. \A i \in Thread : ThreadInv(thread'[i], stop', max_trials')
  <2>1. CASE max_trials' = max_trials
    BY <2>1 DEF IInv
  <2>2. CASE \A i \in Thread : Finished(i)
    BY <2>2 DEF IInv, ThreadInv, Finished, InRun
  <2> QED BY <2>1, <2>2
<1> QED BY <1>1 DEF IInv, ThreadInv, CostIn, Lower

\* Only a call brings a new number of trials.
LEMMA SameTrials ==
    ASSUME IInv, EncodeFails \/ EncodeStopped \/ StartThreads \/ Join
                 \/ Rethrow \/ ReturnBest
    PROVE  max_trials' = max_trials
BY DEF IInv, TypeOK, CallerType, EncodeFails, EncodeStopped, StartThreads, Join,
       Rethrow, ReturnBest, Return, max_trials

\* A call begins when no thread is left of the previous one.
LEMMA CallInv ==
    ASSUME IInv, Call
    PROVE  IInv'
<1>1. TypeOK'
    BY SolverAssumption DEF IInv, TypeOK, CallerType, Call
<1>2. CallerInv'
    BY SolverAssumption DEF IInv, TypeOK, CallerType, CallerInv, Call, Finished
<1>3. \A i \in Thread : Finished(i)
    BY DEF IInv, CallerInv, Call
<1> QED BY <1>1, <1>2, <1>3, CallerStep DEF Call

\* A call ends before it has started a thread.
LEMMA EncodeEndsInv ==
    ASSUME IInv, EncodeFails \/ EncodeStopped
    PROVE  IInv'
<1>1. TypeOK'
    BY CostFacts DEF IInv, TypeOK, CallerType, EncodeFails, EncodeStopped, Return, Failure, NoAnswer
<1>2. CallerInv'
    BY DEF IInv, TypeOK, CallerType, CallerInv, EncodeFails, EncodeStopped, Return, Finished
<1> QED BY <1>1, <1>2, SameTrials, CallerStep DEF EncodeFails, EncodeStopped

\* The threads start, the first with the Context of the previous call if it is
\* the caller itself.
LEMMA StartThreadsInv ==
    ASSUME IInv, StartThreads
    PROVE  IInv'
<1>1. ASSUME NEW i \in Thread
      PROVE  /\ thread'[i] \in ThreadType /\ ThreadInv(thread'[i], stop, max_trials)
             /\ thread'[i].pc = "init"
  <2> DEFINE s1 == IF Threads = 1 THEN thread[i].s1 ELSE 0
  <2>1. s1 \in 0..MaxCalls
    BY SolverAssumption DEF IInv, TypeOK, ThreadType
  <2>2. thread'[i] = [NewThread EXCEPT !.pc = "init", !.s1 = s1]
    BY DEF StartThreads, Started
  <2> HIDE DEF s1
  <2> QED BY <2>1, <2>2, NewThreadInv
<1>2. TypeOK'
    BY <1>1 DEF IInv, TypeOK, CallerType, StartThreads
<1>3. CallerInv'
    BY SolverAssumption DEF IInv, TypeOK, CallerType, CallerInv, StartThreads
<1>4. \A i \in Thread : ThreadInv(thread'[i], stop', max_trials')
    BY <1>1, SameTrials DEF StartThreads
<1> QED BY <1>2, <1>3, <1>4 DEF IInv, ThreadInv, CostIn, Lower

\* One more thread is joined, which has finished.
LEMMA JoinInv ==
    ASSUME IInv, Join
    PROVE  IInv'
<1>1. TypeOK'
  <2> DEFINE C == caller
  <2>1. C \in CallerType
    BY DEF IInv, TypeOK
  <2>2. C.joined < Threads /\ caller' = [C EXCEPT !.joined = C.joined + 1]
    BY DEF Join
  <2> HIDE DEF C
  <2>3. C.joined + 1 \in 0..Threads
    BY <2>1, <2>2, SolverAssumption DEF CallerType
  <2>4. caller' \in CallerType
    BY <2>1, <2>2, <2>3 DEF CallerType
  <2> QED BY <2>4 DEF IInv, TypeOK, Join
<1>2. CallerInv'
    BY SolverAssumption DEF IInv, TypeOK, CallerType, CallerInv, Join, Finished
<1> QED BY <1>1, <1>2, SameTrials, CallerStep DEF Join

\* When all threads are joined, all have finished.
LEMMA AllJoined ==
    ASSUME IInv, caller.pc = "join", caller.joined = Threads
    PROVE  \A i \in Thread : Finished(i)
BY SolverAssumption DEF IInv, CallerInv

\* A call ends after its threads: with an exception or a result.
LEMMA ReturnInv ==
    ASSUME IInv, Rethrow \/ ReturnBest
    PROVE  IInv'
<1>1. TypeOK'
  <2>1. CASE Rethrow
    BY <2>1, CostFacts DEF IInv, TypeOK, CallerType, Rethrow, Return, Failure
  <2>2. CASE ReturnBest
    <3>1. PICK i \in Thread :
            Return([kind |-> IF thread[i].best = NoTour THEN "none" ELSE "tour",
                    tour |-> thread[i].best, cost |-> thread[i].bestCost])
        BY <2>2 DEF ReturnBest
    <3>2. thread[i].best \in Tour \cup {NoTour} /\ thread[i].bestCost \in Costs
        BY DEF IInv, TypeOK, ThreadType
    <3>3. answer' \in [kind : {"none", "exception", "tour"},
                       tour : Tour \cup {NoTour}, cost : Costs]
        BY <3>1, <3>2 DEF Return
    <3> QED BY <2>2, <3>1, <3>3 DEF IInv, TypeOK, CallerType, ReturnBest, Return
  <2> QED BY <2>1, <2>2
<1>2. CallerInv'
    BY AllJoined DEF IInv, TypeOK, CallerType, CallerInv, Rethrow, ReturnBest, Return, Finished
<1> QED BY <1>1, <1>2, SameTrials, CallerStep DEF Rethrow, ReturnBest

\* The caller leaves a call only with an answer.
LEMMA OnlyAnswersEnd ==
    ASSUME IInv, Next, caller.pc # "idle", caller'.pc = "idle"
    PROVE  EncodeFails \/ EncodeStopped \/ Rethrow \/ ReturnBest
<1>1. ASSUME NEW i \in Thread, Solve(i) PROVE UNCHANGED caller
  <2>1. \A pc : At(i, pc) => UNCHANGED caller
    BY DEF At
  <2>2. Prepare(i) \/ AscentSolves(i) \/ Throw(i) => \E pc : At(i, pc)
    BY DEF Prepare, AscentSolves, Throw
  <2>3. FindTour(i) \/ EndSolve(i) => \E pc : At(i, pc)
    BY DEF FindTour, BeginTrials, FindInitialTour, EndSolve
  <2>4. ChooseInitialTour(i) \/ EndTrials(i) => \E pc : At(i, pc)
    BY DEF ChooseInitialTour, EndTrials
  <2>5. SearchOn(i) \/ EndSearch(i) => \E pc : At(i, pc)
    BY DEF SearchOn, EndSearch
  <2>6. EndTrial(i) => \E pc : At(i, pc)
    BY DEF EndTrial
  <2>7. EndRun(i) => \E pc : At(i, pc)
    BY DEF EndRun
  <2> QED BY <1>1, <2>1, <2>2, <2>3, <2>4, <2>5, <2>6, <2>7 DEF Solve
<1>2. ASSUME StartThreads PROVE FALSE
    BY <1>2 DEF IInv, TypeOK, CallerType, StartThreads
<1>3. ASSUME Join PROVE FALSE
  <2>1. caller' = [caller EXCEPT !.joined = caller.joined + 1]
    BY <1>3 DEF Join
  <2>2. caller'.pc = caller.pc
    BY <2>1 DEF IInv, TypeOK, CallerType
  <2> QED BY <2>2
<1>4. ASSUME Stop \/ Call PROVE FALSE
    BY <1>4 DEF Stop, Call
<1> QED BY <1>1, <1>2, <1>3, <1>4 DEF Next, Serve

\* Every step keeps the invariant.
LEMMA NextInv == IInv /\ [Next]_vars => IInv'
<1> SUFFICES ASSUME IInv, [Next]_vars PROVE IInv'
    OBVIOUS
<1>1. CASE Stop
    BY <1>1, StopInv
<1>2. CASE Call
    BY <1>2, CallInv
<1>3. CASE Serve
    BY <1>3, EncodeEndsInv, StartThreadsInv, JoinInv, ReturnInv DEF Serve
<1>4. CASE \E i \in Thread : Solve(i)
    BY <1>4, SolveInv
<1>5. CASE UNCHANGED vars
  <2>1. TypeOK' /\ CallerInv'
    BY <1>5 DEF IInv, TypeOK, CallerType, CallerInv, vars, Finished
  <2> QED BY <1>5, <2>1, CallerStep DEF vars, max_trials
<1> QED BY <1>1, <1>2, <1>3, <1>4, <1>5 DEF Next

\* IInv, of which the properties below are consequences, holds in every state of
\* every behaviour.
THEOREM Invariance == Spec => []IInv
BY InitInv, NextInv, PTL DEF Spec

-----------------------------------------------------------------------------

\* The values of the variables have their types: runs and trials stay in their
\* bounds, and every cost is that of a tour or of none.
THEOREM TypeCorrect == Spec => []TypeOK
<1>1. IInv => TypeOK
    BY DEF IInv
<1> QED BY <1>1, Invariance, PTL

\* best_tour and BestSuc are the best tours found, with their costs.
THEOREM KeepsBest == Spec => []BestSoFar
<1>1. IInv => BestSoFar
    BY DEF IInv, BestSoFar, ThreadInv, InRun
<1> QED BY <1>1, Invariance, PTL

\* SolveParallel joins every thread before it returns or rethrows.
THEOREM JoinsAll == Spec => []ThreadsJoined
<1>1. IInv => ThreadsJoined
    BY DEF IInv, CallerInv, ThreadsJoined
<1> QED BY <1>1, Invariance, PTL

\* A thread makes at most one pass of the search after stop.
THEOREM Stops == Spec => []StopsPromptly
<1>1. IInv => StopsPromptly
    BY DEF IInv, ThreadInv, StopsPromptly
<1> QED BY <1>1, Invariance, PTL

\* The runs end early only for a reason.
THEOREM MakesRuns == Spec => []RunsAreMade
<1>1. IInv => RunsAreMade
    BY DEF IInv, ThreadInv, RunsAreMade
<1> QED BY <1>1, Invariance, PTL

\* The answer that ReturnBest gives is the best tour of all threads, if there is one.
LEMMA ReturnBestAnswer ==
    ASSUME IInv, ReturnBest
    PROVE  /\ answer'.tour \in Tour \cup {NoTour}
           /\ answer'.kind = IF answer'.tour = NoTour THEN "none" ELSE "tour"
           /\ answer'.cost = CostIn(answer'.tour)
           /\ \A i \in Thread : answer'.cost <= thread[i].low
           /\ \E i \in Thread : answer'.cost = thread[i].low
<1>1. PICK i \in Thread :
        /\ IsMinElement(i)
        /\ answer' = [kind |-> IF thread[i].best = NoTour THEN "none" ELSE "tour",
                      tour |-> thread[i].best, cost |-> thread[i].bestCost]
    BY DEF ReturnBest, Return
<1>2. \A j \in Thread : thread[j].low = thread[j].bestCost
    BY AllJoined DEF ReturnBest, Finished, IInv, ThreadInv
<1>3. /\ thread[i].bestCost = CostIn(thread[i].best)
      /\ thread[i].best \in Tour \cup {NoTour}
    BY DEF IInv, TypeOK, ThreadType, ThreadInv
<1> QED BY <1>1, <1>2, <1>3 DEF IsMinElement

\* A call returns the best tour that any of its threads has found.
THEOREM AnswersBest == Spec => AnswerIsBest
<1> DEFINE A == caller.pc = "join" /\ caller'.pc = "idle" /\ answer'.kind # "exception" =>
                  /\ answer'.cost = CostIn(answer'.tour)
                  /\ \A i \in Thread : answer'.cost <= thread[i].low
                  /\ \E i \in Thread : answer'.cost = thread[i].low
<1>1. IInv /\ [Next]_vars => [A]_vars
  <2> SUFFICES ASSUME IInv, Next, caller.pc = "join", caller'.pc = "idle",
                      answer'.kind # "exception"
               PROVE  A
    BY DEF vars
  <2>1. ReturnBest
    BY OnlyAnswersEnd DEF EncodeFails, EncodeStopped, Rethrow, Return, Failure
  <2> QED BY <2>1, ReturnBestAnswer
<1> QED BY <1>1, Invariance, PTL DEF Spec, AnswerIsBest

\* A handle that was stopped returns no tour any more.
THEOREM StaysStopped == Spec => StoppedForGood
<1> DEFINE A == caller.begunStopped /\ caller.pc # "idle" /\ caller'.pc = "idle"
                  => answer'.kind # "tour"
<1>1. IInv /\ [Next]_vars => [A]_vars
  <2> SUFFICES ASSUME IInv, Next, caller.begunStopped, caller.pc # "idle", caller'.pc = "idle"
               PROVE  answer'.kind # "tour"
    BY DEF vars
  <2>1. caller.pc # "join"
    BY DEF IInv, CallerInv
  <2>2. EncodeFails \/ EncodeStopped
    BY <2>1, OnlyAnswersEnd DEF Rethrow, ReturnBest
  <2> QED BY <2>2 DEF EncodeFails, EncodeStopped, Return, Failure, NoAnswer
<1> QED BY <1>1, Invariance, PTL DEF Spec, StoppedForGood

-----------------------------------------------------------------------------
\* The program.

\* What lkh.Solve has returned when it is not running.
AnswerInv ==
    /\ answer.kind # "tour" => answer.tour = NoTour
    /\ answer.kind = "tour" => answer.tour \in Tour
    /\ caller.pc = "idle" /\ answer.kind = "tour" =>
          \A i \in Thread : CostOf[answer.tour] <= thread[i].low

\* The end of the solving thread is announced once the call has returned, with its
\* answer in tour_file, and the main thread writes after that.
HandOver ==
    /\ solve_done \in BOOLEAN
    /\ ~solve_done => tour_file = NoAnswer
    /\ solve_done =>
          /\ caller.pc = "idle" /\ caller.calls = 1
          /\ tour_file = IF answer.kind = "exception" THEN NoAnswer ELSE answer
    /\ main = "exited" => solve_done
    /\ output # NoTour => main = "exited" /\ output = answer.tour

\* The inductive invariant.
MainInv == IInv /\ AnswerInv /\ HandOver

-----------------------------------------------------------------------------

\* The program does nothing to the library that Solver does not allow.
LEMMA MainStep == MainNext => [Next]_vars
BY DEF MainNext, HandleSigInt, Library, SolverThreadEnds, PollDone, PollInterrupt,
       Exit, Write, Next, vars

\* A solving thread moves only before its end, and moves only itself.
LEMMA SolveStep ==
    ASSUME NEW i \in Thread, Solve(i)
    PROVE  ~Finished(i) /\ UNCHANGED <<caller, answer>>
<1>1. ASSUME NEW pc \in Points \ {"returned", "threw"}, At(i, pc)
      PROVE  ~Finished(i) /\ UNCHANGED <<caller, answer>>
    BY <1>1 DEF At, Finished, Points
<1>2. Prepare(i) \/ AscentSolves(i) \/ Throw(i) => At(i, "init") \/ At(i, "search")
    BY DEF Prepare, AscentSolves, Throw
<1>3. FindTour(i) \/ EndSolve(i) => At(i, "runs")
    BY DEF FindTour, BeginTrials, FindInitialTour, EndSolve
<1>4. ChooseInitialTour(i) \/ EndTrials(i) => At(i, "trials")
    BY DEF ChooseInitialTour, EndTrials
<1>5. SearchOn(i) \/ EndSearch(i) => At(i, "search")
    BY DEF SearchOn, EndSearch
<1>6. EndTrial(i) => At(i, "merge")
    BY DEF EndTrial
<1>7. EndRun(i) => At(i, "end")
    BY DEF EndRun
<1>8. \E pc \in Points \ {"returned", "threw"} : At(i, pc)
    BY <1>2, <1>3, <1>4, <1>5, <1>6, <1>7 DEF Solve, Points
<1> QED BY <1>1, <1>8

\* Between calls no thread moves.
LEMMA QuietBetweenCalls ==
    ASSUME IInv, caller.pc = "idle"
    PROVE  ~Serve /\ \A i \in Thread : ~Solve(i)
<1>1. ~Serve
    BY DEF Serve, EncodeFails, EncodeStopped, StartThreads, Join, Rethrow, ReturnBest
<1>2. \A i \in Thread : Finished(i)
    BY DEF IInv, CallerInv
<1> QED BY <1>1, <1>2, SolveStep

\* Every step of the library keeps what is known of the answer.
LEMMA AnswerStep ==
    ASSUME IInv, AnswerInv, [Next]_vars
    PROVE  AnswerInv'
<1>1. CASE UNCHANGED <<caller, thread, answer>>
    BY <1>1 DEF AnswerInv
<1>2. CASE Call
    BY <1>2 DEF AnswerInv, Call
<1>3. CASE EncodeFails \/ EncodeStopped \/ Rethrow
    BY <1>3 DEF AnswerInv, EncodeFails, EncodeStopped, Rethrow, Return, Failure, NoAnswer
<1>4. CASE StartThreads
    BY <1>4 DEF AnswerInv, StartThreads, IInv, TypeOK, CallerType
<1>5. CASE Join
  <2>1. caller' = [caller EXCEPT !.joined = caller.joined + 1]
    BY <1>5 DEF Join
  <2>2. caller'.pc = "join"
    BY <1>5, <2>1 DEF Join, IInv, TypeOK, CallerType
  <2> QED BY <1>5, <2>2 DEF AnswerInv, Join
<1>6. CASE ReturnBest
  <2>1. answer'.kind = "tour" => answer'.tour \in Tour /\ answer'.cost = CostOf[answer'.tour]
    BY <1>6, ReturnBestAnswer, CostFacts
  <2>2. UNCHANGED thread
    BY <1>6 DEF ReturnBest
  <2> QED BY <1>6, <2>1, <2>2, ReturnBestAnswer DEF AnswerInv
<1>7. ASSUME NEW i \in Thread, Solve(i) PROVE AnswerInv'
  <2>1. UNCHANGED <<caller, answer>> /\ caller.pc # "idle"
    BY <1>7, SolveStep, QuietBetweenCalls
  <2> QED BY <2>1 DEF AnswerInv
<1> QED BY <1>1, <1>2, <1>3, <1>4, <1>5, <1>6, <1>7 DEF Next, Serve, Stop, vars

\* The program begins with nothing to hand over.
LEMMA MainInitInv == MainInit => MainInv
<1> SUFFICES ASSUME MainInit PROVE MainInv
    OBVIOUS
<1>1. IInv
    BY InitInv DEF MainInit
<1> QED BY <1>1 DEF MainInit, Init, MainInv, AnswerInv, HandOver, NoAnswer

\* Every step of the program keeps the invariant.
LEMMA MainNextInv == MainInv /\ [MainNext]_allVars => MainInv'
<1> SUFFICES ASSUME MainInv, [MainNext]_allVars PROVE MainInv'
    OBVIOUS
<1>1. [Next]_vars
    BY MainStep DEF allVars
<1>2. IInv' /\ AnswerInv'
    BY <1>1, NextInv, AnswerStep DEF MainInv
<1>3. HandOver'
  <2> USE DEF MainInv, HandOver
  <2>1. CASE Library
    <3>1. UNCHANGED mainVars
        BY <2>1 DEF Library
    <3>2. ~solve_done
        BY <2>1, QuietBetweenCalls, OneCall DEF Library, Call
    <3> QED BY <3>1, <3>2 DEF mainVars
  <2>2. CASE SolverThreadEnds
    BY <2>2 DEF SolverThreadEnds, vars
  <2>3. CASE HandleSigInt \/ PollDone
    BY <2>3 DEF HandleSigInt, PollDone, vars
  <2>4. CASE PollInterrupt
    BY <2>4 DEF PollInterrupt, Stop
  <2>5. CASE Exit
    BY <2>5 DEF Exit, Write, vars, AnswerInv, NoAnswer
  <2>6. CASE UNCHANGED allVars
    BY <2>6 DEF allVars, mainVars, vars
  <2> QED BY <2>1, <2>2, <2>3, <2>4, <2>5, <2>6 DEF MainNext
<1> QED BY <1>2, <1>3 DEF MainInv

\* The invariant holds in every state of the program.
THEOREM MainInvariance == MainSpec => []MainInv
BY MainInitInv, MainNextInv, PTL DEF MainSpec

-----------------------------------------------------------------------------

\* The program exits with no thread left, and what it writes is the answer of
\* lkh.Solve and the cheapest tour that any thread has found.
THEOREM Exits == MainSpec => []ExitsWithAnswer
<1>1. MainInv => ExitsWithAnswer
  <2> SUFFICES ASSUME MainInv, main = "exited" PROVE ExitsWithAnswer
    BY DEF ExitsWithAnswer
  <2>1. caller.pc = "idle" /\ caller.calls = 1
    BY DEF MainInv, HandOver
  <2>2. \A i \in Thread : Finished(i)
    BY <2>1 DEF MainInv, IInv, CallerInv
  <2>3. output # NoTour => answer.kind = "tour" /\ output = answer.tour
    BY DEF MainInv, HandOver, AnswerInv
  <2> QED BY <2>1, <2>2, <2>3 DEF ExitsWithAnswer, MainInv, AnswerInv
<1> QED BY <1>1, MainInvariance, PTL

\* Every behaviour of the program is one of the library: what is proved above of
\* threads, stop and runs holds in the program too.
THEOREM UsesLibrary == MainSpec => Init /\ [][Next]_vars
<1>1. [MainNext]_allVars => [Next]_vars
    BY MainStep DEF allVars
<1> QED BY <1>1, PTL DEF MainSpec, MainInit

\* The properties of the library that the program is checked for.
THEOREM KeepsLibrary ==
    MainSpec => [](BestSoFar /\ ThreadsJoined /\ StopsPromptly /\ RunsAreMade)
<1>1. IInv => BestSoFar /\ ThreadsJoined /\ StopsPromptly /\ RunsAreMade
  <2> SUFFICES ASSUME IInv PROVE BestSoFar /\ ThreadsJoined /\ StopsPromptly /\ RunsAreMade
    OBVIOUS
  <2>1. BestSoFar
    BY DEF IInv, BestSoFar, ThreadInv, InRun
  <2>2. ThreadsJoined
    BY DEF IInv, CallerInv, ThreadsJoined
  <2>3. StopsPromptly
    BY DEF IInv, ThreadInv, StopsPromptly
  <2>4. RunsAreMade
    BY DEF IInv, ThreadInv, RunsAreMade
  <2> QED BY <2>1, <2>2, <2>3, <2>4
<1>2. MainInv => IInv
    BY DEF MainInv
<1> QED BY <1>1, <1>2, MainInvariance, PTL

=============================================================================
