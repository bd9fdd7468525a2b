--------------------------------- MODULE Main ---------------------------------
(***************************************************************************)
(* The program (src/main.cpp): the main thread starts a thread that solves *)
(* the problem, polls for its end and for SIGINT, joins it and writes the  *)
(* tour.  The solving thread is the caller of module Solver; here only the *)
(* main thread calls LKHcpp::stop.                                         *)
(***************************************************************************)
EXTENDS Solver

ASSUME OneCall == MaxCalls = 1

VARIABLES
    g_stop,         \* set by the handler of SIGINT
    solve_done,     \* set by the solving thread at its end
    tour_file,      \* assigned by the solving thread
    main,           \* the main thread: "polling", "joining" or "exited"
    output          \* the tour that was written, NoTour if none was

mainVars == <<g_stop, solve_done, tour_file, main, output>>

allVars == <<vars, mainVars>>

MainInit ==
    /\ Init
    /\ g_stop = FALSE
    /\ solve_done = FALSE
    /\ tour_file = NoAnswer
    /\ main = "polling"
    /\ output = NoTour

\* SIGINT.
HandleSigInt ==
    /\ ~g_stop
    /\ g_stop' = TRUE
    /\ UNCHANGED <<vars, solve_done, tour_file, main, output>>

\* The solving thread is inside lkh.Solve.
Library ==
    /\ Call \/ Serve \/ \E i \in Thread : Solve(i)
    /\ UNCHANGED mainVars

\* Mutant: the end is not announced when lkh.Solve throws.
SolverThreadEnds_Silently ==
    /\ caller.pc = "idle" /\ caller.calls = 1 /\ ~solve_done
    /\ solve_done' = (answer.kind # "exception")
    /\ tour_file' = IF answer.kind = "exception" THEN tour_file ELSE answer
    /\ UNCHANGED <<vars, g_stop, main, output>>

\* lkh.Solve has returned, or thrown what the thread catches.
SolverThreadEnds ==
    /\ caller.pc = "idle" /\ caller.calls = 1 /\ ~solve_done
    /\ solve_done' = TRUE
    /\ tour_file' = IF answer.kind = "exception" THEN tour_file ELSE answer
    /\ UNCHANGED <<vars, g_stop, main, output>>

\* The main thread wakes up: the solver is done, or is told to stop.  When there
\* is neither it sleeps again.
PollDone ==
    /\ main = "polling" /\ solve_done
    /\ main' = "joining"
    /\ UNCHANGED <<vars, g_stop, solve_done, tour_file, output>>

PollInterrupt ==
    /\ main = "polling" /\ ~solve_done /\ g_stop
    /\ Stop
    /\ main' = "joining"
    /\ UNCHANGED <<g_stop, solve_done, tour_file, output>>

\* The tour, if there is one, is written to the file, if it can be opened.
Write ==
    /\ main' = "exited"
    /\ output' \in {NoTour, tour_file.tour}
    /\ UNCHANGED <<vars, g_stop, solve_done, tour_file>>

\* Mutant: the solving thread is not joined.
Exit_NoJoin == main = "joining" /\ Write

\* The solving thread is joined.
Exit == main = "joining" /\ solve_done /\ Write

MainNext ==
    \/ HandleSigInt \/ Library \/ SolverThreadEnds
    \/ PollDone \/ PollInterrupt \/ Exit

\* The threads are scheduled; a signal need not come.
MainFairness ==
    /\ WF_allVars((Call \/ Serve) /\ UNCHANGED mainVars)
    /\ \A i \in Thread : WF_allVars(Solve(i) /\ UNCHANGED mainVars)
    /\ WF_allVars(SolverThreadEnds)
    /\ WF_allVars(PollDone \/ PollInterrupt \/ Exit)

MainSpec == MainInit /\ [][MainNext]_allVars /\ MainFairness

-----------------------------------------------------------------------------

\* The program's exit leaves no thread of the solver running, and what it wrote
\* is, if anything, the answer of lkh.Solve, and no trial of any thread has found a
\* cheaper tour: also when SIGINT came while the solver was returning.
ExitsWithAnswer ==
    main = "exited" =>
        /\ caller.pc = "idle" /\ caller.calls = 1
        /\ \A i \in Thread : Finished(i)
        /\ output # NoTour =>
              /\ answer.kind = "tour" /\ output = answer.tour
              /\ \A i \in Thread : CostOf[output] <= thread[i].low

\* The program ends, whatever the solver throws and whenever the signal comes.
ProgramEnds == <>(main = "exited")

=============================================================================
