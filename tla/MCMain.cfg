CONSTANTS
    best = best  other = other
    Tour <- MCTour
    CostOf <- MCCostOf
    OrdinalTour = other
    NoTour = NoTour
    MaxCost = 9
    Threads = 2
    Runs = 2
    MaxTrials = 2
    StopAtOptimum = TRUE
    KnownOptimum = 2
    MaxCalls = 1
SPECIFICATION MainSpec
CHECK_DEADLOCK FALSE
INVARIANTS
    ExitsWithAnswer RunsAreMade ThreadsJoined StopsPromptly BestSoFar
PROPERTIES
    ProgramEnds AnswerIsBest
