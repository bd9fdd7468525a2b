CONSTANTS
    best = best  middle = middle  other = other
    Tour <- MCTour
    CostOf <- MCCostOf
    OrdinalTour = other
    NoTour = NoTour
    MaxCost = 9
    Threads = 1
    Runs = 1
    MaxTrials = 1
    StopAtOptimum = TRUE
    KnownOptimum = 0
    MaxCalls = 2
SPECIFICATION Spec
CHECK_DEADLOCK FALSE
PROPERTIES
    Gain23StartsInProblem
