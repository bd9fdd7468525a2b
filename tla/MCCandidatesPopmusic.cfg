CONSTANTS
    N = 5
    Types = {"POPMUSIC"}
    Problems <- MCProblems
    INT_MAX = 1000
    MaxCandidates = 2
    InitialStepSize = 1
    InitialPeriod = 4
    Excess = 30
SPECIFICATION Spec
INVARIANTS
    SolvedIsOptimal
