SPECIFICATION Spec
CONSTANTS
    N = 5
    MoveTypes <- MCMoveTypes
    MaxSwaps = 5
    Gain23Used = TRUE
    Instances <- MCInstances
    MayStop = TRUE
    MayBeLate = TRUE
INVARIANTS
    OldTourIsKnown CostIsKept PassiveNodesWereTried HitLosesNothing BestIsKept
PROPERTIES
    RunsEnd
