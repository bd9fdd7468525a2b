SPECIFICATION Spec
CONSTANTS
    N = 10
    Costs <- MCCosts
    Tours2 <- MCTours2
CHECK_DEADLOCK FALSE
INVARIANTS
    ShrunkenToursAreTours ReturnsBetterTour
