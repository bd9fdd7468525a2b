CONSTANTS
    Node <- MCNode7
    FirstNode = 1
    InitialTours <- MCTour
    TreeTypes = {2, 3}
    Callers = {1}
    MaxStack = 2
    MaxFlips = 2
SPECIFICATION Spec
INVARIANTS
    ListIsTour BetweenIsOnPath SegmentSizeIsNearlyExact
PROPERTIES
    RestoredTour ImplementsTour
