CONSTANTS
    n1 = n1  n2 = n2  n3 = n3  n4 = n4  n5 = n5
    Node <- MCNode5
    NIL = NIL
    FirstNode = n1
    InitialTours <- MCTour5
    Callers = {n1}
    MaxStack = 2
    MinRank = 1
SPECIFICATION Spec
INVARIANTS
    ListIsTour BetweenIsOnPath SegmentSizeIsExact
PROPERTIES
    RestoredTour ImplementsTour RestoreReturns
