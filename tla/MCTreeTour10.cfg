CONSTANTS
    Node <- MCNode10
    FirstNode = 1
    InitialTours <- MCTour
    TreeTypes = {2, 3}
    Callers = {}
    MaxStack = 2
    MaxFlips = 2
SPECIFICATION Spec
INVARIANTS
    SegmentsHoldTheirNodes SegmentsFormRing
