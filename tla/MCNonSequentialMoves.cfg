CONSTANTS
    N = 12
SPECIFICATION Spec
CHECK_DEADLOCK FALSE
INVARIANTS
    MoveIsTheExchange SideIsACycle
