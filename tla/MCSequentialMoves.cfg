CONSTANTS
    N = 10
    MoveTypes = {2, 3, 4, 5}
SPECIFICATION Spec
CHECK_DEADLOCK FALSE
INVARIANTS
    MoveIsTheExchange AllMovesConsidered
