SPECIFICATION Spec
CONSTANTS
    MockScore <- MCMockScore
    MaxMoves = 4
INVARIANTS
    TypeOK
    EffortPays
    Explained
CHECK_DEADLOCK FALSE
