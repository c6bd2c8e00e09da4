SPECIFICATION FairSpec
CONSTANTS
    a = a
    b = b
    t1 = t1
    t2 = t2
    Page = {a, b}
    Task = {t1, t2}
    MaxIssued = 5
    MaxMoves = 5
INVARIANTS
    TypeOK
    KeepsSession
PROPERTY CallEnds
CHECK_DEADLOCK FALSE
