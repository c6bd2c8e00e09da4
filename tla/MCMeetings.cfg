SPECIFICATION MeetSpec
CONSTANTS
    b1 = b1
    q1 = q1
    q2 = q2
    w1 = w1
    w2 = w2
    NoBatch = NoBatch
    NoConv = NoConv
    Nobody = Nobody
    UserId <- MCUserId
    Text <- MCText
    UserOf <- MCUserOf
    Batch <- MCBatch
    Request <- MCRequest
    Meet <- MCMeet
    Seed <- MCSeed
    SeedMappings <- MCMapped
SYMMETRY Sym
INVARIANTS
    MeetTypeOK
    MeetWithinGrant
    NoHiddenRoom
CHECK_DEADLOCK FALSE
