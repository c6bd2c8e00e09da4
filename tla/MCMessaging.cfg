SPECIFICATION Spec
CONSTANTS
    b1 = b1
    q1 = q1
    q2 = q2
    q3 = q3
    NoBatch = NoBatch
    NoConv = NoConv
    Nobody = Nobody
    UserId <- MCUserId
    Text <- MCText
    UserOf <- MCUserOf
    Batch <- MCBatch
    Request <- MCRequest
    Seed <- MCSeed
    SeedMappings <- MCMapped
SYMMETRY Sym
INVARIANTS
    TypeOK
    CommunicationIsMutual
    ListsAgree
    SecondDmIsRespelt
    OpenWithinGrant
    EveryChatTied
    MembersOnly
PROPERTY
    KeepsPromise
CHECK_DEADLOCK FALSE
