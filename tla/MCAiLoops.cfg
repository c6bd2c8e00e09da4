SPECIFICATION FairSpec
CONSTANTS
    tut = tut
    stu = stu
    stu2 = stu2
    j1 = j1
    j2 = j2
    NoUser = NoUser
    NoDay = NoDay
    NoGami = NoGami
    User <- MCClass
    Named <- MCPupils
    Role <- MCRole
    Request <- MCOneJob
    MaxEvidence = 1
    MaxClock = 0
    MaxCounted = 1
    Studied <- MCNothing
    Earned <- MCEarned
INVARIANT
    TutorSeesOwn
PROPERTIES
    NobodySkipped
    JobEnds
CHECK_DEADLOCK FALSE
