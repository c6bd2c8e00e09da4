SPECIFICATION Spec
CONSTANTS
    tut = tut
    stu = stu
    stu2 = stu2
    j1 = j1
    j2 = j2
    NoUser = NoUser
    NoDay = NoDay
    NoGami = NoGami
    User <- MCStudent
    Named <- MCStudent
    Role <- MCRole
    Request <- MCTwoJobs
    MaxEvidence = 2
    MaxClock = 0
    MaxCounted = 2
    Studied <- MCStudied
    Earned <- MCEarned
INVARIANT StreakCountsDays
CHECK_DEADLOCK FALSE
