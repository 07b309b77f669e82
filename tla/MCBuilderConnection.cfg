SPECIFICATION FairSpec
CONSTANTS
    Submissions = {s1, s2}
    NoSubmission = NoSubmission
    MaxIdle = 2
    MaxConnections = 2
    MaxBreaks = 1
    MaxInFlight = 1
CHECK_DEADLOCK FALSE
INVARIANTS
    TypeOK
    MessagesExpected
    VerdictIsItsOwn
PROPERTIES
    AnsweredOrBroken
    BuilderEnds
