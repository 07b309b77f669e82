SPECIFICATION FairSpec
CONSTANTS
    Submissions = {s1, s2}
    Workers = {w1, w2}
    MaxAttempts = 1
    MaxIdle = 2
    None = None
CHECK_DEADLOCK FALSE
INVARIANTS
    TypeOK
    OnePlace
    NotLost
    ReadyHasVerdict
    StopWaitsForTold
PROPERTIES
    ImplementsFuture
    AnsweredIfServed
    ShutdownEnds
