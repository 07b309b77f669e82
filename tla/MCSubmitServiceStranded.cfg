SPECIFICATION FairSpec
CONSTANTS
    Submissions = {s1}
    Workers = {w1, w2}
    MaxAttempts = 2
    MaxIdle = 2
    None = None
CHECK_DEADLOCK FALSE
PROPERTY
    AcceptedIsAnswered
