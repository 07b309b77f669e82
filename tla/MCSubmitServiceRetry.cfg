SPECIFICATION Spec
CONSTANTS
    Submissions = {s1}
    Workers = {w1, w2}
    MaxAttempts = 2
    MaxIdle = 2
    None = None
SYMMETRY Symmetry
CHECK_DEADLOCK FALSE
INVARIANT
    CompletedGivesResult
