SPECIFICATION FairSpec
CONSTANTS
    v1 = v1
    v2 = v2
    p1 = p1
    p2 = p2
    Pages <- MCPages
    Problems <- MCProblems
    NoProblem = NoProblem
    MaxSubmissions = 2
    MaxLogouts = 1
    Openings <- MCOpenings
    AttributeOrder <- MCAttributeOrder
CHECK_DEADLOCK FALSE
INVARIANTS
    TypeOK
    TestedAsIntended
    ResultsRecorded
PROPERTIES
    PollingEnds
