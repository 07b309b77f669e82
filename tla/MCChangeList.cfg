SPECIFICATION FairSpec
CONSTANTS
    MaxChanges = 4
    MaxFailures = 2
CHECK_DEADLOCK FALSE
INVARIANTS
    TypeOK
    NoChangeLost
    CleanMeansStored
    ListConsistent
    InOrderUntilFailure
PROPERTIES
    EveryChangeStored
