SPECIFICATION FairSpec
CONSTANTS
    Problems <- MCProblems
    MaxTests = 2
    MaxPolls = 1
    NumPauses = 2
    ExpectsBlank = FALSE
INVARIANTS TypeOK JudgedOnWholeRun EveryTestHasAResult
PROPERTIES TestCompletes ThreadsEnd
CHECK_DEADLOCK FALSE
