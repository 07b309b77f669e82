SPECIFICATION VisitsFairSpec
CONSTANTS
    MaxEdits = 2
    MaxPresses = 2
    MaxFailures = 2
    MaxExpiries = 1
    UserWaits = TRUE
CHECK_DEADLOCK FALSE
INVARIANTS
    VisitsTypeOK
    RevisitShowsSaved
    StoredWasShown
    LockedWhileBusy
    PendingWillRun
    PollsForSubmission
PROPERTIES
    InSyncUnlessOvertaken
    PendingRuns
    CallbackCompletesUnlessTaken
