SPECIFICATION Spec
CONSTANTS
    MaxEdits = 1
    MaxPresses = 1
    MaxFailures = 0
    MaxExpiries = 0
    UserWaits = FALSE
CHECK_DEADLOCK FALSE
PROPERTIES
    SubmissionInSync
