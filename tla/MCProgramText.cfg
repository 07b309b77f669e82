SPECIFICATION Spec
CONSTANTS
    x = x
    Chars = {x}
    NL = NL
    Skeletons <- MCSkeletons
    Pastes <- MCPastes
    MaxLength = 5
    MaxDocument = 6
    MaxUndo = 1
    MaxStray = 2
CHECK_DEADLOCK FALSE
INVARIANTS
    TypeOK
    LineIntegrity
    LoadedIsShown
