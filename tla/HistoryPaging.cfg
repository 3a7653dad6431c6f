SPECIFICATION Spec
CONSTANTS
    Starts <- MCStarts
    Ends <- MCEnds
    Windows <- MCWindows
    Horizon = 8
    Late = TRUE
INVARIANTS TypeOK Chronological NoGaps Complete WithinWholeSeconds
PROPERTY IterationEnds
CHECK_DEADLOCK FALSE
