SPECIFICATION Spec
CONSTANTS
    Interval = 4
    MaxSend = 2
    MaxFails = 2
    MaxTime = 20
    None = None
INVARIANTS TypeOK StopsPromptly GapBounded
PROPERTY LoopGoesOn
CHECK_DEADLOCK FALSE
