SPECIFICATION Spec
CONSTANTS
    Callers = {c1, c2}
    Authorizers = {c1}
    Margin = 2
    Timeout = 3
    ExpiresIn <- LongLives
    Replies <- RotatedOnly
    Faults = FALSE
    MaxTime = 5
    MaxGrants = 2
    None = None
INVARIANT HandedOutTokenValid
