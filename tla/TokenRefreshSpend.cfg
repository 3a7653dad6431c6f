SPECIFICATION Spec
CONSTANTS
    Callers = {c1, c2}
    Authorizers = {c1}
    Margin = 1
    Timeout = 2
    ExpiresIn <- ShortLives
    Replies <- MissingExpiry
    Faults = FALSE
    MaxTime = 3
    MaxGrants = 3
    None = None
INVARIANT SpentTokenNeverPresented
