SPECIFICATION Spec
CONSTANTS
    Callers = {c1, c2, c3}
    DirectLogins = {c1}
    SingleSession = TRUE
    Faults = TRUE
    MaxLogins = 2
    MaxDrops = 1
    None = None
INVARIANTS TypeOK PostedTokenReal LoginsJustified RetryUsesAnotherToken LoginsSerialised
PROPERTY EveryCallReturns
