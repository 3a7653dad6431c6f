SPECIFICATION Spec
CONSTANTS
    Callers = {c1, c2}
    DirectLogins = {}
    SingleSession = FALSE
    Faults = FALSE
    MaxLogins = 3
    MaxDrops = 1
    None = None
INVARIANT OneLoginPerLostSession
