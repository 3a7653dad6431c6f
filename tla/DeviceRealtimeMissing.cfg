SPECIFICATION Spec
CONSTANTS
    Devices = {d1}
    Chunks = 1
    Sessions = {"owned"}
INVARIANT MissingUrlReported
CHECK_DEADLOCK FALSE
