SPECIFICATION Spec
CONSTANTS
    Devices = {d1, d2}
    Chunks = 2
    Sessions = {"owned", "injected"}
INVARIANTS TypeOK EmptyMeansQuiet DataComplete FallbackJustified
CHECK_DEADLOCK FALSE
