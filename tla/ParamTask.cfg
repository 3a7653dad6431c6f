SPECIFICATION Spec
CONSTANTS
    Calls = {w1, w2}
    Expire = 3
    ClientTimeout = 3
    FirstPoll = 1
    PollInterval = 2
    Latency = 2
    StartBy = 1
INVARIANTS TypeOK TimeoutMeansOver BoundedCall
PROPERTIES NoWriteBehindAnAnswer EveryCallEnds KeepsPromise
CHECK_DEADLOCK FALSE
