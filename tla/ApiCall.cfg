SPECIFICATION Spec
CONSTANTS
    AllCodes <- MCCodes
    PointChunks <- MCChunks
    Writes <- MCWrites
    MaxPolls = 2
    None = None
INVARIANTS TypeOK AnswersReachCaller RefusalEndsCall FallbackComplete SentAsAsked WriteOnce
PROPERTY EveryCallEnds
CHECK_DEADLOCK FALSE
