SPECIFICATION Spec
CONSTANTS
    AllCodes <- MCCodes
    PointChunks <- MCChunks
    Writes = {}
    MaxPolls = 1
    None = None
INVARIANT DeviceListReachesCaller
CHECK_DEADLOCK FALSE
