SPECIFICATION Spec
CONSTANTS
    Partitions = {0}
    InitSessions = {1}
    BatchSize = 2
    ConvertThreshold = 1
    MaxMsgs = 3
    MaxClears = 1
    MaxFaults = 1
INVARIANTS RefusesOnlyInMerge
CHECK_DEADLOCK FALSE
