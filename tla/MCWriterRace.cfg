SPECIFICATION Spec
CONSTANTS
    Partitions = {0, 1}
    InitSessions = {1}
    BatchSize = 2
    ConvertThreshold = 1
    MaxMsgs = 4
    MaxClears = 0
    MaxFaults = 0
INVARIANTS CheckpointIsSafe
CHECK_DEADLOCK FALSE
