SPECIFICATION FairSpec
CONSTANTS
    Partitions = {0, 1}
    InitSessions <- NoSession
    BatchSize = 2
    ConvertThreshold = 1
    MaxMsgs = 2
    MaxClears = 0
    MaxFaults = 1
INVARIANTS PartCheckpointIsSafe RefusesOnlyInMerge
PROPERTIES EventuallyCheckpointed
CHECK_DEADLOCK FALSE
