SPECIFICATION Spec
CONSTANTS
    Partitions = {0}
    InitSessions <- AnySession
    BatchSize = 2
    ConvertThreshold = 1
    MaxMsgs = 3
    MaxClears = 1
    MaxFaults = 2
INVARIANTS NothingLost UncommittedMatchLog InOrder
PROPERTIES ImplementsSink BrokerIsPartitionLog
CHECK_DEADLOCK FALSE
