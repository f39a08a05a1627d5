SPECIFICATION FairSpec
CONSTANTS
    r1 = r1
    r2 = r2
    NoReader = NoReader
    Readers <- TwoReaders
    filter <- TheFilters
    InitLogs <- TheLogs
    Batches <- TheBatches
    From = 2
    To = 5
    Bits = 2
    MaxRetry = 2
    MaxMsgs = 2
    MaxRefused = 1
INVARIANTS
    TypeOK
    NoWakeUpIsLost
    StopLeavesNoRequest
PROPERTIES
    EveryRequestIsAnswered
CHECK_DEADLOCK FALSE
