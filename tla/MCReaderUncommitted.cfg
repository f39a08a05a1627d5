CONSTANTS
    ReadNotCommitted = TRUE
    ReservedFileCount = 2
    MemCapacity = 3
    MaxBatch = 1
    MaxMsgs = 3
    MaxTime = 2
    MaxFails = 0
    MaxLoads = 1
    ReadCount = 2
    MaxSeeks = 1
    MaxLost = 0
SPECIFICATION ReaderSpec
INVARIANTS
    SeekFindsFirst
CHECK_DEADLOCK FALSE
