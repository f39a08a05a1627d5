CONSTANTS
    ReadNotCommitted = TRUE
    ReservedFileCount = 2
    MemCapacity = 3
    MaxBatch = 1
    MaxMsgs = 3
    MaxTime = 0
    MaxFails = 0
    MaxLoads = 2
    ReadCount = 2
    MaxSeeks = 0
    MaxLost = 1
SPECIFICATION ReaderFairSpec
INVARIANT
    DeliveredInOrder
PROPERTY
    ReaderCatchesUp
CHECK_DEADLOCK FALSE
