CONSTANTS
    ReadNotCommitted = FALSE
    ReservedFileCount = 2
    MemCapacity = 3
    MaxBatch = 1
    MaxMsgs = 3
    MaxTime = 1
    MaxFails = 0
    MaxLoads = 2
    ReadCount = 3
    MaxSeeks = 1
    MaxLost = 0
SPECIFICATION ReaderSpec
INVARIANTS
    SeekFindsFirst NothingSkipped NoSeekInEmptyFile
CHECK_DEADLOCK FALSE
