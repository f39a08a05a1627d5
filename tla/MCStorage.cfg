CONSTANTS
    ReadNotCommitted = TRUE
    ReservedFileCount = 2
    MemCapacity = 4
    MaxBatch = 2
    MaxMsgs = 4
    MaxTime = 1
    MaxFails = 1
    MaxLoads = 2
SPECIFICATION FairSpec
INVARIANTS
    UncommittedInMemory
    CommittedIndexAgrees
    CommittedIsDurable
    MemDiskAgree
    ReusedPairIsEmpty
    TypeOK
PROPERTIES
    ImplementsPartitionLog
    CommittedNeverLost
    EventuallyCommitted
    UnloadEnds
CHECK_DEADLOCK FALSE
