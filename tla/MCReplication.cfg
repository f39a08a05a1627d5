SPECIFICATION FairSpec
CONSTANTS
    Logs = {1, 3, 4, 6}
    Rewritten = {1, 4, 6}
    Sinks = {1, 2}
    HasFields <- SomeFields
    StartOffset = 1
    MaxPerLoop = 2
    EndVisible = 7
    MaxFaults = 3
INVARIANTS StoredIsComplete NothingSkipped ConsumedCoversPersisted
PROPERTIES EventuallyReplicated EventuallyStored StoredNeverGoesBack SinksKeepContract
CHECK_DEADLOCK FALSE
