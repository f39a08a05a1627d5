SPECIFICATION Spec
CONSTANTS
    w1 = w1
    w2 = w2
    Workers <- MCWorkers
    Keyed <- MCKeyed
    Skew <- MCSkew
    NoOne = NoOne
    Gone = Gone
    Lease = 10
    ForbidTime = 1
    MaxSkew = 1
    Interval = 1
    MaxInterval = 1
    LockDelay = 1
    CheckDelay = 1
    MaxTime = 25
    MaxFaults = 1
INVARIANTS
    OneLeader
    LeaderIsPublished
    OutageIsBounded
PROPERTIES
    LeaseIsNotStolen
    LeaderIsStable
CHECK_DEADLOCK FALSE
