SPECIFICATION Spec
CONSTANTS
    Logs = {1, 3, 4, 6}
    Rewritten = {1, 4, 6}
    Sinks = {1, 2}
    HasFields <- SomeFields
    StartOffset <- NoOffset
    MaxPerLoop = 2
    EndVisible = 7
    MaxFaults = 0
INVARIANTS NothingSkipped
CHECK_DEADLOCK FALSE
