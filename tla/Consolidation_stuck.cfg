SPECIFICATION Spec
CONSTANTS
    a = a
    b = b
    Values = {a, b}
    Contents <- MCContents
    Workers = {w1}
    Window = 3
    SegmentSize = 2
    MaxAttempts = 2
    OtherOwners = FALSE
    MaxTurns = 1
    MaxFacts = 4
    MaxChanges = 1
    MaxFaults = 0
PROPERTY PurgeFinishes
CHECK_DEADLOCK FALSE
