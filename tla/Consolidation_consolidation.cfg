SPECIFICATION Spec
CONSTANTS
    a = a
    b = b
    Values = {a, b}
    Contents <- MCContents
    Workers = {w1}
    Window = 3
    SegmentSize = 2
    MaxAttempts = 2
    OtherOwners = TRUE
    MaxTurns = 2
    MaxFacts = 10
    MaxChanges = 2
    MaxFaults = 1
INVARIANTS CursorSkipsNothing OneActiveFact
PROPERTIES ConsolidationConverges
CHECK_DEADLOCK FALSE
