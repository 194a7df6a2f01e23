SPECIFICATION FairSpec
CONSTANTS
    Runs = {r1, r2}
    Conversations = {c1, c2}
    RequestIds = {k1}
    Slots = {w1}
    o1 = o1
    Owners = {o1}
    OwnerOf <- MCOwnerOf
    OwnerRunLimit = 1
    LegacyRuns = {r2}
    NoRun = NoRun
    MaxFaults = 1
    MaxInterrupts = 1
PROPERTIES
    EveryRunSettles
    DeletionConverges
CHECK_DEADLOCK FALSE
