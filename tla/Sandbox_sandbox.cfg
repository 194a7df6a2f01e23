SPECIFICATION Spec
CONSTANTS
    r1 = r1
    Runs = {r1}
    Ops = {o1, o2}
    RunOf <- MCRunOf
    Skills = {s}
    MaxVersion = 2
    MaxRequests = 3
    MaxFaults = 1
    MaxCrashes = 1
    Free = Free
INVARIANTS
    OneContainerPerOperation
    ContainersHoldBoundSkills
SYMMETRY Symmetry
CHECK_DEADLOCK FALSE
