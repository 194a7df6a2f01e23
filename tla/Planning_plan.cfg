SPECIFICATION FairSpec
CONSTANTS
    NodeIds = {n1, n2, n3}
    RiskyNodes = {n1}
    Groups = {g}
    NoGroup = NoGroup
    MaxNodes = 3
    AppendLimit = 1
    MaxReplan = 2
    MaxParallel = 2
    PlanMode = FALSE
    RagLoaded = TRUE
    MaxCrashes = 1
INVARIANTS
    PlanNeverStuck
    OneSuccessPerNode
    OutcomesDoNotFork
    SinglesRunOnce
PROPERTIES
    PlanningEnds
CHECK_DEADLOCK FALSE
