SPECIFICATION Spec
CONSTANTS
    Facts = {f1, f2}
    Sources = {s1}
    Workers = {w1, w2}
    Nobody = Nobody
    OwnerMayLeave = TRUE
    GraphModes = {TRUE}
    MaxRevision = 3
    MaxFaults = 1
SYMMETRY Symmetry
INVARIANTS GraphTellsTheTruth EdgesMatchFacts PurgeIsReal
PROPERTIES RecallServesCurrent
CHECK_DEADLOCK FALSE
