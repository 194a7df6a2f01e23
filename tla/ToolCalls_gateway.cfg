SPECIFICATION Spec
CONSTANTS
    CallCount = 3
    RiskOf <- MCRiskOf
    RetryAttempts = 1
    Slots = {w1, w2}
    NoSlot = NoSlot
    MaxFaults = 1
SYMMETRY MCSymmetry
INVARIANTS
    NothingRunsUnapproved
    CallsRunInOrder
    EffectsBounded
    AnswersAreComplete
CHECK_DEADLOCK FALSE
