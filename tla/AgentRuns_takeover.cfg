SPECIFICATION Spec
CONSTANTS
    Runs = {r1, r2}
    Conversations = {c1}
    RequestIds = {k1, k2}
    Slots = {w1, w2}
    o1 = o1
    Owners = {o1}
    OwnerOf <- MCOwnerOf
    OwnerRunLimit = 1
    LegacyRuns = {}
    NoRun = NoRun
    MaxFaults = 1
    MaxInterrupts = 1
SYMMETRY MCSymmetry
INVARIANTS
    OneActiveRunPerConversation
    CancelNeverLosesToSuccess
    DeletionReachesActiveRuns
    EventsTellTheTruth
    OneClaimHolder
    SucceededRunIsAnswered
    RequestsNameTheirRuns
PROPERTIES
    StatusDiscipline
    ImplementsLifecycle
CHECK_DEADLOCK FALSE
