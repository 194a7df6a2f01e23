SPECIFICATION Spec
CONSTANTS
    Workers = {w1, w2}
    OwnerIds = {o1, o2}
    SessionIds = {s1, s2}
    ConvIds = {c1}
    Names = {n1}
    Passwords = {p, q}
    Nobody = Nobody
    RefreshGrace = 1
    AccessTtl = 1
    GuestTtl = 1
    AccountTtl = 2
    GuestLimit = 1
    MaxClock = 1
    MaxTokens = 3
SYMMETRY Symmetry
CHECK_DEADLOCK FALSE
INVARIANTS PasswordChangeEvicts 
PROPERTIES TokenReplacedByItsHolder
