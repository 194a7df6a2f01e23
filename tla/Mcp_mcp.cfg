SPECIFICATION McpSpec
CONSTANTS
    a = a
    b = b
    Servers = {a, b}
    Tools = {x}
    Threads = {t1}
    Tasks = {k1, k2}
    Requests <- MCRequests
    MaxOps = 3
INVARIANTS
    NothingLeftBehind
    LoneChangeRepairs
CHECK_DEADLOCK FALSE
PROPERTY
    CallsEnd
