SPECIFICATION Spec
CONSTANTS
    Loop = loop
    Threads = {t1, t2}
    Docs = {d1}
    MaxVersions = 3
    MaxCrashes = 1
    MaxErrors = 1
CHECK_DEADLOCK FALSE
INVARIANTS ReadyIsSearchable NoStaleEntries
