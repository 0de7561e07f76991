SPECIFICATION FairSpec
CONSTANTS
    Threads = {t1, t2}
    Loop = loop
    Nobody = nobody
    Conns = {c1, c2}
    Listeners = {l1}
    Apps <- MCApps
    MaxCalls = 3
CHECK_DEADLOCK FALSE
INVARIANTS Consistent KnownIsFound UsesSession TornDown NoDeadlock
PROPERTIES WaitsEnd
