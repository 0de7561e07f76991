SPECIFICATION Spec
CONSTANTS
    Threads = {t1}
    Loop = loop
    Nobody = nobody
    Conns = {c1, c2}
    Listeners = {l1}
    Apps <- MCCrossed
    MaxCalls = 3
CHECK_DEADLOCK FALSE
INVARIANTS NoDeadlockAtAll
