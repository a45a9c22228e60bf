\* A run of the cleanup beside two requests of one family, after a third.
SPECIFICATION MCSpec
CONSTANTS
    Sessions = {s1}
    NoSession = NoSession
    Tokens = {t1, t2, t3}
    Requests = {q1, q2, q3}
    Cleaner = cleaner
    Workloads <- PairWorkload
    q1 = q1
    q2 = q2
    q3 = q3
    t1 = t1
    t2 = t2
    Lifetime = 1
    Retention = 1
    MaxClock = 3
INVARIANTS
    NoOrphanTokens
PROPERTIES
    ActiveKept
    EventuallyOver
CHECK_DEADLOCK FALSE
