SPECIFICATION FairSpec
CONSTANTS
    alice = alice
    mallory = mallory
    q1 = q1
    q2 = q2
    q3 = q3
    q4 = q4
    Users = {alice, mallory}
    Allowed = {alice}
    Requests = {q1, q2, q3, q4}
    UserOf <- Owners
    Oversized = {q3}
    Workers = 1
    PoolSize = 2
    Limit = 2
    Window = 2
    MaxCalls = 2
    MaxClock = 2
INVARIANTS TypeOK RateCap
PROPERTY EventuallyDone
CHECK_DEADLOCK FALSE
