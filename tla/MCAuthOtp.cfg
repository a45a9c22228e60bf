\* Two requests for a code that may overlap, or one after two that have, and two
\* verifications.
SPECIFICATION ReachedSpec
CONSTANTS
    Codes = {c1, c2, c3}
    WrongCode = WrongCode
    Senders = {s1, s2, s3}
    Verifiers = {v1, v2}
    NoUser = NoUser
    Ttl = 1
    Window = 1
    RateLimit = 1
    MaxAttempts = 1
    MaxClock = 1
SYMMETRY Symmetry
INVARIANTS
    TypeOK
    ConsumedOnce
    StoredWasMailed
    UsedForAReason
    NobodyStuck
    WaitsAreCircles
PROPERTIES
    FollowsPromise
CHECK_DEADLOCK FALSE
