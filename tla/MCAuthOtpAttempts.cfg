\* Failed attempts are rolled back.
SPECIFICATION Spec
CONSTANTS
    Codes = {c1}
    WrongCode = WrongCode
    Senders = {s1}
    Verifiers = {v1, v2}
    NoUser = NoUser
    Ttl = 1
    Window = 1
    RateLimit = 2
    MaxAttempts = 2
    MaxClock = 0

INVARIANTS
    AttemptsCount
CHECK_DEADLOCK FALSE
