\* Four requests of one family: enough for a token that a revocation overlooks
\* to be used, and for a logout in between.
SPECIFICATION Spec
CONSTANTS
    Sessions = {s1}
    NoSession = NoSession
    Tokens = {t1, t2, t3, t4}
    Requests = {q1, q2, q3, q4}
    Workloads <- OneLogout
    Lifetime = 1
    MaxClock = 1
SYMMETRY Symmetry
CONSTRAINT LateTick
INVARIANTS
    TypeOK
    OneCurrentToken
    ReportedIsEnded
    NothingAfterClose
PROPERTIES
    ImplementsFamilies
CHECK_DEADLOCK FALSE
