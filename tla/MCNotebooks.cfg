SPECIFICATION ContextSpec
CONSTANTS
    alice = alice
    bob = bob
    n1 = n1
    q1 = q1
    q2 = q2
    q3 = q3
    Users = {alice, bob}
    NoUser = NoUser
    Notebooks = {n1}
    DemoId <- DemoIds
    CurrentFormat = 1
    Requests = {q1, q2, q3}
    Workloads <- AnyThree
    Seeds <- SomeSeeds
    MaxClock = 1
    MaxCells = 3
    FutureSkew = 0
    MaxItems = 2
    ByteCap = 3
    MinSummary = 1
    MaxSource = 2
INVARIANTS TypeOK StoredIsReadable CommittedEditsStand UpdatedIsNear ContextFits
PROPERTIES RevivedByRestoreOrOverlap ClearedStaysCleared
CHECK_DEADLOCK FALSE
