\* A provider reports more than the reserved bound.
SPECIFICATION Spec
CONSTANTS
    u1 = u1
    Users = {u1}
    UserOf <- MCUserOf
    Bounds <- MCBounds
    StaleAfter = 1
    TicksPerDay = 1
    TicksPerMonth = 2
    Requests = {q1, q2}
    Reconcilers = {r1}
    MaxRepairs = 0
    ReportedCosts <- MCExcessCosts
    LimitChoices <- MCFixedLimits
    GlobalDailyCalls = 5
    MonthlyCostCeiling = 5
    BatchSize = 2
    MaxClock = 2
INVARIANTS
    CostCeiling
CHECK_DEADLOCK FALSE
