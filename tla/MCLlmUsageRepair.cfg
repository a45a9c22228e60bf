\* One request with two repairs, changing limits, two overlapping reconcilers.
SPECIFICATION FairSpec
CONSTANTS
    u1 = u1
    Users = {u1}
    UserOf <- MCUserOf
    Bounds <- MCBounds
    StaleAfter = 1
    TicksPerDay = 1
    TicksPerMonth = 2
    Requests = {q1}
    Reconcilers = {r1, r2}
    MaxRepairs = 2
    ReportedCosts <- MCReportedCosts
    LimitChoices <- MCChangingLimits
    GlobalDailyCalls = 3
    MonthlyCostCeiling = 6
    BatchSize = 1
    MaxClock = 2
PROPERTIES
    EventuallyClosed
INVARIANTS
    DoneHoldsNothing
CHECK_DEADLOCK FALSE
