SPECIFICATION FairSpec
CONSTANTS
    Subs = {1, 2}
    Requests = {r1, r2}
    Amounts = {1, 2}
    Plans <- MCPlans
    PlanOf <- MCPlanOf
    Period <- MCPeriod
    Edits <- Shorter
    Total <- MCTotal
    End <- MCEnd
    BatchSize = 1
    Retention = 1
    Delay = 1
    MaxTime = 4
    MaxEvents = 1
INVARIANTS
    BoundaryAhead
    PeriodUsageExact
PROPERTIES
    BoundaryUsedOnce
    DueGetsReset
