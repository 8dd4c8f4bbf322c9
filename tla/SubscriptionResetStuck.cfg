SPECIFICATION FairSpec
CONSTANTS
    Subs = {1, 2}
    Requests = {r1}
    Amounts = {1}
    Plans <- MCPlans
    PlanOf <- MCPlanOf
    Period <- InTurn
    Edits <- Off
    Total <- MCTotal
    End <- LongLived
    BatchSize = 1
    Retention = 1
    Delay = 0
    MaxTime = 4
    MaxEvents = 1
PROPERTY
    DueGetsReset
