SPECIFICATION Spec
CONSTANTS
    Workers = {w1, w2}
    Orders = {o1}
    Plans <- OnePlan
    OrderPlan <- MCOrderPlan
    Upgrade <- MCUpgrade
    Downgrade <- MCDowngrade
    Limit <- MCLimit
    Price <- MCPrice
    Duration <- MCDuration
    BaseGroup = "default"
    InitWallet = 2
    MaxSubs = 2
    MaxTime = 2
    MaxFaults = 0
SYMMETRY Symmetry
INVARIANTS
    ActiveUpgradeKeepsGroup
