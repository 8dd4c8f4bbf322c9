SPECIFICATION Spec
CONSTANTS
    Workers = {w1, w2, w3}
    Orders = {o1}
    Plans <- TwoPlans
    OrderPlan <- MCOrderPlan
    Upgrade <- MCUpgrade
    Downgrade <- MCDowngrade
    Limit <- MCLimit
    Price <- MCPrice
    Duration <- MCDuration
    BaseGroup = "default"
    InitWallet = 2
    MaxSubs = 3
    MaxTime = 1
    MaxFaults = 1
SYMMETRY Symmetry
INVARIANTS
    OneSubscriptionPerOrder
    PurchaseLimitHolds
    WalletPaysForPurchases
PROPERTIES
    UpgradeSurvivesRequests
