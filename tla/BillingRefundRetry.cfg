SPECIFICATION Spec
CONSTANTS
    Requests = {r1, r2}
    Preferences = {"subscription_only"}
    Quotas = {1, 2}
    FeeQuota = 0
    InitQuota = 2
    InitRemain = 3
    SubTotal = 4
    TrustQuota = 0
    Playground = {}
    AsyncTasks = {}
    TokenUnlimited = FALSE
    WalletOverflow = TRUE
    MaxFaults = 1
INVARIANTS
    SubscriptionUsageKept
