SPECIFICATION Spec
CONSTANTS
    Requests = {r1, r2}
    Preferences = {"subscription_only", "wallet_only", "wallet_first", "subscription_first"}
    Quotas = {1, 2}
    FeeQuota = 1
    InitQuota = 2
    InitRemain = 3
    SubTotal = 2
    TrustQuota = 0
    Playground = {}
    AsyncTasks = {}
    TokenUnlimited = FALSE
    WalletOverflow = TRUE
    MaxFaults = 1
SYMMETRY Symmetry
INVARIANTS
    SettledFundingExact
    FailedRequestFree
    NeverOverRefunded
    SubscriptionWithinTotal
    DebtIsPostpaid
    SubscriptionBooksBalance
