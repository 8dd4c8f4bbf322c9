SPECIFICATION FairSpec
CONSTANTS
    Requests = {r1, r2}
    Preferences = {"subscription_only", "wallet_only", "wallet_first", "subscription_first"}
    Quotas = {0, 2}
    FeeQuota = 1
    InitQuota = 3
    InitRemain = 3
    SubTotal = 2
    TrustQuota = 1
    Playground = {r1}
    AsyncTasks = {}
    TokenUnlimited = TRUE
    WalletOverflow = FALSE
    MaxFaults = 1
PROPERTIES
    ImplementsLedger
    RequestsEnd
