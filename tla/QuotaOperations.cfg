SPECIFICATION QuotaSpec
CONSTANTS
    Callers = {c1, c2, c3}
    Operations = {"reserve", "increase", "decrease"}
    QuotaAmounts = {1, 2}
    Deployments <- AllDeployments
    InitQuota = 2
    MaxQuota = 4
    MaxExpiries = 1
    MaxRedis = 1
    MaxFaults = 1
SYMMETRY Symmetry
INVARIANTS
    QuotaTypeOK
    BooksBalance
    SteadyReservesFit
    QuietCacheAgrees
