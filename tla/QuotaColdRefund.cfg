SPECIFICATION QuotaSpec
CONSTANTS
    Callers = {c1, c2, c3}
    Operations = {"reserve", "increase"}
    QuotaAmounts = {1, 2}
    Deployments <- ColdToken
    InitQuota = 2
    MaxQuota = 4
    MaxExpiries = 0
    MaxRedis = 0
    MaxFaults = 0
SYMMETRY Symmetry
INVARIANTS
    NoOverReserve
