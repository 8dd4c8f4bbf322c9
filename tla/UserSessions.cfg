SPECIFICATION Spec
CONSTANTS
    Sids = {s1, s2}
    Requests = {r1, r2, r3}
    FirstSid = s1
    NoSid = NoSid
    Ops = {"validate", "refresh", "revoke", "logout", "bulk", "advance", "login"}
    TTL = 1
    Grace = 0
    CleanupAge = 1
    IssuanceWindow = 2
    IssuanceLimit = 2
    ActiveLimit = 1
    Horizon = 2
    MaxVersion = 2
    MaxGen = 2
    MaxInFlight = 2
    MaxRedis = 1
SYMMETRY RequestSymmetry
VIEW LiveView
CHECK_DEADLOCK FALSE
INVARIANT TypeOK
PROPERTY GrantWithinWindow
PROPERTY TombstoneIsFinal
PROPERTY GenerationNeverRegresses
