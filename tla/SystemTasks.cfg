SPECIFICATION LiveSpec
CONSTANTS
    r1 = r1 r2 = r2 Nobody = Nobody
    Tasks = {1, 2}
    KeyPlans <- OneOrTwoKeys
    Runners = {r1, r2}
    TTL = 1
    MaxDelay = 1
    MaxFaults = 1
INVARIANTS
    TypeOK
    RunningIsCovered
PROPERTIES
    ImplementsTurns
    TasksEnd
