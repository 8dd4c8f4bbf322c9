SPECIFICATION LiveSpec
CONSTANTS
    r1 = r1 r2 = r2 c1 = c1 c2 = c2 f1 = f1 f2 = f2 e1 = e1 gA = gA gB = gB
    Readers <- OneReader
    Changers <- OneChanger
    Refreshers <- TwoTransitions
    Editors <- Nobody
    Groups <- TwoGroups
    Warm = TRUE
    MaxVersion = 2
    MaxExpiries = 0
    MaxRedis = 1
    MaxFaults = 1
INVARIANT GroupRefreshConverges
PROPERTY FenceClears
