SPECIFICATION Spec
CONSTANTS
    r1 = r1 r2 = r2 c1 = c1 c2 = c2 f1 = f1 f2 = f2 e1 = e1 gA = gA gB = gB
    Readers <- TwoReaders
    Changers <- TwoChangers
    Refreshers <- Nobody
    Editors <- OneEditor
    Groups <- OneGroup
    Warm = TRUE
    MaxVersion = 3
    MaxExpiries = 1
    MaxRedis = 1
    MaxFaults = 1
SYMMETRY ReadersAndChangers
INVARIANT NoStaleAuthority
