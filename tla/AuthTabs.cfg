CONSTANTS
    t1 = t1  t2 = t2
    Tabs = {t1, t2}
    None = None
    MaxSid = 2
    MaxIncidents = 1
SPECIFICATION TabSpec
INVARIANTS TabTypeOK ReuseNeedsLoss QuietTabsAgree
PROPERTY SignedOutStaysOut
SYMMETRY TabSymmetry
CHECK_DEADLOCK FALSE
VIEW LiveView
