SPECIFICATION Spec
CONSTANTS
    p1 = p1 p2 = p2 f1 = f1 relay = relay
    Pollers = {p1, p2}
    Fetchers = {f1}
    Relay = relay
    Quota = 2
    Actuals = {1, 3}
    Keep = Keep
    MaxFailures = 2
    MaxFaults = 1
SYMMETRY PollerSymmetry
CONSTRAINT Undisturbed
VIEW LiveView
INVARIANT RefundSurvives
CHECK_DEADLOCK FALSE
