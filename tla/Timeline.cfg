SPECIFICATION Spec
CONSTANTS
    Offset = 0
    RecheckPhase = 7
    MaxOutage = 11
    MaxStops = 1
INVARIANTS
    FreshUnlessOutage
    HealthyDayIsTraded
CHECK_DEADLOCK FALSE
