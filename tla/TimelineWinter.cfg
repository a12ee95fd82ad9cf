SPECIFICATION Spec
CONSTANTS
    Offset = 60
    RecheckPhase = 7
    MaxOutage = 0
    MaxStops = 0
INVARIANTS
    HealthyDayIsTraded
CHECK_DEADLOCK FALSE
