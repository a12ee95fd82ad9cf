SPECIFICATION Spec
CONSTANTS
    Tickers = {A}
    A = A
    Lot = 1
    MaxRounds = 1
    RoundCap = 1
    Pyramiding = FALSE
    PartialTakeProfit = FALSE
    Faults = {}
    Slots = 2
    MaxHeld = 2
    MaxFaults = 0
    MaxDate = 2
    LastPhase = "after"
INVARIANTS
    RoundsArePerDay
CHECK_DEADLOCK FALSE
