SPECIFICATION Spec
CONSTANTS
    Tickers = {A}
    A = A
    Lot = 1
    MaxRounds = 1
    RoundCap = 1
    Pyramiding = FALSE
    PartialTakeProfit = FALSE
    Faults = {"restart"}
    Slots = 2
    MaxHeld = 2
    MaxFaults = 1
    MaxDate = 1
    LastPhase = "after"
INVARIANTS
    RoundsPerDay
CHECK_DEADLOCK FALSE
