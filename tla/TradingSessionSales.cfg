SPECIFICATION Spec
CONSTANTS
    Tickers = {A}
    A = A
    Lot = 2
    MaxRounds = 1
    RoundCap = 1
    Pyramiding = FALSE
    PartialTakeProfit = TRUE
    Faults = {}
    Slots = 2
    MaxHeld = 2
    MaxFaults = 0
    MaxDate = 1
    LastPhase = "after"
INVARIANTS
    NoDuplicateSale
CHECK_DEADLOCK FALSE
