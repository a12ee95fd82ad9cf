SPECIFICATION Spec
CONSTANTS
    Tickers = {A}
    A = A
    Lot = 1
    MaxRounds = 1
    RoundCap = 1
    Pyramiding = FALSE
    PartialTakeProfit = FALSE
    Faults = {"reject", "lost", "twice", "save", "lookup", "cancel", "raise", "restart"}
    Slots = 2
    MaxHeld = 2
    MaxFaults = 1
    MaxDate = 2
    LastPhase = "open"
INVARIANTS
    TypeOK
    OneLiveEntry
    RoundsBounded
    StopLossRespected
    NoSecondFullExit
    CloseLeavesNothingOpen
PROPERTIES
    FollowsCycleLock
CHECK_DEADLOCK FALSE
