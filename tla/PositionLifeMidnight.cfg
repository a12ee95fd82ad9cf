SPECIFICATION LifeSpec
CONSTANTS
    Quotes <- MC_Quotes
    ExitRules <- MC_ExitRules
    Midnight = 1
    DayTicks = 144
    LastTick = 2
INVARIANTS TimeExitsAreDue
CHECK_DEADLOCK FALSE
