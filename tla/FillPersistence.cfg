SPECIFICATION FairSpec
CONSTANTS
    o1 = o1
    o2 = o2
    watch = watch
    monitor = monitor
    Orders = {o1, o2}
    Size = 3
    Pollers = {watch}
    Timed = TRUE
    MaxFailures = 2
INVARIANTS
    ToldOnce
PROPERTIES
    KeepsLedger
    CatchesUp
CHECK_DEADLOCK FALSE
