SPECIFICATION FairSpec
CONSTANTS
    watch = watch
    recheck = recheck
    startup_watch = startup_watch
    startup_recheck = startup_recheck
    Cycles = {watch, recheck, startup_watch, startup_recheck}
    Closer = close
    MaxDate = 2
INVARIANTS
    MutualExclusion
    CloseShutsGate
PROPERTIES
    CloseNotStarved
CHECK_DEADLOCK FALSE
