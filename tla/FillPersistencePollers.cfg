SPECIFICATION Spec
CONSTANTS
    o1 = o1
    o2 = o2
    watch = watch
    monitor = monitor
    Orders = {o1, o2}
    Size = 3
    Pollers = {watch, monitor}
    Timed = TRUE
    MaxFailures = 0
INVARIANTS
    NeverOverRecorded
CHECK_DEADLOCK FALSE
