CONSTANTS
    Addrs <- MCAddrs
    Delays = {0, 1}
    Intervals = {1}
    Acts <- MCAllActs
    MaxTimers = 2
    MaxCancels = 1
    MaxTime = 2
SPECIFICATION Spec
CHECK_DEADLOCK FALSE
INVARIANTS
    TypeOK
    CancelledNotRescheduled
    NoTimerLeak
    TimerfdCoversEarliest
PROPERTIES
    DueTimerEventuallyRuns
