CONSTANTS
    Addrs <- MCAddrs
    Delays = {0, 1}
    Intervals = {1}
    Acts <- MCQuietActs
    MaxTimers = 2
    MaxCancels = 1
    MaxTime = 2
SPECIFICATION Spec
CHECK_DEADLOCK FALSE
INVARIANT CancelHitsOwnTimer
