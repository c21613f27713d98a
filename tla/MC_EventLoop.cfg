CONSTANTS
    p1 = p1
    p2 = p2
    loopThread = loopThread
    Producers <- MCProducers
    Loop <- loopThread
    MaxTasks = 1
    MaxIo = 1

SPECIFICATION Spec

\* loop() really returns after quit(): the exited loop is a final state.
CHECK_DEADLOCK FALSE

INVARIANTS
    PollNeverSleepsOnWork

PROPERTIES
    FunctorEventuallyRuns
    QuitEventuallyExits
    ImplementsTaskQueue
