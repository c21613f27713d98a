\* Two producers adding two tasks each to a pool started with no thread
\* (add() runs the task inline) or two workers, with a queue bound of 1 so
\* that producers block on notFull_; stop() may come at any point.
CONSTANTS
  p1 = p1
  p2 = p2
  Producers <- MCProducers
  Work = 2
  NumThreads = {0, 2}
  MaxQueueSize = 1
SPECIFICATION Spec
INVARIANTS TypeOK TaskNotLost
PROPERTIES SubmittedTaskRuns AddReturns StopJoins
