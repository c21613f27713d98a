\* A pool used as constructed: setMaxQueueSize() never called, so
\* maxQueueSize_ is 0, started with two workers.
CONSTANTS
  p1 = p1
  p2 = p2
  Producers <- MCProducers
  Work = 1
  NumThreads = {2}
  MaxQueueSize = 0
SPECIFICATION Spec
INVARIANTS TaskNotLost
