\* The front end logs lines of 1 or 2 bytes into 3-byte buffers: a line
\* as long as the room left in currentBuffer_.
CONSTANTS
  p1 = p1
  p2 = p2
  Producers <- MCProducers
  BufSize = 3
  Lens = {1, 2}
  MaxLines = 3
  RollSize = 2
  RollPeriod = 2
  CheckEveryNs = {0}
  MaxTime = 1
SPECIFICATION Spec
CHECK_DEADLOCK FALSE
INVARIANT AcceptedLineBuffered
