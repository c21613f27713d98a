\* Two front-end threads log three lines of 1 or 2 bytes into 3-byte
\* buffers; the file rolls past 2 bytes or at a new 2-second period.
CONSTANTS
  p1 = p1
  p2 = p2
  Producers <- MCProducers
  BufSize = 3
  Lens = {1, 2}
  MaxLines = 3
  RollSize = 2
  RollPeriod = 2
  CheckEveryNs = {0, 2}
  MaxTime = 2
SPECIFICATION Spec
INVARIANTS AssertionsHold
PROPERTIES BufferedLineWritten ImplementsLogQueue
