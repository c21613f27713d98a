\* kCheapPrepend 2, kInitialSize 2 and a 2-byte extraBuf, so that a few
\* operations reach every branch: makeSpace's resize and move, readFd into
\* extraBuf, prepend into the cheap-prepend room, shrink.
CONSTANTS
  CheapPrepend = 2
  InitialSize = 2
  ExtraSize = 2
  Bytes <- MCBytes
  MaxChunk = 2
  MaxOps = 6
  CR = 1
  LF = 2
SPECIFICATION Spec
\* Every behaviour ends after MaxOps calls.
CHECK_DEADLOCK FALSE
INVARIANTS TypeOK AssertionsHold QueriesFindFirst
PROPERTIES ImplementsByteQueue
