\* An application thread calls startRead() on a live connection.
CONSTANTS
  a1 = a1
  a2 = a2
  AppThreads <- MCAppThreads
  AppOps <- MCStartReadOnly
  MsgActs <- MCQuietMsg
  IoThreads = {1}
  MsgLen = 2
  MaxCalls = 1
  MaxPeerSends = 1
SPECIFICATION Spec
CHECK_DEADLOCK FALSE
INVARIANT DisconnectReportedOnce
