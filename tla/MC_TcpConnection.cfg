\* Connection lifecycle, with the io loop either the base loop (setThreadNum
\* 0) or a pool thread, two application threads using every public call but
\* startRead, and a message callback that may answer with any call.
CONSTANTS
  a1 = a1
  a2 = a2
  AppThreads <- MCAppThreads
  AppOps <- MCLifecycleOps
  MsgActs <- MCAllMsgActs
  IoThreads = {0, 1}
  MsgLen = 2
  MaxCalls = 2
  MaxPeerSends = 1
SPECIFICATION Spec
\* The system stops once the connection is destroyed and the peer is done.
CHECK_DEADLOCK FALSE
INVARIANTS TypeOK DisconnectReportedOnce ChannelRemovedBeforeFree
PROPERTIES ClosedConnectionReleased
