\* Read control: startRead, stopRead and forceClose from two application
\* threads against a peer that sends, half-closes or resets.
CONSTANTS
  a1 = a1
  a2 = a2
  AppThreads <- MCAppThreads
  AppOps <- MCReadCtlOps
  MsgActs <- MCQuietMsg
  IoThreads = {1}
  MsgLen = 2
  MaxCalls = 2
  MaxPeerSends = 1
SPECIFICATION Spec
CHECK_DEADLOCK FALSE

PROPERTIES PeerCloseDetected
