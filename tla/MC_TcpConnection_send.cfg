\* The message callback echoes what it reads.
CONSTANTS
  a1 = a1
  a2 = a2
  AppThreads <- MCAppThreads
  AppOps <- MCSendOnly
  MsgActs <- MCEchoMsg
  IoThreads = {1}
  MsgLen = 2
  MaxCalls = 0
  MaxPeerSends = 1
SPECIFICATION Spec
CHECK_DEADLOCK FALSE
INVARIANT SentDataAccountedFor
