\* An application thread calls forceCloseWithDelay() and drops its pointer.
CONSTANTS
  a1 = a1
  a2 = a2
  AppThreads <- MCAppThreads
  AppOps <- MCDelayOnly
  MsgActs <- MCQuietMsg
  IoThreads = {1}
  MsgLen = 2
  MaxCalls = 1
  MaxPeerSends = 1
SPECIFICATION Spec
CHECK_DEADLOCK FALSE
INVARIANT NoUseAfterFree
