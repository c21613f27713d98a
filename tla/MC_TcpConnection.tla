-------------------------- MODULE MC_TcpConnection --------------------------
(* Model values and bounds for checking TcpConnection with TLC.           *)
EXTENDS TcpConnection

CONSTANTS a1, a2

MCAppThreads == {a1, a2}
MCAllAppOps == {"send", "shutdown", "forceClose", "forceCloseWithDelay",
                "startRead", "stopRead"}
MCAllMsgActs == {"none", "send", "shutdown", "forceClose"}

\* The public calls other than startRead/stopRead.
MCCloseSendOps == {"send", "shutdown", "forceClose", "forceCloseWithDelay"}
\* Every public call but startRead (whose double registration is checked on
\* its own).
MCLifecycleOps == MCCloseSendOps \cup {"stopRead"}

MCStartReadOnly == {"startRead"}
\* startRead and stopRead, and a forceClose from the application.
MCReadCtlOps == {"startRead", "stopRead", "forceClose"}
MCSendOnly == {"send"}
MCDelayOnly == {"forceCloseWithDelay"}
\* The message callback does nothing / echoes.
MCQuietMsg == {"none"}
MCEchoMsg == {"send"}
====
