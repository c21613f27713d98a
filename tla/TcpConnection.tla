----------------------------- MODULE TcpConnection -----------------------------
(***************************************************************************)
(* The life of one accepted connection, from TcpServer::newConnection to   *)
(* the destruction of the TcpConnection object, across the threads that   *)
(* touch it:                                                               *)
(*   - the base loop (TcpServer's loop_), which accepts, owns the          *)
(*     connections_ map and runs removeConnection;                         *)
(*   - the io loop the connection is bound to (the base loop itself when   *)
(*     setThreadNum(0)), which runs every channel callback and every       *)
(*     *InLoop functor of the connection;                                  *)
(*   - application threads holding a TcpConnectionPtr and calling send,    *)
(*     shutdown, forceClose, forceCloseWithDelay, startRead and stopRead;  *)
(*   - the peer, which sends data, half-closes or resets the socket.      *)
(*                                                                         *)
(* Each loop is a FIFO functor queue (the LoopTaskQueue abstraction, which *)
(* EventLoop is checked to implement) with the batch semantics of         *)
(* doPendingFunctors: a swapped-out batch, and the TcpConnectionPtr copies *)
(* bound into its functors, live until the whole batch has run.  Channel  *)
(* registration follows Channel::update/remove and EpollPoller's          *)
(* kNew/kAdded/kDeleted bookkeeping.  Object lifetime follows shared_ptr  *)
(* ownership: the connection is destroyed as soon as neither the map, an  *)
(* application thread, a queued functor that bound shared_from_this(), nor *)
(* the Channel's tie guard of an ongoing dispatch holds it.  Functors and *)
(* timers that bound the raw `this` do not keep it alive.                 *)
(*                                                                         *)
(* Assertions of the code are compiled out in release builds; the model   *)
(* keeps running past them and records each failed one in `failed`.       *)
(* Bytes are counted, not represented.                                     *)
(***************************************************************************)
EXTENDS Integers, Sequences, FiniteSets

CONSTANTS AppThreads,    \* application threads that may hold a TcpConnectionPtr
          IoThreads,     \* setThreadNum() values the server may run with
          AppOps,        \* what application threads call on the connection
          MsgActs,       \* what the message callback does on the io loop
          MsgLen,        \* bytes per send
          MaxCalls,      \* application calls in total, at most
          MaxPeerSends   \* data segments the peer sends, at most

ASSUME /\ IoThreads \subseteq {0, 1} /\ IoThreads # {}
       /\ AppOps \subseteq {"send", "shutdown", "forceClose",
                            "forceCloseWithDelay", "startRead", "stopRead"}
       /\ MsgActs \subseteq {"none", "send", "shutdown", "forceClose"}
       /\ MsgLen \in Nat \ {0} /\ MaxCalls \in Nat /\ MaxPeerSends \in Nat

Loops == {"base", "io"}
\* EventLoopThreadPool::getNextLoop(): the base loop when there are no
\* threads, else the pool's (only) loop.
GetNextLoop(numThreads) == IF numThreads = 0 THEN "base" ELSE "io"

States == {"Connecting", "Connected", "Disconnecting", "Disconnected"}
Ops == {"connectEstablished", "removeConnection", "connectDestroyed",
        "sendInLoop", "shutdownInLoop", "forceCloseInLoop", "addTimerInLoop",
        "startReadInLoop", "stopReadInLoop"}
\* A functor: what it calls and whether it bound a TcpConnectionPtr.
Task(op, shared) == [op |-> op, shared |-> shared]
Tasks == [op : Ops, shared : BOOLEAN]
\* The functor an application call hands to the io loop (raw `this`).
InLoopOp == [send |-> "sendInLoop", shutdown |-> "shutdownInLoop",
             forceClose |-> "forceCloseInLoop",
             forceCloseWithDelay |-> "addTimerInLoop",
             startRead |-> "startReadInLoop", stopRead |-> "stopReadInLoop"]

VARIABLES
    created,     \* TcpServer::newConnection has made the object
    inMap,       \* connections_ holds it
    state,       \* state_
    reading,     \* reading_
    outBuf,      \* outputBuffer_.readableBytes()
    accepted,    \* bytes handed to sendInLoop on a not-Disconnected connection
    written,     \* bytes the kernel accepted
    writeShut,   \* socket_->shutdownWrite() has been done
    upCalls,     \* connectionCallback_ calls seeing connected()
    downCalls,   \* connectionCallback_ calls seeing !connected()
    channel,     \* [events, index, inPoller]: Channel::events_, index_, and
                 \* whether EpollPoller::channels_ maps the fd
    tied,        \* Channel::tied_
    pending,     \* per loop: pendingFunctors_
    batch,       \* per loop: the batch doPendingFunctors swapped out
    bidx,        \* per loop: index of the next functor of batch to run
    phase,       \* per loop: "events" (poll/dispatch) or "functors"
    revents,     \* handlers of the io loop's current dispatch still to run
    timers,      \* forceCloseWithDelay timers in the io loop's TimerQueue
    holds,       \* application threads holding a TcpConnectionPtr
    apc,         \* per application thread: call checked, functor not yet queued
    calls,       \* application calls so far
    sock,        \* peer side: "open", "fin", "reset" (error pending), "dead"
    inData,      \* unread bytes in the socket
    peerSends,   \* data segments the peer has sent
    failed,      \* assertions of the code that a step has violated
    ioLoop       \* the loop getNextLoop() gives the connection (fixed)

\* The connection's io loop.
IoLoop == ioLoop

vars == <<created, inMap, state, reading, outBuf, accepted, written, writeShut,
          upCalls, downCalls, channel, tied, pending, batch, bidx, phase,
          revents, timers, holds, apc, calls, sock, inData, peerSends, failed,
          ioLoop>>

-----------------------------------------------------------------------------
(* Channel::update() -> EventLoop::updateChannel -> EpollPoller::          *)
(* updateChannel: a kNew or kDeleted channel is (re)added (EPOLL_CTL_ADD), *)
(* an added one with no interest left is deleted (EPOLL_CTL_DEL, kept in   *)
(* channels_), otherwise modified.                                         *)
Update(ch, ev) ==
    LET c == [ch EXCEPT !.events = ev] IN
    IF c.index \in {"kNew", "kDeleted"}
       THEN [c EXCEPT !.index = "kAdded", !.inPoller = TRUE]
    ELSE IF ev = {} THEN [c EXCEPT !.index = "kDeleted"]
    ELSE c

\* The asserts of EpollPoller::updateChannel on the channel before the call.
UpdateFails(ch) ==
    (IF ch.index = "kNew" /\ ch.inPoller
        THEN {"EpollPoller::updateChannel kNew"} ELSE {})
    \cup (IF ch.index = "kDeleted" /\ ~ch.inPoller
        THEN {"EpollPoller::updateChannel kDeleted"} ELSE {})

(* Channel::remove() -> EpollPoller::removeChannel: erase from channels_, *)
(* EPOLL_CTL_DEL if still added, back to kNew.                             *)
Remove(ch) == [ch EXCEPT !.inPoller = FALSE, !.index = "kNew"]

RemoveFails(ch) ==
    (IF ch.events # {} THEN {"Channel::remove isNoneEvent"} ELSE {})
    \cup (IF ~ch.inPoller \/ ch.index = "kNew"
             THEN {"EpollPoller::removeChannel registered"} ELSE {})

isWriting == "write" \in channel.events

-----------------------------------------------------------------------------
(* Ownership (shared_ptr): who keeps the TcpConnection alive.             *)
SharedIn(s) == \E i \in DOMAIN s : s[i].shared
Held ==
    \/ inMap
    \/ holds # {}
    \/ \E l \in Loops : SharedIn(pending[l]) \/ SharedIn(batch[l])
    \/ (revents # {} /\ tied)
Freed == created /\ ~Held

\* Functors and timers that will call into the connection through `this`.
RawIn(s, from) == \E i \in from..Len(s) : ~s[i].shared
RawPending ==
    \/ RawIn(pending[IoLoop], 1)
    \/ RawIn(batch[IoLoop], bidx[IoLoop])
    \/ timers > 0

-----------------------------------------------------------------------------
\* Mutant of removeConnection: the queued connectDestroyed forgotten.
RemoveConnectionNotDestroying ==
    /\ inMap' = FALSE
    /\ UNCHANGED pending

(* TcpServer::removeConnection, on the base loop: erase from the map and  *)
(* queueInLoop(connectDestroyed) on the connection's loop.                *)
RemoveConnection ==
    /\ inMap' = FALSE
    /\ pending' = [pending EXCEPT ![IoLoop] =
                      Append(@, Task("connectDestroyed", TRUE))]

(* TcpConnection::handleClose: Disconnected, disableAll, connection       *)
(* callback, then the close callback TcpServer installed:                 *)
(* loop_->runInLoop(removeConnection), which runs at once when the        *)
(* connection's loop is the base loop and is queued to it otherwise.      *)
HandleClose ==
    /\ state' = "Disconnected"
    /\ channel' = Update(channel, {})
    /\ failed' = failed
                 \cup (IF state \in {"Connected", "Disconnecting"} THEN {}
                       ELSE {"TcpConnection::handleClose state"})
                 \cup UpdateFails(channel)
    /\ downCalls' = downCalls + 1
    /\ IF IoLoop = "base"
          THEN RemoveConnection
          ELSE /\ pending' = [pending EXCEPT !["base"] =
                                 Append(@, Task("removeConnection", TRUE))]
               /\ UNCHANGED inMap

CloseVars == <<state, channel, failed, downCalls, inMap, pending>>

\* Mutant: forceCloseInLoop without its state check.
ForceCloseInLoopUnchecked == HandleClose

(* TcpConnection::forceCloseInLoop.                                        *)
ForceCloseInLoop ==
    IF state \in {"Connected", "Disconnecting"} THEN HandleClose
    ELSE UNCHANGED CloseVars

(* TcpConnection::connectEstablished.                                      *)
ConnectEstablished ==
    /\ state' = "Connected"
    /\ tied' = TRUE
    /\ channel' = Update(channel, channel.events \cup {"read"})
    /\ upCalls' = upCalls + 1
    /\ failed' = failed \cup UpdateFails(channel)
                 \cup (IF state = "Connecting" THEN {}
                       ELSE {"TcpConnection::connectEstablished state"})

\* Mutant: channel_->remove() moved inside the `if (kConnected)` block.
ConnectDestroyedRemovingOnlyIfConnected ==
    IF state = "Connected"
       THEN LET ch == Update(channel, {}) IN
            /\ state' = "Disconnected"
            /\ channel' = Remove(ch)
            /\ downCalls' = downCalls + 1
            /\ failed' = failed \cup UpdateFails(channel) \cup RemoveFails(ch)
       ELSE UNCHANGED <<channel, failed, state, downCalls>>

(* TcpConnection::connectDestroyed.                                        *)
ConnectDestroyed ==
    IF state = "Connected"
       THEN LET ch == Update(channel, {}) IN
            /\ state' = "Disconnected"
            /\ channel' = Remove(ch)
            /\ downCalls' = downCalls + 1
            /\ failed' = failed \cup UpdateFails(channel) \cup RemoveFails(ch)
       ELSE /\ channel' = Remove(channel)
            /\ failed' = failed \cup RemoveFails(channel)
            /\ UNCHANGED <<state, downCalls>>

(* The tail of sendInLoop: append what is left to outputBuffer_ and       *)
(* enable writing, but only when toBuffer was set.                         *)
Buffering(toBuffer, remaining) ==
    IF toBuffer
       THEN /\ outBuf' = outBuf + remaining
            /\ channel' = IF isWriting THEN channel
                          ELSE Update(channel, channel.events \cup {"write"})
            /\ failed' = failed \cup (IF isWriting THEN {} ELSE UpdateFails(channel))
       ELSE UNCHANGED <<outBuf, channel, failed>>

\* The socket refuses writes (EPIPE/ECONNRESET): reset by the peer, or our
\* own write side shut down.
WriteRefused == sock \in {"reset", "dead"} \/ writeShut

\* What ::write returns for a message of len bytes; -1 stands for an error:
\* EPIPE/ECONNRESET when refused, EWOULDBLOCK otherwise.
WriteResults(len) == IF WriteRefused THEN {-1} ELSE (1..len) \cup {-1}

(* TcpConnection::sendInLoop(len).  toBuffer is set only by EPIPE and     *)
(* ECONNRESET; the high-water-mark callback is not modelled.               *)
SendInLoop(len) ==
    IF state = "Disconnected"
       THEN UNCHANGED <<accepted, written, outBuf, channel, failed>>
       ELSE /\ accepted' = accepted + len
            /\ IF outBuf = 0 /\ ~isWriting
                  THEN \E n \in WriteResults(len) :
                         /\ written' = written + (IF n < 0 THEN 0 ELSE n)
                         /\ Buffering(n < 0 /\ WriteRefused,
                                      IF n < 0 THEN len ELSE len - n)
                  ELSE /\ written' = written
                       /\ Buffering(FALSE, len)

SendVars == <<accepted, written, outBuf, channel, failed>>

(* TcpConnection::shutdownInLoop: half-close unless still writing.         *)
ShutdownInLoop(writing) ==
    writeShut' = (writeShut \/ ~writing)

(* TcpConnection::startReadInLoop / stopReadInLoop.                        *)
StartReadInLoop ==
    IF ~reading /\ "read" \notin channel.events
       THEN /\ channel' = Update(channel, channel.events \cup {"read"})
            /\ reading' = TRUE
            /\ failed' = failed \cup UpdateFails(channel)
       ELSE UNCHANGED <<channel, reading, failed>>

StopReadInLoop ==
    IF reading /\ "read" \in channel.events
       THEN /\ channel' = Update(channel, channel.events \ {"read"})
            /\ reading' = FALSE
            /\ failed' = failed \cup UpdateFails(channel)
       ELSE UNCHANGED <<channel, reading, failed>>

-----------------------------------------------------------------------------
Init ==
    /\ created = FALSE /\ inMap = FALSE
    /\ state = "Connecting" /\ reading = FALSE
    /\ outBuf = 0 /\ accepted = 0 /\ written = 0 /\ writeShut = FALSE
    /\ upCalls = 0 /\ downCalls = 0
    /\ channel = [events |-> {}, index |-> "kNew", inPoller |-> FALSE]
    /\ tied = FALSE
    /\ pending = [l \in Loops |-> <<>>]
    /\ batch = [l \in Loops |-> <<>>]
    /\ bidx = [l \in Loops |-> 1]
    /\ phase = [l \in Loops |-> "events"]
    /\ revents = {} /\ timers = 0
    /\ holds = {} /\ apc = [a \in AppThreads |-> "none"] /\ calls = 0
    /\ sock = "open" /\ inData = 0 /\ peerSends = 0
    /\ failed = {}
    /\ ioLoop \in {GetNextLoop(n) : n \in IoThreads}

appVars == <<holds, apc, calls>>
\* The peer, and the server's thread configuration (no step changes it).
envVars == <<sock, inData, peerSends, ioLoop>>

\* The io loop is between dispatches and not running functors.
IoIdle == phase[IoLoop] = "events" /\ revents = {}

(* Acceptor::handleRead on the base loop accepts, and                      *)
(* TcpServer::newConnection creates the connection, stores it in the map  *)
(* and runInLoop(connectEstablished) on its io loop: at once when that is  *)
(* the base loop, queued with a TcpConnectionPtr otherwise.               *)
NewConnection ==
    /\ ~created
    /\ phase["base"] = "events" /\ IoIdle
    /\ created' = TRUE
    /\ inMap' = TRUE
    /\ IF IoLoop = "base"
          THEN /\ ConnectEstablished
               /\ UNCHANGED pending
          ELSE /\ pending' = [pending EXCEPT !["io"] =
                                 Append(@, Task("connectEstablished", TRUE))]
               /\ UNCHANGED <<state, tied, channel, upCalls, failed>>
    /\ UNCHANGED <<reading, outBuf, accepted, written, writeShut, downCalls,
                   batch, bidx, phase, revents, timers, appVars, envVars>>

(* EventLoop::doPendingFunctors, first half: swap the queue out.           *)
SwapPending(l) ==
    /\ phase[l] = "events" /\ (l = IoLoop => revents = {})
    /\ pending[l] # <<>>
    /\ batch' = [batch EXCEPT ![l] = pending[l]]
    /\ pending' = [pending EXCEPT ![l] = <<>>]
    /\ bidx' = [bidx EXCEPT ![l] = 1]
    /\ phase' = [phase EXCEPT ![l] = "functors"]
    /\ UNCHANGED <<created, inMap, state, reading, outBuf, accepted, written,
                   writeShut, upCalls, downCalls, channel, tied, revents,
                   timers, appVars, envVars, failed>>

(* doPendingFunctors runs the next functor of the batch.                   *)
RunFunctor(l) ==
    /\ phase[l] = "functors" /\ bidx[l] <= Len(batch[l])
    /\ bidx' = [bidx EXCEPT ![l] = @ + 1]
    /\ UNCHANGED <<batch, phase, created, revents, appVars, envVars>>
    /\ LET op == batch[l][bidx[l]].op IN
       CASE op = "connectEstablished" ->
              /\ ConnectEstablished
              /\ UNCHANGED <<inMap, reading, outBuf, accepted, written,
                             writeShut, downCalls, pending, timers>>
         [] op = "removeConnection" ->
              /\ RemoveConnection
              /\ UNCHANGED <<state, reading, outBuf, accepted, written,
                             writeShut, upCalls, downCalls, channel, tied,
                             timers, failed>>
         [] op = "connectDestroyed" ->
              /\ ConnectDestroyed
              /\ UNCHANGED <<inMap, reading, outBuf, accepted, written,
                             writeShut, upCalls, tied, pending, timers>>
         [] op = "sendInLoop" ->
              /\ SendInLoop(MsgLen)
              /\ UNCHANGED <<inMap, state, reading, writeShut, upCalls,
                             downCalls, tied, pending, timers>>
         [] op = "shutdownInLoop" ->
              /\ ShutdownInLoop(isWriting)
              /\ UNCHANGED <<inMap, state, reading, outBuf, accepted, written,
                             upCalls, downCalls, channel, tied, pending,
                             timers, failed>>
         [] op = "forceCloseInLoop" ->
              /\ ForceCloseInLoop
              /\ UNCHANGED <<reading, outBuf, accepted, written, writeShut,
                             upCalls, tied, timers>>
         [] op = "addTimerInLoop" ->
              /\ timers' = timers + 1
              /\ UNCHANGED <<inMap, state, reading, outBuf, accepted, written,
                             writeShut, upCalls, downCalls, channel, tied,
                             pending, failed>>
         [] op = "startReadInLoop" ->
              /\ StartReadInLoop
              /\ UNCHANGED <<inMap, state, outBuf, accepted, written,
                             writeShut, upCalls, downCalls, tied, pending,
                             timers>>
         [] op = "stopReadInLoop" ->
              /\ StopReadInLoop
              /\ UNCHANGED <<inMap, state, outBuf, accepted, written,
                             writeShut, upCalls, downCalls, tied, pending,
                             timers>>

(* doPendingFunctors returns: the batch, and the TcpConnectionPtr copies   *)
(* its functors bound, are destroyed.                                      *)
EndFunctors(l) ==
    /\ phase[l] = "functors" /\ bidx[l] > Len(batch[l])
    /\ batch' = [batch EXCEPT ![l] = <<>>]
    /\ phase' = [phase EXCEPT ![l] = "events"]
    /\ UNCHANGED <<created, inMap, state, reading, outBuf, accepted, written,
                   writeShut, upCalls, downCalls, channel, tied, pending, bidx,
                   revents, timers, appVars, envVars, failed>>

-----------------------------------------------------------------------------
(* What epoll_wait reports for the connection's fd.  A reset leaves an     *)
(* error pending (ERR) until read or getsockopt(SO_ERROR) consumes it;      *)
(* HUP comes with a reset, or with a peer FIN after our own shutdownWrite. *)
Revents ==
    (IF "read" \in channel.events /\ (inData > 0 \/ sock # "open")
        THEN {"IN"} ELSE {})
    \cup (IF isWriting THEN {"OUT"} ELSE {})
    \cup (IF sock \in {"reset", "dead"} \/ (sock = "fin" /\ writeShut)
             THEN {"HUP"} ELSE {})
    \cup (IF sock = "reset" THEN {"ERR"} ELSE {})

(* Channel::handleEventWithGuard: the callbacks a dispatch of revents runs. *)
Handlers(r) ==
    (IF "HUP" \in r /\ "IN" \notin r THEN {"close"} ELSE {})
    \cup (IF "ERR" \in r THEN {"error"} ELSE {})
    \cup (IF "IN" \in r THEN {"read"} ELSE {})
    \cup (IF "OUT" \in r THEN {"write"} ELSE {})

\* The order handleEventWithGuard calls them in.
Earlier == [close |-> {}, error |-> {"close"}, read |-> {"close", "error"},
            write |-> {"close", "error", "read"}]
Turn(h) == h \in revents /\ revents \cap Earlier[h] = {}
Done(h) == revents' = revents \ {h}

(* EventLoop::loop -> EpollPoller::poll -> Channel::handleEvent: the tie   *)
(* guard locks the connection and the callbacks start running.            *)
Dispatch ==
    /\ IoIdle /\ channel.index = "kAdded" /\ ~Freed
    /\ Handlers(Revents) # {}
    /\ revents' = Handlers(Revents)
    /\ UNCHANGED <<created, inMap, state, reading, outBuf, accepted, written,
                   writeShut, upCalls, downCalls, channel, tied, pending,
                   batch, bidx, phase, timers, appVars, envVars, failed>>

(* POLLHUP without POLLIN: closeCallback_ = TcpConnection::handleClose.    *)
CloseEvent ==
    /\ Turn("close") /\ Done("close")
    /\ HandleClose
    /\ UNCHANGED <<created, reading, outBuf, accepted, written, writeShut,
                   upCalls, tied, batch, bidx, phase, timers, appVars, envVars>>

(* POLLERR: TcpConnection::handleError reads (and so clears) SO_ERROR.     *)
ErrorEvent ==
    /\ Turn("error") /\ Done("error")
    /\ sock' = IF sock = "reset" THEN "dead" ELSE sock
    /\ UNCHANGED <<created, inMap, state, reading, outBuf, accepted, written,
                   writeShut, upCalls, downCalls, channel, tied, pending,
                   batch, bidx, phase, timers, appVars, inData, peerSends, ioLoop,
                   failed>>

MsgVars == <<state, channel, failed, downCalls, inMap, pending,
             accepted, written, outBuf, writeShut>>

(* The message callback, on the io loop, may answer through the            *)
(* connection: send -> runInLoop(sendInLoop), shutdown's CAS ->            *)
(* shutdownInLoop, forceClose's CAS -> forceCloseInLoop -> handleClose,   *)
(* all run at once since this is the loop thread.                          *)
MessageCallback(act) ==
    CASE act = "send" /\ state = "Connected" ->
           /\ SendInLoop(MsgLen)
           /\ UNCHANGED <<state, downCalls, inMap, pending, writeShut>>
      [] act = "shutdown" /\ state = "Connected" ->
           /\ state' = "Disconnecting"
           /\ ShutdownInLoop(isWriting)
           /\ UNCHANGED <<channel, failed, downCalls, inMap, pending,
                          accepted, written, outBuf>>
      [] act = "forceClose" /\ state \in {"Connected", "Disconnecting"} ->
           /\ HandleClose
           /\ UNCHANGED <<accepted, written, outBuf, writeShut>>
      [] OTHER -> UNCHANGED MsgVars

(* POLLIN, TcpConnection::handleRead: readFd returns n > 0 and the message *)
(* callback runs.                                                          *)
ReadMessage(act) ==
    /\ Turn("read") /\ Done("read") /\ inData > 0
    /\ inData' = 0
    /\ MessageCallback(act)
    /\ UNCHANGED <<created, reading, upCalls, tied, batch, bidx, phase, timers,
                   appVars, sock, peerSends, ioLoop>>

\* Mutant of handleRead: end of stream seen only after a reset, not a FIN.
ReadEofOnDeadOnly ==
    /\ Turn("read") /\ Done("read") /\ inData = 0 /\ sock = "dead"
    /\ HandleClose
    /\ UNCHANGED <<created, reading, outBuf, accepted, written, writeShut,
                   upCalls, tied, batch, bidx, phase, timers, appVars, envVars>>

(* handleRead: readFd returns 0 (end of stream): handleClose.              *)
ReadEof ==
    /\ Turn("read") /\ Done("read") /\ inData = 0 /\ sock \in {"fin", "dead"}
    /\ HandleClose
    /\ UNCHANGED <<created, reading, outBuf, accepted, written, writeShut,
                   upCalls, tied, batch, bidx, phase, timers, appVars, envVars>>

(* handleRead: readFd fails with ECONNRESET, which consumes the error:     *)
(* handleError.                                                            *)
ReadReset ==
    /\ Turn("read") /\ Done("read") /\ inData = 0 /\ sock = "reset"
    /\ sock' = "dead"
    /\ UNCHANGED <<created, inMap, state, reading, outBuf, accepted, written,
                   writeShut, upCalls, downCalls, channel, tied, pending,
                   batch, bidx, phase, timers, appVars, inData, peerSends, ioLoop,
                   failed>>

WriteAssert == IF isWriting THEN {} ELSE {"TcpConnection::handleWrite isWriting"}

(* POLLOUT, TcpConnection::handleWrite.  outputBuffer_ only ever holds    *)
(* bytes sendInLoop buffered after EPIPE/ECONNRESET, and a socket that     *)
(* refused a write refuses every later one, so writeFd returns n <= 0     *)
(* whenever this runs and the n > 0 branch (disableWriting, the deferred   *)
(* shutdownInLoop) is never reached: only the assertion and the log.      *)
HandleWrite ==
    /\ Turn("write") /\ Done("write")
    /\ failed' = failed \cup WriteAssert
    /\ UNCHANGED <<created, inMap, state, reading, outBuf, accepted, written,
                   writeShut, upCalls, downCalls, channel, tied, pending,
                   batch, bidx, phase, timers, appVars, envVars>>

\* Mutant: a timer fired with none due.
TimerFireUnguarded ==
    /\ IoIdle
    /\ timers' = timers - 1
    /\ ForceCloseInLoop
    /\ UNCHANGED <<created, reading, outBuf, accepted, written, writeShut,
                   upCalls, tied, batch, bidx, phase, revents, appVars, envVars>>

(* TimerQueue::handleRead runs an expired forceCloseWithDelay timer: the   *)
(* functor bound `this` and calls forceCloseInLoop.                        *)
TimerFire ==
    /\ IoIdle /\ timers > 0
    /\ timers' = timers - 1
    /\ ForceCloseInLoop
    /\ UNCHANGED <<created, reading, outBuf, accepted, written, writeShut,
                   upCalls, tied, batch, bidx, phase, revents, appVars, envVars>>

-----------------------------------------------------------------------------
(* An application thread copies the TcpConnectionPtr it was handed by the *)
(* connection callback, or drops its copy.                                 *)
AppAcquire(a) ==
    /\ a \notin holds /\ inMap /\ upCalls > 0
    /\ holds' = holds \cup {a}
    /\ UNCHANGED <<created, inMap, state, reading, outBuf, accepted, written,
                   writeShut, upCalls, downCalls, channel, tied, pending,
                   batch, bidx, phase, revents, timers, apc, calls, envVars,
                   failed>>

AppRelease(a) ==
    /\ a \in holds /\ apc[a] = "none"
    /\ holds' = holds \ {a}
    /\ UNCHANGED <<created, inMap, state, reading, outBuf, accepted, written,
                   writeShut, upCalls, downCalls, channel, tied, pending,
                   batch, bidx, phase, revents, timers, apc, calls, envVars,
                   failed>>

\* The check each public call makes before it hands work to the loop.
Accepts(op) ==
    CASE op \in {"send", "shutdown"} -> state = "Connected"
      [] op \in {"forceClose", "forceCloseWithDelay"} ->
           state \in {"Connected", "Disconnecting"}
      [] OTHER -> TRUE

(* send / shutdown / forceClose / forceCloseWithDelay / startRead /        *)
(* stopRead from an application thread: the state check (the CAS          *)
(* Connected -> Disconnecting for the closing calls).  The functor is      *)
(* queued by a later step of the same thread (AppQueue).                   *)
AppCall(a, op) ==
    /\ a \in holds /\ apc[a] = "none" /\ calls < MaxCalls
    /\ calls' = calls + 1
    /\ state' = IF op \in {"shutdown", "forceClose", "forceCloseWithDelay"}
                   /\ state = "Connected"
                THEN "Disconnecting" ELSE state
    /\ apc' = IF Accepts(op) THEN [apc EXCEPT ![a] = op] ELSE apc
    /\ UNCHANGED <<created, inMap, reading, outBuf, accepted, written,
                   writeShut, upCalls, downCalls, channel, tied, pending,
                   batch, bidx, phase, revents, timers, holds, envVars, failed>>

(* runInLoop from a foreign thread = queueInLoop: the functor, bound to   *)
(* the raw `this`, goes to the io loop.  forceCloseWithDelay goes through  *)
(* runAfter -> TimerQueue::addTimer -> runInLoop(addTimerInLoop).          *)
AppQueue(a) ==
    /\ apc[a] # "none"
    /\ pending' = [pending EXCEPT ![IoLoop] =
                      Append(@, Task(InLoopOp[apc[a]], FALSE))]
    /\ apc' = [apc EXCEPT ![a] = "none"]
    /\ UNCHANGED <<created, inMap, state, reading, outBuf, accepted, written,
                   writeShut, upCalls, downCalls, channel, tied, batch, bidx,
                   phase, revents, timers, holds, calls, envVars, failed>>

connVars == <<created, inMap, state, reading, outBuf, accepted, written,
              writeShut, upCalls, downCalls, channel, tied, pending, batch,
              bidx, phase, revents, timers, appVars, failed>>

(* The peer sends data, half-closes, or resets (which discards unread     *)
(* data).                                                                  *)
PeerSend ==
    /\ created /\ sock = "open" /\ peerSends < MaxPeerSends
    /\ inData' = inData + 1
    /\ peerSends' = peerSends + 1
    /\ UNCHANGED <<connVars, sock, ioLoop>>

PeerFin ==
    /\ created /\ sock = "open"
    /\ sock' = "fin"
    /\ UNCHANGED <<connVars, inData, peerSends, ioLoop>>

PeerReset ==
    /\ created /\ sock \in {"open", "fin"}
    /\ sock' = "reset"
    /\ inData' = 0
    /\ UNCHANGED <<connVars, peerSends, ioLoop>>

-----------------------------------------------------------------------------
IoHandler ==
    \/ CloseEvent \/ ErrorEvent \/ ReadEof \/ ReadReset
    \/ \E act \in MsgActs : ReadMessage(act)
    \/ HandleWrite

Next ==
    \/ NewConnection
    \/ \E l \in Loops : SwapPending(l) \/ RunFunctor(l) \/ EndFunctors(l)
    \/ Dispatch \/ IoHandler \/ TimerFire
    \/ \E a \in AppThreads :
          \/ AppAcquire(a) \/ AppRelease(a) \/ AppQueue(a)
          \/ \E op \in AppOps : AppCall(a, op)
    \/ PeerSend \/ PeerFin \/ PeerReset

(* Each loop iteration polls, dispatches every ready channel (timerfd     *)
(* included), then runs doPendingFunctors, so a ready channel, a due      *)
(* timer and a non-empty queue are each served infinitely often while     *)
(* they stay so (strong fairness: the other phases disable them in        *)
(* between); a started dispatch or batch runs to its end.  A thread inside *)
(* a public call finishes it.  The peer, acceptance and the application's *)
(* decisions are not fair.                                                 *)
Fairness ==
    /\ \A l \in Loops : /\ SF_vars(SwapPending(l))
                        /\ WF_vars(RunFunctor(l) \/ EndFunctors(l))
    /\ SF_vars(Dispatch) /\ SF_vars(TimerFire) /\ WF_vars(IoHandler)
    /\ \A a \in AppThreads : WF_vars(AppQueue(a))

Spec == Init /\ [][Next]_vars /\ Fairness

-----------------------------------------------------------------------------
TypeOK ==
    /\ created \in BOOLEAN /\ inMap \in BOOLEAN /\ state \in States
    /\ reading \in BOOLEAN /\ writeShut \in BOOLEAN /\ tied \in BOOLEAN
    /\ {outBuf, accepted, written, upCalls, downCalls, timers, calls,
        inData, peerSends} \subseteq Nat
    /\ channel \in [events : SUBSET {"read", "write"},
                    index : {"kNew", "kAdded", "kDeleted"}, inPoller : BOOLEAN]
    /\ pending \in [Loops -> Seq(Tasks)] /\ batch \in [Loops -> Seq(Tasks)]
    /\ bidx \in [Loops -> Nat \ {0}]
    /\ phase \in [Loops -> {"events", "functors"}]
    /\ ioLoop \in Loops
    /\ revents \subseteq {"close", "error", "read", "write"}
    /\ holds \subseteq AppThreads
    /\ apc \in [AppThreads -> {"none"} \cup DOMAIN InLoopOp]
    /\ sock \in {"open", "fin", "reset", "dead"}
    /\ failed \subseteq STRING

(* The connection callback sees the connection come up once and go down  *)
(* at most once, never before it came up, whichever of peer close, reset, *)
(* shutdown, forceClose from either side, a delayed forceClose and the     *)
(* server's connectDestroyed get there first (handleClose and             *)
(* connectDestroyed both report down).                                     *)
DisconnectReportedOnce == downCalls <= upCalls /\ upCalls <= 1

(* Channel::~Channel asserts !addedToLoop_: when the last TcpConnectionPtr *)
(* goes, the channel has been removed from the poller, so channels_ keeps  *)
(* no pointer to it.                                                       *)
ChannelRemovedBeforeFree == Freed => ~channel.inPoller

(* No functor or timer holding the raw `this` is still to run once the    *)
(* last TcpConnectionPtr is gone.                                          *)
NoUseAfterFree == Freed => ~RawPending

(* Every byte sendInLoop accepted on a connection that was not yet        *)
(* Disconnected has gone to the kernel or waits in outputBuffer_ (the     *)
(* documented contract of send: the unwritten remainder is buffered).     *)
SentDataAccountedFor == accepted = written + outBuf

(* No assertion of the code fails (they are live in debug builds).         *)
AssertionsHold == failed = {}

(* A connection that reached Disconnected is erased from the server's map *)
(* and its channel removed from the poller.                                *)
ClosedConnectionReleased ==
    (created /\ state = "Disconnected")
        ~> (~inMap /\ channel.index = "kNew" /\ ~channel.inPoller)

(* Once the peer has half-closed or reset a connection, the connection     *)
(* reaches Disconnected: handleRead's end of stream or error, or           *)
(* handleClose on POLLHUP without POLLIN, gets to handleClose whatever      *)
(* startRead/stopRead and forceClose calls race with it, including a peer  *)
(* that closes before connectEstablished has run.                          *)
PeerCloseDetected == (created /\ sock # "open") ~> state = "Disconnected"
====
