------------------------------ MODULE EventLoop ------------------------------
(***************************************************************************)
(* One EventLoop (src/src/event/EventLoop.cc) and the threads that talk to *)
(* it.  The loop thread runs EventLoop::loop(): wait in epoll_wait (10 s   *)
(* bound), dispatch the ready channels, then doPendingFunctors(), which    *)
(* swaps pendingFunctors_ out under the mutex and runs the batch with      *)
(* callingPendingFunctors_ set.  Foreign threads call runInLoop (which,   *)
(* off the loop thread, is queueInLoop: push under the lock, release it,  *)
(* then wakeup()) and quit() (set quit_, then wakeup()).  The wakeup      *)
(* eventfd is a channel of the loop like any other; its counter is        *)
(* abstracted to "readable or not", which is all epoll observes and what  *)
(* handleRead resets.  One more channel, "io", stands for every other     *)
(* descriptor: its handler may queue a functor or call quit() from the    *)
(* loop thread.                                                           *)
(*                                                                         *)
(* Functor contents are abstracted to an id, the submitting thread, and   *)
(* whether running it queues a follow-up functor from inside the batch    *)
(* (as sendInLoop queues writeCompleteCallback_).                         *)
(***************************************************************************)
EXTENDS Naturals, Sequences, FiniteSets, SequencesExt, Functions

CONSTANTS Producers,  \* foreign threads calling runInLoop / quit
          Loop,       \* the loop's own thread
          MaxTasks,   \* functors each producer submits, at most
          MaxIo       \* readiness events of the io channel, at most

ASSUME /\ Loop \notin Producers
       /\ MaxTasks \in Nat /\ MaxIo \in Nat

VARIABLES
    lpc,           \* where the loop thread is in loop()
    looping,       \* looping_
    quit,          \* quit_
    calling,       \* callingPendingFunctors_
    pending,       \* pendingFunctors_
    functors,      \* the batch swapped out by doPendingFunctors, not yet run
    wakeReadable,  \* the wakeup eventfd has a nonzero counter
    ioReadable,    \* the io channel's descriptor is readable
    active,        \* activeChannels_ of this pass, not yet dispatched
    ppc,           \* producer threads: inside queueInLoop/quit before wakeup()
    submitted,     \* functors submitted by each producer (bounded)
    quitters,      \* producers that have called quit() (each at most once)
    ioCount,       \* io readiness events so far (bounded)
    ran,           \* history: ids of functors run, in order
    nextId         \* id of the next functor

vars == <<lpc, looping, quit, calling, pending, functors, wakeReadable,
          ioReadable, active, ppc, submitted, quitters, ioCount, ran, nextId>>

Threads == Producers \cup {Loop}
Task(id, by, chain) == [id |-> id, by |-> by, chain |-> chain]

\* Descriptors epoll_wait would report now.
Ready == {c \in {"wakeup", "io"} :
             (c = "wakeup" /\ wakeReadable) \/ (c = "io" /\ ioReadable)}

-----------------------------------------------------------------------------
(* Variants of the wakeup condition below: without the                  *)
(* callingPendingFunctors_ disjunct, and without the off-thread one.     *)
NeedsWakeupOffThreadOnly(inLoopThread) == ~inLoopThread
NeedsWakeupWhileCallingOnly(inLoopThread) == calling

(* queueInLoop, EventLoop.cc:133-143: wake the loop if the caller is not  *)
(* the loop thread, or if the loop is running its pending functors.      *)
NeedsWakeup(inLoopThread) == ~inLoopThread \/ calling

(* queueInLoop called on the loop thread itself: push, and if needed      *)
(* wakeup() writes the eventfd directly.                                  *)
QueueInLoopFromLoop(t) ==
    /\ pending' = Append(pending, t)
    /\ wakeReadable' = (wakeReadable \/ NeedsWakeup(TRUE))

-----------------------------------------------------------------------------
Init ==
    /\ lpc = "init"
    /\ looping = FALSE
    /\ quit = FALSE
    /\ calling = FALSE
    /\ pending = <<>>
    /\ functors = <<>>
    /\ wakeReadable = FALSE
    /\ ioReadable = FALSE
    /\ active = {}
    /\ ppc = [p \in Producers |-> "idle"]
    /\ submitted = [p \in Producers |-> 0]
    /\ quitters = {}
    /\ ioCount = 0
    /\ ran = <<>>
    /\ nextId = 1

(* runInLoop/queueInLoop from producer p (not the loop thread): append    *)
(* under mutex_; the lock is released before wakeup() is called.          *)
QueueInLoop(p) ==
    /\ ppc[p] = "idle"
    /\ submitted[p] < MaxTasks
    /\ \E chain \in BOOLEAN :
          pending' = Append(pending, Task(nextId, p, chain))
    /\ nextId' = nextId + 1
    /\ submitted' = [submitted EXCEPT ![p] = @ + 1]
    /\ ppc' = [ppc EXCEPT ![p] = IF NeedsWakeup(FALSE) THEN "wake" ELSE "idle"]
    /\ UNCHANGED <<lpc, looping, quit, calling, functors, wakeReadable,
                   ioReadable, active, quitters, ioCount, ran>>

(* quit() from producer p: quit_ = true, then wakeup() since off-thread.  *)
Quit(p) ==
    /\ ppc[p] = "idle"
    /\ p \notin quitters
    /\ quit' = TRUE
    /\ quitters' = quitters \cup {p}
    /\ ppc' = [ppc EXCEPT ![p] = "quitwake"]
    /\ UNCHANGED <<lpc, looping, calling, pending, functors, wakeReadable,
                   ioReadable, active, submitted, ioCount, ran, nextId>>

(* wakeup(): write 1 to the eventfd, making it readable.                  *)
Wakeup(p) ==
    /\ ppc[p] \in {"wake", "quitwake"}
    /\ wakeReadable' = TRUE
    /\ ppc' = [ppc EXCEPT ![p] = "idle"]
    /\ UNCHANGED <<lpc, looping, quit, calling, pending, functors, ioReadable,
                   active, submitted, quitters, ioCount, ran, nextId>>

(* The peer makes the io descriptor readable.                             *)
PeerData ==
    /\ ~ioReadable
    /\ ioCount < MaxIo
    /\ ioReadable' = TRUE
    /\ ioCount' = ioCount + 1
    /\ UNCHANGED <<lpc, looping, quit, calling, pending, functors, wakeReadable,
                   active, ppc, submitted, quitters, nextId, ran>>

-----------------------------------------------------------------------------
(* Variant of loop() that re-arms quit_ on entry (as spec section 4.2    *)
(* words it) instead of on exit.                                          *)
LoopStartClearingQuit ==
    /\ lpc = "init"
    /\ ~looping
    /\ looping' = TRUE
    /\ quit' = FALSE
    /\ lpc' = "top"
    /\ UNCHANGED <<calling, pending, functors, wakeReadable, ioReadable,
                   active, ppc, submitted, quitters, ioCount, ran, nextId>>

(* loop(): entry; looping_ = true.                                        *)
LoopStart ==
    /\ lpc = "init"
    /\ ~looping
    /\ looping' = TRUE
    /\ lpc' = "top"
    /\ UNCHANGED <<quit, calling, pending, functors, wakeReadable, ioReadable,
                   active, ppc, submitted, quitters, ioCount, ran, nextId>>

(* while(!quit_) holds: clear activeChannels_ and go into epoll_wait.     *)
LoopIterate ==
    /\ lpc = "top"
    /\ ~quit
    /\ lpc' = "poll"
    /\ active' = {}
    /\ UNCHANGED <<looping, quit, calling, pending, functors, wakeReadable,
                   ioReadable, ppc, submitted, quitters, ioCount, ran, nextId>>

(* while(!quit_) fails: looping_ = false, quit_ = false, loop() returns.  *)
LoopExit ==
    /\ lpc = "top"
    /\ quit
    /\ lpc' = "exited"
    /\ looping' = FALSE
    /\ quit' = FALSE
    /\ UNCHANGED <<calling, pending, functors, wakeReadable, ioReadable, active,
                   ppc, submitted, quitters, ioCount, ran, nextId>>

(* epoll_wait returns the ready descriptors (EpollPoller::poll).          *)
PollReturn ==
    /\ lpc = "poll"
    /\ Ready # {}
    /\ active' = Ready
    /\ lpc' = "dispatch"
    /\ UNCHANGED <<looping, quit, calling, pending, functors, wakeReadable,
                   ioReadable, ppc, submitted, quitters, ioCount, ran, nextId>>

(* epoll_wait returns after kPollTimeMs with nothing ready.               *)
PollTimeout ==
    /\ lpc = "poll"
    /\ Ready = {}
    /\ active' = {}
    /\ lpc' = "dispatch"
    /\ UNCHANGED <<looping, quit, calling, pending, functors, wakeReadable,
                   ioReadable, ppc, submitted, quitters, ioCount, ran, nextId>>

(* The wakeup channel's handleRead: read the eventfd, resetting it.       *)
HandleWakeupRead ==
    /\ lpc = "dispatch"
    /\ "wakeup" \in active
    /\ active' = active \ {"wakeup"}
    /\ wakeReadable' = FALSE
    /\ UNCHANGED <<lpc, looping, quit, calling, pending, functors, ioReadable,
                   ppc, submitted, quitters, ioCount, ran, nextId>>

(* The io channel's handler, on the loop thread: it consumes the input    *)
(* and either does nothing more, queues a functor, or calls quit() (on    *)
(* the loop thread quit() does not call wakeup()).                        *)
HandleIo ==
    /\ lpc = "dispatch"
    /\ "io" \in active
    /\ active' = active \ {"io"}
    /\ ioReadable' = FALSE
    /\ \/ UNCHANGED <<quit, pending, wakeReadable, nextId>>
       \/ /\ QueueInLoopFromLoop(Task(nextId, Loop, FALSE))
          /\ nextId' = nextId + 1
          /\ UNCHANGED quit
       \/ /\ quit' = TRUE
          /\ UNCHANGED <<pending, wakeReadable, nextId>>
    /\ UNCHANGED <<lpc, looping, calling, functors, ppc, submitted, quitters,
                   ioCount, ran>>

(* doPendingFunctors(), first half: callingPendingFunctors_ = true, then  *)
(* swap pendingFunctors_ with the empty local vector under mutex_.        *)
DoPendingFunctorsSwap ==
    /\ lpc = "dispatch"
    /\ active = {}
    /\ calling' = TRUE
    /\ functors' = pending
    /\ pending' = <<>>
    /\ lpc' = "functors"
    /\ UNCHANGED <<looping, quit, wakeReadable, ioReadable, active, ppc,
                   submitted, quitters, ioCount, ran, nextId>>

(* Run the next functor of the batch, without the lock.  A chaining       *)
(* functor calls queueInLoop from the loop thread.                        *)
RunFunctor ==
    /\ lpc = "functors"
    /\ functors # <<>>
    /\ ran' = Append(ran, Head(functors).id)
    /\ functors' = Tail(functors)
    /\ IF Head(functors).chain
          THEN /\ QueueInLoopFromLoop(Task(nextId, Loop, FALSE))
               /\ nextId' = nextId + 1
          ELSE UNCHANGED <<pending, wakeReadable, nextId>>
    /\ UNCHANGED <<lpc, looping, quit, calling, ioReadable, active, ppc,
                   submitted, quitters, ioCount>>

(* Variant that clears pendingFunctors_ after the batch (copy-then-clear *)
(* instead of swap), dropping what the batch itself queued.              *)
DoPendingFunctorsEndClearing ==
    /\ lpc = "functors"
    /\ functors = <<>>
    /\ calling' = FALSE
    /\ pending' = <<>>
    /\ lpc' = "top"
    /\ UNCHANGED <<looping, quit, functors, wakeReadable, ioReadable,
                   active, ppc, submitted, quitters, ioCount, ran, nextId>>

(* doPendingFunctors(), end: callingPendingFunctors_ = false; back to the *)
(* while condition.                                                       *)
DoPendingFunctorsEnd ==
    /\ lpc = "functors"
    /\ functors = <<>>
    /\ calling' = FALSE
    /\ lpc' = "top"
    /\ UNCHANGED <<looping, quit, pending, functors, wakeReadable, ioReadable,
                   active, ppc, submitted, quitters, ioCount, ran, nextId>>

-----------------------------------------------------------------------------
LoopStep ==
    \/ LoopStart \/ LoopIterate \/ LoopExit \/ PollReturn
    \/ HandleWakeupRead \/ HandleIo
    \/ DoPendingFunctorsSwap \/ RunFunctor \/ DoPendingFunctorsEnd

Next ==
    \/ LoopStep
    \/ PollTimeout
    \/ PeerData
    \/ \E p \in Producers : QueueInLoop(p) \/ Quit(p) \/ Wakeup(p)

(* The loop thread never stops by itself and a producer that has pushed  *)
(* goes on to call wakeup().  The 10 s epoll timeout is deliberately not *)
(* fair: the liveness properties below say that work is picked up       *)
(* because of the wakeup mechanism, not because the wait timed out.      *)
Fairness ==
    /\ WF_vars(LoopStep)
    /\ \A p \in Producers : WF_vars(Wakeup(p))

Spec == Init /\ [][Next]_vars /\ Fairness

-----------------------------------------------------------------------------
(* The loop never blocks in epoll_wait with nothing readable while it has *)
(* work whose submitter has finished signalling: every pending functor   *)
(* belongs to a producer still between its push and its wakeup(), and a  *)
(* set quit_ likewise.  This is what the wakeup condition of queueInLoop *)
(* (off-thread, or callingPendingFunctors_) and quit() must guarantee;   *)
(* otherwise the work waits out the 10 s poll bound.                     *)
PollNeverSleepsOnWork ==
    (lpc = "poll" /\ ~wakeReadable /\ ~ioReadable) =>
        /\ \A i \in DOMAIN pending :
              pending[i].by \in Producers /\ ppc[pending[i].by] = "wake"
        /\ quit => \E p \in Producers : ppc[p] = "quitwake"

(* Every functor submitted is eventually run, unless the loop has exited *)
(* (functors still queued when loop() returns are never run).           *)
FunctorEventuallyRuns ==
    \A i \in 1..(Cardinality(Producers) * MaxTasks * 2 + MaxIo) :
        (i < nextId) ~> (i \in Range(ran) \/ lpc = "exited")

(* A quit() is eventually honoured, also one made before loop() is       *)
(* entered: the loop returns from loop().                                *)
QuitEventuallyExits == quit ~> (lpc = "exited")

(* The loop implements the abstract FIFO task queue: functors run once,  *)
(* in submission order, with the queue being the unrun part of the batch *)
(* followed by pendingFunctors_.                                         *)
TQ == INSTANCE LoopTaskQueue
        WITH queue <- functors \o pending, ran <- ran, nextId <- nextId,
             Threads <- Threads, LoopThread <- Loop

ImplementsTaskQueue == TQ!QSpec
=============================================================================
