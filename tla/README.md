# TLA+ models of my_muduo

These are TLA+ specifications of the reactor library under `src/src/`, with the
TLC configurations that check them. Source paths below are relative to `src/src/`.

## The system

A my_muduo server is a set of reactors. Each reactor is an `EventLoop`, and one
runs per thread.

- **EventLoop** (`event/EventLoop.cc`) repeats the same iteration:
  - it blocks in `EpollPoller::poll`, which is bounded by a 10 s timeout;
  - it calls `Channel::handleEvent` on every ready channel;
  - it runs `doPendingFunctors`.
- **Cross-thread work.** Other threads hand work to a loop with `runInLoop` or `queueInLoop`:
  - the functor is pushed under a mutex;
  - `wakeup()` then writes an eventfd that the loop itself watches.
- **quit()** sets a flag that the loop tests at the top of each iteration.
- **Channel** (`event/Channel.cc`) holds a descriptor's interest set and its callbacks.
- **EpollPoller** (`event/poller/EpollPoller.cc`) keeps each channel's registration state:
  - `kNew`: not registered;
  - `kAdded`: in epoll;
  - `kDeleted`: known but not in epoll.
- **TcpServer** (`net/TcpServer.cc`) owns an `Acceptor` on the base loop and an
  `EventLoopThreadPool` of io loops. For each accepted socket it:
  1. creates a `TcpConnection` on the next io loop;
  2. keeps it in `connections_`;
  3. asks that loop to run `connectEstablished`.
- **Closing a connection** takes several steps:
  1. `handleClose` calls the server's close callback;
  2. the callback runs `removeConnection` on the base loop, which erases the map entry;
  3. that step queues `connectDestroyed` back on the io loop;
  4. `connectDestroyed` unregisters the channel.
- **Object lifetime** is shared ownership. The connection is kept alive by:
  - the map;
  - functors that bound `shared_from_this()`;
  - the channel's tie guard during a dispatch;
  - application threads holding a `TcpConnectionPtr`.
- **Raw pointers.** The public calls `send`, `shutdown`, `forceClose`,
  `forceCloseWithDelay`, `startRead` and `stopRead` can be made from any thread.
  They queue functors, or a timer, that capture the raw `this`.
- **Other parts:**
  - `TimerQueue` (a `std::set` of `(expiration, Timer*)` on a timerfd);
  - `Buffer`, the `ThreadPool`, `AsyncLogging`;
  - thin wrappers of sockets, threads and clocks.

## Inventory

| Part | State | Operations | Hard behaviour |
|---|---|---|---|
| EventLoop | `quit_`, `looping_`, `callingPendingFunctors_`, `pendingFunctors_`, eventfd | loop, quit, runInLoop, queueInLoop, doPendingFunctors, wakeup, handleRead | Push and wakeup are separate steps; a functor can be queued while a batch runs; quit can come before `loop()` |
| Channel + EpollPoller | `events_`, `index_`, `addedToLoop_`, `channels_`, the epoll set | update, remove, handleEvent | Callbacks run on revents saved before the first callback; kDeleted channels are re-added by any update |
| TcpConnection | `state_` (atomic), `reading_`, output buffer, socket | send, shutdown, forceClose, forceCloseWithDelay, startRead, stopRead and their `*InLoop` functors; handleRead/Write/Close/Error; connectEstablished/Destroyed | CAS from foreign threads; raw-`this` functors and timers; peer FIN/RST racing local calls; partial writes |
| TcpServer + Acceptor | `connections_`, `started_` | start, newConnection, removeConnection, destructor | Removal spans two loops; start is not idempotent |
| TimerQueue | `timers_`, `cancelingTimers_`, timerfd | addTimer, cancel, handleRead, reset | Ties ordered by address; cancel of a deleted timer |
| EventLoopThreadPool | `loops_`, `next_` | start, getNextLoop | `reserve` then `operator[]` |
| Buffer | reader/writer indices | append, retrieve, makeSpace, readFd | Index arithmetic at the prepend boundary |
| ThreadPool | queue, `running_` | start, add, take, stop | `maxQueueSize_ == 0` drops tasks |
| AsyncLogging | current/next buffers, buffers_ | append, threadFunc | Buffer hand-off under a condition variable |

PROJECT.json lists every part with its status, and every hazard at its source line.

## Modules

- **`LoopTaskQueue`** is the abstract specification of a loop's functor queue:
  - every submitted functor runs exactly once;
  - functors run in FIFO order;
  - a functor may queue a follow-up, which goes to the back of the queue.
- **`EventLoop`** models one loop thread and a set of producer threads.
  - State: the loop's program counter; `quit_`; `callingPendingFunctors_`;
    `pendingFunctors_`; the batch being run; the eventfd and one io descriptor;
    each producer's position between push and wakeup.
  - There is one action per step of `loop()`, `doPendingFunctors`, `queueInLoop`,
    `quit` and `wakeup`.
  - The io channel's handler may queue a functor from the loop thread or call `quit()`.
  - It is checked to implement `LoopTaskQueue`. The refinement maps the abstract
    queue to the unrun part of the batch followed by `pendingFunctors_`.
- **`TcpConnection`** models one accepted connection across four kinds of actor:
  - the base loop;
  - its io loop: `ioLoop`, what `EventLoopThreadPool::getNextLoop` returns,
    is the base loop for `setThreadNum(0)` and a pool thread otherwise, and
    `IoThreads` says which of the two the run explores;
  - two application threads;
  - the peer.

  Its parts:
  - Each loop is a functor queue with `doPendingFunctors`' batch semantics. A
    swapped-out batch lives until its last functor has run, and so do the
    `TcpConnectionPtr` copies its functors hold.
  - Channel registration is modelled by `Update` and `Remove`, which follow the
    poller's `kNew`/`kAdded`/`kDeleted` logic.
  - A dispatch (`Dispatch`) computes the callbacks from what epoll reports. The
    callbacks then run one step each, in `handleEventWithGuard`'s order. Another
    thread may act between them.
  - Ownership is computed (`Held`, `Freed`) from the map, the queued shared
    functors, the tie guard and the application threads' copies.
  - Application calls are split in two steps: the state check (or CAS) on the
    caller's thread, then the queued functor.
  - Failed `assert`s are recorded in `failed`, and the model continues as a
    release build would.
  - `handleWrite`'s success branch is unreachable in this code, and the model
    says why (see finding 4).

- **`TimerQueue`** models one loop's timer facility:
  - State: `timers_` as a set of `<<expiration, address>>` entries, ordered
    like `std::pair<Timestamp, Timer*>`; `cancelingTimers_`;
    `callingExpiredTimers_`; the expiry batch; the timerfd (its programmed
    expiry, and whether an expiry is unread); and the loop's queue of
    `addTimerInLoop`/`cancelTimerInLoop` functors.
  - Heap memory: a `Timer` lives at an address of `Addrs`. A deleted one keeps
    its fields until the allocator hands the address out again, so a cancel
    through a stale handle reads whichever timer lives there now.
  - Actions: `AddTimer` and `CancelTimer` run on an application thread.
    `RunFunctor`, `HandleRead`, `RunExpired` (one callback) and `EndExpired`
    (`reset()`) run on the loop thread. `TimerfdExpire` is the kernel and
    `Tick` is time.
  - A callback may cancel itself or any handle, or add a timer. These calls run
    synchronously, because `runInLoop` on the loop thread calls at once.
  - `Timestamp::now` is declared in `base/Timestamp.h` but not defined in the
    repository, so the clock is an abstract non-decreasing counter.

- **`ThreadPool`** models `base/ThreadPool`: an owner thread (`start`,
  `stop` with its join loop, `~ThreadPool`), producer threads calling `add`,
  and the workers of `runInThread`.
  - Every critical section is one step. The condition variables are wait
    sets: a thread in `"waiting"` leaves only when a `notify_one` picks it
    (`NotifyOne` yields every choice) or `notify_all` releases all, and its
    next step re-evaluates the predicate under the mutex, as
    `wait(lock, pred)` does.
  - `add` with no threads runs the task in the caller (`AddInline`);
    otherwise `AddLocked` is the predicate of `notFull_` followed by the push
    guard, which returns without the task when the guard is false.
  - `while(running_)` reads the flag without the mutex (`WorkerTop`);
    the pop and the `notify_one(notFull_)` are `TakeLocked`; running the
    task is `WorkerRun`, outside the lock.
- **`ByteQueue`** is the abstract byte-buffer contract of spec §6 and §8:
  bytes appended at the back leave from the front in order, a read returns
  the oldest bytes, bytes can be put back in front or taken back from the end.
- **`Buffer`** models `net/Buffer`: the vector's bytes and both indices, with
  resize filling zero bytes and stale bytes left where they are.
  `MakeSpace`, `EnsureWritable`, `AppendTo` and `RetrieveFrom` are the
  private helpers as operators, and each public call that changes the buffer
  is an action (`readInt`, `appendInt` and `prependInt` are the
  retrieve/append/prepend of `sizeof(T)` bytes). It is checked to implement
  `ByteQueue` under the mapping `q <- bytes[readerIndex_, writerIndex_)`.
  `findCRLF` (`SearchCRLF` is its `std::search`) and `findEOL` (`memchr`
  over the readable bytes) are operators, checked against a reference
  search of the readable content.

- **`LogQueue`** is the abstract specification of an asynchronous logger:
  a line logged once joins the back of the queue of unwritten lines, and
  the writer moves lines from its front to the end of the file. It says
  nothing about lines being written eventually, since `stop()` may leave
  some unwritten.
- **`AsyncLogging`** models `logger/AsyncLogging` with its `FixedBuffer`
  and the back end's `logFile`.
  - State: `running_`; the owner's position in `start()`/`stop()`; each
    front-end thread's pending line; `currentBuffer_`, `nextBuffer_`,
    `buffers_`; the back end's position in `threadFunc`, `newBuffer1`,
    `newBuffer2`, `bufferToWrite`; the log file (lines written, bytes of the
    current file, files opened, `count_`, `startOfPeriod_`, `lastRoll_`);
    `checkEveryN_`; the clock.
  - A line is an id (ids follow the order of the critical sections) and a
    length; a buffer is its lines and its byte count; a moved-from
    `unique_ptr` is `Null`.
  - `append` is two steps: `AppendEnter` (the `assert(running_)` outside the
    lock) and `AppendLocked` (the whole critical section, both branches).
  - `threadFunc` is `BackInit` (the `logFile`, `sem_post`, the two new
    buffers), `BackTop` (`while(running_)`, read without the mutex),
    `BackLock`/`BackWake` (the locked block; `Swap` is its body after
    `wait_for`), and `BackWrite` (the unlocked part: `OutputAll` writes every
    buffer through `append_unclocked`, then two are kept and given back as
    `newBuffer1`/`newBuffer2` with `reset()`; a failing refill assert is
    recorded).
  - `FixedAppend`, `Avail` and `Reset` are `FixedBuffer`'s members;
    `AppendUnlocked`, `RollFile` and `FileAppend` are `append_unclocked`,
    `rollFile` and `FileUtil::append`, with the roll by size, the roll by
    period every `checkEveryN_` appends, and the one-second guard of
    `rollFile`.
  - `ThreadStart` and `ThreadJoin` are `Thread::start` (its own tid
    handshake ends before the thread function runs, so it is part of the
    start step) and `Thread::join`.
  - `logFile`'s constructor initializes `checkEveryN_` from itself; `Init`
    chooses its value from `CheckEveryNs`.

`MC_EventLoop`, `MC_TcpConnection`, `MC_TimerQueue`, `MC_ThreadPool`,
`MC_Buffer` and `MC_AsyncLogging` give the model values and bounds.

## Runs

| Run | Checks | Result |
|---|---|---|
| `eventloop` | `PollNeverSleepsOnWork`, `FunctorEventuallyRuns`, `QuitEventuallyExits`, `ImplementsTaskQueue` | pass, 41 426 states |
| `conn_lifecycle` | `TypeOK`, `DisconnectReportedOnce`, `ChannelRemovedBeforeFree`, `ClosedConnectionReleased` | pass, about 570 000 states, 2 min |
| `conn_read_control` | `PeerCloseDetected` | pass, 84 275 states, 12 s |
| `conn_use_after_free` | `NoUseAfterFree` | violation |
| `conn_send_drops_data` | `SentDataAccountedFor` | violation |
| `timer` | `TypeOK`, `CancelledNotRescheduled`, `NoTimerLeak`, `TimerfdCoversEarliest`, `DueTimerEventuallyRuns` | pass, about 227 000 states, 30 s |
| `timer_cancel_aba` | `CancelHitsOwnTimer` | violation |
| `threadpool` | `TypeOK`, `TaskNotLost`, `SubmittedTaskRuns`, `AddReturns`, `StopJoins` | pass, 7 608 states |
| `threadpool_default_drops` | `TaskNotLost` | violation |
| `buffer` | `TypeOK`, `AssertionsHold`, `QueriesFindFirst`, `ImplementsByteQueue` | pass, 226 335 states, 12 s |
| `logging` | `AssertionsHold`, `BufferedLineWritten`, `ImplementsLogQueue` | pass, 32 096 states, 4 s |
| `logging_exact_fit_drops` | `AcceptedLineBuffered` | violation |

What the passing runs show:

- **`PollNeverSleepsOnWork`.** The loop never blocks in `epoll_wait` with nothing
  readable while work is queued, unless the submitter is still between its push
  and its `wakeup()`. Without the `callingPendingFunctors_` disjunct, a functor
  queued by a functor waits out the poll timeout.
- **`FunctorEventuallyRuns`.** Every functor runs. This holds even though the poll
  timeout is given no fairness, so it runs because of a wakeup, not a timeout.
- **`QuitEventuallyExits`.** A `quit()` is honoured, including one made before `loop()`.
- **`DisconnectReportedOnce`.** The user's connection callback sees the
  connection go down at most once. This holds whichever of these close it: a peer
  FIN or RST, `shutdown`, `forceClose` or `forceCloseWithDelay` from either thread,
  or the message callback, with `stopRead` calls in between, and whether the
  base loop or a pool thread does the connection's I/O (in the first case
  `removeConnection` runs inside `handleClose`).
- **`ChannelRemovedBeforeFree`.** The channel is out of the poller whenever the
  object dies. This is the `assert(!addedToLoop_)` of `~Channel`.
- **`ClosedConnectionReleased`.** A closed connection is always erased from the
  map and unregistered.

- **`CancelledNotRescheduled`.** Once a cancel has taken effect, `reset()`
  never reinserts the timer. This includes a repeating timer whose callback
  cancels itself (spec §8), and a timer cancelled by another callback of the
  same batch.
- **`NoTimerLeak`.** Every live `Timer` is referenced from `timers_`, the batch
  or a queued `addTimerInLoop`, and from nowhere else once deleted.
- **`TimerfdCoversEarliest` and `DueTimerEventuallyRuns`.** Between dispatches
  the timerfd is readable, or armed no later than the earliest deadline. Every
  due timer eventually leaves `timers_`. This covers `timerfd_settime`
  discarding an unread expiry and cancels of the earliest timer.

- **`PeerCloseDetected` (`conn_read_control`).** A peer FIN or RST always
  brings the connection to Disconnected, with `startRead`, `stopRead` and
  `forceClose` racing it. `reading_` starts false, so `stopRead` on a live
  connection does nothing, and the close callback for POLLHUP without POLLIN
  (`CloseEvent`) runs only after `startRead` has re-armed a closed channel and
  `stopRead` has dropped its read interest again: this run reaches that path,
  the lifecycle run (which leaves `startRead` out) cannot.
- **`TaskNotLost`.** While the pool runs, every task whose `add()` returned
  is queued, being run or done: `notFull_`'s predicate and the push guard
  agree for a bounded queue.
- **`SubmittedTaskRuns`, `AddReturns`, `StopJoins`.** An accepted task runs
  unless the pool is stopped (the spec's promise for the worker pool); a
  producer blocked on a full queue is let go; `stop()` returns, because its
  `notify_all` reaches every waiting worker and producer.
- **`AssertionsHold` (Buffer).** No assert inside `Buffer` fails when callers
  keep to theirs: `makeSpace` moves only when there is room in front, and
  `ensureWritable` always ends with `len` writable bytes.
- **`ImplementsByteQueue`.** The readable bytes are exactly the byte queue's,
  through every `makeSpace` move and resize, `retrieve`'s reset to
  `kCheapPrepend`, `shrink`, and a `readFd` that spills into `extraBuf`; the
  bytes `retrieveAsString` and `writeFd` return are the oldest ones (spec §8's
  round trip).
- **`QueriesFindFirst`.** In every reachable buffer, `findCRLF` from every
  start between the indices, and `findEOL` from `beginRead()`, return the
  first match in the readable bytes: never a stale CR LF past
  `writerIndex_` left by `unwrite`, `retrieve`'s reset or a `makeSpace`
  move, nor one split across `writerIndex_`.
- **`AssertionsHold` (AsyncLogging).** The two `assert(!bufferToWrite.empty())`
  of `threadFunc` hold: whenever the swap moved `newBuffer2` into
  `nextBuffer_`, the front end had queued a full buffer, so the back end has
  two to give back.
- **`ImplementsLogQueue`.** The logger implements `LogQueue` under the
  mapping that reads the lines of `bufferToWrite`, `buffers_` and
  `currentBuffer_`, in that order, as the queue, and the file's lines as
  the file. Every append adds its line at the back, a swap moves no line
  and loses none, a write takes lines only from the front, and a buffer
  given back or recycled brings no old line back (the mutant that drops
  `reset()` fails here). Lines therefore reach the file once each, in
  append order, and no buffered line is skipped. A line that `append()`
  drops at an exact fit never joins the queue; that is finding 6.
- **`BufferedLineWritten`.** A line in any buffer reaches the file unless
  `stop()` has begun, including a line in a `currentBuffer_` that never
  fills, which only the timed `wait_for` gets out.

### Findings

1. **Use after free through the raw `this` (`conn_use_after_free`).**
   - The trace: `forceCloseWithDelay` is accepted, the peer closes, the connection
     is removed and destroyed, and the application drops its pointer.
   - The queued `addTimerInLoop`, and the timer after it, still hold the raw `this`.
   - Every cross-thread public call has the same gap between its check and its
     functor.
2. **Send drops data (`conn_send_drops_data`).**
   - `sendInLoop` sets `toBuffer` only on `EPIPE`/`ECONNRESET`.
   - The remainder of a short write is lost, and so is a message that meets
     `EWOULDBLOCK` or pending output. Spec §4.3 says the remainder is appended.
   - One consequence: the output buffer holds bytes only on a socket that refuses
     every write. So `handleWrite` never takes its `n > 0` branch, and the deferred
     `shutdownInLoop` there never runs.

3. **Ties run in address order (`MC_TimerQueue_ties.cfg`, not in the run
   list).**
   - `timers_` orders equal deadlines by `Timer*`.
   - Spec §3, §4.4 and §8 say that ties run in creation order.
   - When the allocator places the second timer at a lower address, it runs
     first: `tlc -config MC_TimerQueue_ties.cfg MC_TimerQueue` reports
     `TiesFireInCreationOrder` violated. The run list holds twelve runs, and
     this one gave its place to `conn_read_control`, the only run where the
     POLLHUP-only close callback fires.
4. **Cancel through a stale handle hits another timer (`timer_cancel_aba`).**
   - A one-shot timer fires and is deleted.
   - A new timer is allocated at the same address.
   - `cancel()` with the old handle reads the new timer's expiration, finds its
     entry, and erases and deletes it.
   - Spec §3 promises cancellation by an identity independent of the pointer.
5. **The default pool drops every task (`threadpool_default_drops`).**
   - `maxQueueSize_` is 0 unless `setMaxQueueSize()` is called.
   - `add()` then finds `notFull_`'s predicate true at once and the push guard
     false, and returns without the task while the pool runs.
   - Spec §6 asks of the pool that submitted tasks eventually run or the pool
     is explicitly stopped.

6. **A line that exactly fits is dropped (`logging_exact_fit_drops`).**
   - `AsyncLogging::append` keeps a line in `currentBuffer_` when
     `avail() >= len`.
   - `FixedBuffer::append` copies only when `avail() > len` (its FIXME).
   - A line exactly as long as the room left is therefore lost, with no new
     buffer taken; TLC's trace appends a 1-byte and then a 2-byte line to a
     3-byte buffer. A line of `kLargeBuffer` bytes is lost even in a fresh
     buffer.

Kept as observations, reproducible by hand but not in the run list (twelve
runs at most; these two gave their places to the logger):

- **`startRead()` double close**
  (`tlc -config MC_TcpConnection_startread.cfg MC_TcpConnection`, reports
  `DisconnectReportedOnce` violated). `connectEstablished` enables reading
  without setting `reading_`, so a `startRead()` queued while the connection
  is up re-enables reading after `handleClose` cleared the interest set; the
  end of stream is handled again, `handleClose` runs twice and the
  disconnect is reported twice. The same race can re-register the channel
  after `connectDestroyed`, which is why `ChannelRemovedBeforeFree` is
  checked only where `startRead` is absent.
- **Write callback after close**
  (`tlc -config MC_TcpConnection_assert.cfg MC_TcpConnection`, reports
  `AssertionsHold` violated). `handleEventWithGuard` tests `POLLOUT` on
  revents saved before `handleRead` ran; after a peer reset with output
  buffered, `handleRead` reads 0 and closes, then `handleWrite` runs and its
  debug-build `assert(isWriting())` fails.

Also observed while modelling, and not checked by a run: `Buffer::findEOL(start)`
asserts that `start` lies in the readable bytes but then searches from
`beginRead()`, so it can return an end of line before `start`.

## Bounds

**EventLoop:** two producers, one functor each (`MaxTasks = 1`), and one io event
(`MaxIo = 1`). These bounds reach every case that matters:

- a functor queued from outside;
- one queued from the io callback;
- one queued by a functor while the batch runs;
- a quit from either side.

`MaxTasks = 2` takes more than 30 minutes and adds no new interleaving of the
wakeup rule.

**TcpConnection:** two application threads, two public calls in all, one data
segment from the peer, and 2-byte messages. These bounds still allow:

- the split between state check and queue on two threads;
- a short write;
- FIN followed by RST;
- every pair of close paths.

**TimerQueue:**

- two addresses, so an address is reused as soon as a timer is deleted;
- two timers in all, one application cancel;
- delays 0 and 1, one repeat interval of 1;
- time up to 2.

These allow:

- a self-cancelling repeating timer that fires twice;
- a callback that adds or cancels a timer while the batch runs;
- two timers with the same deadline;
- a stale handle whose address is reused.

Three timers with time up to 2 also pass, but take 11 minutes (3.4 million states).

**ThreadPool:** two producers with two tasks each, a pool started with 0 or 2
threads, and a queue bound of 1. Both producers can be blocked on `notFull_`
and both workers on `notEmpty_` at once, a pop can wake either producer, and
`stop()` can come at any point, before, between or after the adds. The
violation run uses the default bound 0.

**Buffer:** `kCheapPrepend = 2`, `kInitialSize = 2`, a 2-byte `extraBuf`, byte
values 1 and 2 (0 is what `resize` writes; 1 is `'\r'` and 2 is `'\n'`,
so every string can hold a line end), strings of 1 or 2 bytes, and six
calls. The sizes scale the code's constants down. Every decision in the
code compares sums of these sizes and the lengths, so both branches of
`makeSpace`, `retrieve`'s reset and `readFd`'s spill into `extraBuf` are
reached within six calls; the coverage of the run shows each branch taken.

**AsyncLogging:** two front-end threads, lines of 1 or 2 bytes, 3-byte
buffers (`kLargeBuffer` scaled down), three lines in all, a roll size of 2
bytes, a roll period of 2 s, a clock up to 2 s, and `checkEveryN_` 0 or 2.
Three lines fill a buffer and spill into the next, so `nextBuffer_` is
taken, `buffers_` holds one or two buffers at a swap, `bufferToWrite` has
more than two buffers to trim, and the file rolls both by size and by
period. The violation run uses a clock that never moves, so the only
difference it needs is a 1-byte line followed by a 2-byte one.

## Fairness

**EventLoop:**

- The loop steps are weakly fair: the loop thread never stops by itself.
- A producer's `wakeup()` is weakly fair, since a thread that has pushed goes on
  to call it.
- The poll timeout has no fairness on purpose, so the liveness properties depend
  only on the wakeup mechanism.

**TcpConnection:**

- Each loop serves a ready channel, a due timer and a non-empty queue in every
  iteration. These steps get strong fairness, because other phases disable them
  in between.
- A started dispatch or batch runs to its end (weak fairness).
- An application thread inside a call finishes it.
- The peer, acceptance and the application's choices have no fairness.

**TimerQueue:** the loop's steps, the timerfd's expiry and the clock are weakly
fair. The application's calls have no fairness.

**ThreadPool:** every worker that is not waiting is scheduled, as is a
notified producer and the owner inside `stop()`'s joins (weak fairness; a
thread blocked on a condition variable is disabled, not unfair). Whether the
application calls `add`, `start` or `stop` is its own choice and has no
fairness; `Terminated` is the explicit final state after the joins, so a
deadlock report means threads stuck for real.

**Buffer:** a sequential object; only safety is checked.

**AsyncLogging:** the back end's steps are weakly fair. Its wait is
`cond_.wait_for(lock, 3s)`, which returns by the timeout when no notify
comes, so `BackWake` is always enabled while the back end waits and weak
fairness is exactly what the code gives. The owner finishing `start()` and
`join()`, and a front-end thread that has passed its assert, are weakly fair
too; whether the application logs, starts or stops is its own choice.

## Not modelled (yet), and the plan

Modelled:

- the EventLoop wakeup and queue protocol (refinement-checked);
- the connection lifecycle across loops, threads and the peer, for both
  outcomes of `getNextLoop`;
- the timer facility (not its destructor);
- the ThreadPool;
- the Buffer (refinement-checked against the byte-queue contract);
- AsyncLogging with FixedBuffer and the back end's logFile.

Not modelled, and why:

- **Lines lost at `stop()`:** `stop()` can clear `running_` while the back
  end writes outside the lock, and the loop then ends without another swap.
  `BufferedLineWritten` exempts a stopped logger; showing the loss would take
  a run of its own.
- **Write errors and flushing in `logFile`:** `FileUtil::append` breaks out
  on `ferror` and drops the rest of the buffer; `flush()` and the flush
  interval change nothing the model tells apart.
- **TcpServer `start()` and `~TcpServer`, `EventLoopThread` start-up and
  destruction, the Acceptor's EMFILE path:** the hazards are listed in
  PROJECT.json at their lines. Each is a violation the model would show with
  a run of its own.
- **LogStream, Logging (the `Logger` front end), Socket, InetAddress, CurrentThread,
  Timestamp:** number and time formatting, `LOG_FATAL`'s `abort()`, and system-call wrappers with no
  concurrency of their own.
- **Buffer's `swap`** between two user buffers, and `findEOL` called with a
  later start (see the observation above; no code of the repository does).
- **SIGPIPE:** nothing under `src/` ignores SIGPIPE, so a write to a socket
  the peer has reset would normally kill the process rather than return
  `EPIPE`. `SendInLoop` takes the `EPIPE` return as the code handles it (the
  application may ignore the signal); no passing property depends on that
  branch. The message callback's `forceClose` is modelled straight to the
  close, without the brief Disconnecting state; the end state is the same.
- byte contents in TcpConnection, socket options, and the spurious failure of
  `compare_exchange_weak`, which the x86-64 build cannot produce.
