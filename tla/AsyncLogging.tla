----------------------------- MODULE AsyncLogging -----------------------------
(***************************************************************************)
(* logger/AsyncLogging with its FixedBuffer and logFile: front-end         *)
(* threads append log lines under mutex_ into currentBuffer_ (nextBuffer_  *)
(* as spare, full buffers queued in buffers_); the back-end thread swaps   *)
(* the queued buffers out under the mutex, hands them to logFile outside   *)
(* it, and keeps two buffers to give back.  A log line is its id (ids are *)
(* given in mutex order) and its length in bytes; kLargeBuffer is BufSize. *)
(* Each critical section is one step.  cond_.wait_for(lock, 3s) returns on *)
(* a notify or on the timeout, so the wait is a step the back end always  *)
(* takes eventually.  A failed assert is recorded in `failed`.             *)
(***************************************************************************)
EXTENDS Integers, Sequences, FiniteSets
LOCAL INSTANCE SequencesExt

CONSTANTS Producers,     \* front-end threads
          BufSize,       \* kLargeBuffer
          Lens,          \* lengths of the lines the front end logs
          MaxLines,      \* lines logged in a behaviour, at most
          RollSize,      \* rollSize_ of the logFile
          RollPeriod,    \* logFile::kRollPerSeconds_
          CheckEveryNs,  \* what the uninitialized checkEveryN_ may hold
          MaxTime        \* last second of the clock

ASSUME /\ Lens \subseteq 1..BufSize /\ MaxLines \in Nat
       /\ RollPeriod \in Nat \ {0} /\ MaxTime \in Nat \ {0}

\* A moved-from BufferPtr.
Null == [lines |-> <<>>, n |-> -1]
Buf == [lines : Seq(1..MaxLines), n : 0..BufSize]
NewBuf == [lines |-> <<>>, n |-> 0]

VARIABLES running,   \* running_
          opc,       \* the owner: "init", "starting" (in sem_wait), "running",
                     \* "joining" (in thread_.join()), "stopped"
          ppc,       \* per front-end thread: 0 (idle) or the length it appends
          cur,       \* currentBuffer_
          next,      \* nextBuffer_ (Null once moved from)
          bufs,      \* buffers_
          bpc,       \* the back end: "none", "init", "top", "lock", "waiting",
                     \* "write", "done"
          nb1, nb2,  \* newBuffer1, newBuffer2 of threadFunc
          toWrite,   \* bufferToWrite
          file,      \* the logFile: [lines written, bytes of the current
                     \* file, files opened, count_, startOfPeriod_, lastRoll_]
          checkEveryN, \* checkEveryN_
          now,       \* time(NULL)
          nextId,    \* ids given so far
          failed

vars == <<running, opc, ppc, cur, next, bufs, bpc, nb1, nb2, toWrite, file,
          checkEveryN, now, nextId, failed>>

-----------------------------------------------------------------------------
(* FixedBuffer::append: copies the bytes only if avail() > len.           *)
Avail(b) == BufSize - b.n
FixedAppend(b, id, len) ==
    IF Avail(b) > len THEN [b EXCEPT !.lines = Append(@, id), !.n = @ + len]
    ELSE b

\* Mutant: the reset() of a buffer given back dropped.
ResetForgotten(b) == b

\* reset(): cur_ back to data_.
Reset(b) == [b EXCEPT !.lines = <<>>, !.n = 0]

Period(t) == (t \div RollPeriod) * RollPeriod

(* logFile::rollFile: a new file (FileUtil) when the clock has moved past *)
(* lastRoll_ (getLogFileName has one-second resolution).                   *)
RollFile(f) ==
    IF now > f.lastRoll
       THEN [f EXCEPT !.lastRoll = now, !.start = Period(now), !.bytes = 0,
                      !.files = @ + 1]
       ELSE f

(* FileUtil::append: fwrite_unlocked until all len bytes are written,    *)
(* counted in writtenBytes_ (write errors are not modelled).               *)
FileAppend(f, b) == [f EXCEPT !.lines = @ \o b.lines, !.bytes = @ + b.n]

(* logFile::append -> append_unclocked: FileUtil::append, then roll when  *)
(* writtenBytes() > rollSize_, else every checkEveryN_ appends roll when   *)
(* the period changed (or flush).                                          *)
AppendUnlocked(f, b) ==
    LET g == FileAppend(f, b)
        c == g.count + 1
    IN IF g.bytes > RollSize THEN RollFile(g)
       ELSE IF c < checkEveryN THEN [g EXCEPT !.count = c]
       ELSE IF Period(now) # g.start THEN RollFile([g EXCEPT !.count = 0])
       ELSE [g EXCEPT !.count = 0]

\* The for loop of threadFunc over bufferToWrite.
RECURSIVE OutputAll(_, _)
OutputAll(f, s) ==
    IF s = <<>> THEN f ELSE OutputAll(AppendUnlocked(f, Head(s)), Tail(s))

\* The logFile output(basename_, rollSize_, 0) of threadFunc: its
\* constructor calls rollFile().
NewLogFile ==
    RollFile([lines |-> <<>>, bytes |-> 0, files |-> 0, count |-> 0,
              start |-> 0, lastRoll |-> 0])

-----------------------------------------------------------------------------
Init ==
    /\ running = FALSE /\ opc = "init" /\ ppc = [p \in Producers |-> 0]
    /\ cur = NewBuf /\ next = NewBuf /\ bufs = <<>>
    /\ bpc = "none" /\ nb1 = Null /\ nb2 = Null /\ toWrite = <<>>
    /\ file = [lines |-> <<>>, bytes |-> 0, files |-> 0, count |-> 0,
               start |-> 0, lastRoll |-> 0]
    /\ checkEveryN \in CheckEveryNs
    /\ now = 1 /\ nextId = 0 /\ failed = {}

(* Thread::start: the new thread runs (its tid handshake with the caller  *)
(* is over before threadFunc begins); Thread::join: returns once the       *)
(* thread function has returned.                                           *)
ThreadStart == bpc' = "init"
ThreadJoin == bpc = "done"

\* start(): running_ = true, thread_.start(), sem_wait.
Start ==
    /\ opc = "init"
    /\ running' = TRUE /\ opc' = "starting" /\ ThreadStart
    /\ UNCHANGED <<ppc, cur, next, bufs, nb1, nb2, toWrite, file, checkEveryN,
                   now, nextId, failed>>

StartReturn ==
    /\ opc = "starting" /\ bpc \notin {"none", "init"}
    /\ opc' = "running"
    /\ UNCHANGED <<running, ppc, cur, next, bufs, bpc, nb1, nb2, toWrite, file,
                   checkEveryN, now, nextId, failed>>

\* stop() (and ~AsyncLogging while running_): running_ = false,
\* notify_all, then join.
Stop ==
    /\ opc = "running"
    /\ running' = FALSE /\ opc' = "joining"
    /\ UNCHANGED <<ppc, cur, next, bufs, bpc, nb1, nb2, toWrite, file,
                   checkEveryN, now, nextId, failed>>

Join ==
    /\ opc = "joining" /\ ThreadJoin
    /\ opc' = "stopped"
    /\ UNCHANGED <<running, ppc, cur, next, bufs, bpc, nb1, nb2, toWrite, file,
                   checkEveryN, now, nextId, failed>>

(* append(data, len): the caller's assert(running_), read before the lock. *)
AppendEnter(p, len) ==
    /\ ppc[p] = 0 /\ running
    /\ nextId + Cardinality({q \in Producers : ppc[q] # 0}) < MaxLines
    /\ ppc' = [ppc EXCEPT ![p] = len]
    /\ UNCHANGED <<running, opc, cur, next, bufs, bpc, nb1, nb2, toWrite, file,
                   checkEveryN, now, nextId, failed>>

(* The critical section of append: into currentBuffer_ when avail() >= len; *)
(* otherwise queue it, move nextBuffer_ in (or a new Buffer), append there *)
(* and notify the back end.                                                 *)
AppendLocked(p) ==
    LET len == ppc[p]
        id == nextId + 1
    IN /\ len # 0
       /\ nextId' = id
       /\ ppc' = [ppc EXCEPT ![p] = 0]
       /\ IF Avail(cur) >= len
             THEN /\ cur' = FixedAppend(cur, id, len)
                  /\ UNCHANGED <<bufs, next>>
             ELSE /\ bufs' = Append(bufs, cur)
                  /\ cur' = FixedAppend(IF next # Null THEN next ELSE NewBuf,
                                        id, len)
                  /\ next' = Null
       /\ UNCHANGED <<running, opc, bpc, nb1, nb2, toWrite, file, checkEveryN,
                      now, failed>>

-----------------------------------------------------------------------------
(* threadFunc up to the loop: the logFile, sem_post, newBuffer1/2.         *)
BackInit ==
    /\ bpc = "init"
    /\ file' = NewLogFile
    /\ nb1' = NewBuf /\ nb2' = NewBuf
    /\ bpc' = "top"
    /\ UNCHANGED <<running, opc, ppc, cur, next, bufs, toWrite, checkEveryN,
                   now, nextId, failed>>

(* while(running_), read without the mutex; on leaving, output.flush().    *)
BackTop ==
    /\ bpc = "top"
    /\ bpc' = IF running THEN "lock" ELSE "done"
    /\ UNCHANGED <<running, opc, ppc, cur, next, bufs, nb1, nb2, toWrite, file,
                   checkEveryN, now, nextId, failed>>

\* Mutant: only the queued buffers swapped out, currentBuffer_ left.
SwapQueuedOnly ==
    /\ toWrite' = bufs /\ bufs' = toWrite
    /\ UNCHANGED <<cur, nb1>>
    /\ IF next = Null THEN next' = nb2 /\ nb2' = Null
                      ELSE UNCHANGED <<next, nb2>>
    /\ bpc' = "write"

\* Mutant: newBuffer2 moved into nextBuffer_ whether or not it was empty.
SwapAlwaysNext ==
    /\ toWrite' = Append(bufs, cur)
    /\ bufs' = toWrite
    /\ cur' = nb1 /\ nb1' = Null
    /\ next' = nb2 /\ nb2' = Null
    /\ bpc' = "write"

(* Under the mutex: push currentBuffer_, newBuffer1 becomes current,       *)
(* swap buffers_ with the (empty) bufferToWrite, and newBuffer2 becomes    *)
(* nextBuffer_ if that was moved away.                                     *)
Swap ==
    /\ toWrite' = Append(bufs, cur)
    /\ bufs' = toWrite
    /\ cur' = nb1 /\ nb1' = Null
    /\ IF next = Null THEN next' = nb2 /\ nb2' = Null
                      ELSE UNCHANGED <<next, nb2>>
    /\ bpc' = "write"

BackLock ==
    /\ bpc = "lock"
    /\ IF bufs = <<>> THEN bpc' = "waiting" /\ UNCHANGED <<toWrite, bufs, cur,
                                                          nb1, next, nb2>>
                      ELSE Swap
    /\ UNCHANGED <<running, opc, ppc, file, checkEveryN, now, nextId, failed>>

\* wait_for returns (notify_one, notify_all or the 3 s timeout) with the
\* mutex held again.
BackWake ==
    /\ bpc = "waiting"
    /\ Swap
    /\ UNCHANGED <<running, opc, ppc, file, checkEveryN, now, nextId, failed>>

(* Outside the lock: write every buffer, keep two, give newBuffer1 and    *)
(* newBuffer2 back from the end (reset), clear, output.flush().            *)
BackWrite ==
    LET kept == IF Len(toWrite) > 2 THEN SubSeq(toWrite, 1, 2) ELSE toWrite
        r1 == IF nb1 = Null /\ kept # <<>> THEN SubSeq(kept, 1, Len(kept) - 1)
              ELSE kept
        r2 == IF nb2 = Null /\ r1 # <<>> THEN SubSeq(r1, 1, Len(r1) - 1)
              ELSE r1
    IN /\ bpc = "write"
       /\ file' = OutputAll(file, toWrite)
       /\ nb1' = IF nb1 = Null /\ kept # <<>> THEN Reset(kept[Len(kept)]) ELSE nb1
       /\ nb2' = IF nb2 = Null /\ r1 # <<>> THEN Reset(r1[Len(r1)]) ELSE nb2
       /\ failed' = failed
                    \cup (IF nb1 = Null /\ kept = <<>>
                             THEN {"threadFunc newBuffer1"} ELSE {})
                    \cup (IF nb2 = Null /\ r1 = <<>>
                             THEN {"threadFunc newBuffer2"} ELSE {})
       /\ toWrite' = <<>>
       /\ bpc' = "top"
       /\ UNCHANGED <<running, opc, ppc, cur, next, bufs, checkEveryN, now,
                      nextId>>

\* A second passes.
Tick ==
    /\ now < MaxTime /\ now' = now + 1
    /\ UNCHANGED <<running, opc, ppc, cur, next, bufs, bpc, nb1, nb2, toWrite,
                   file, checkEveryN, nextId, failed>>

\* The owner is done: stop() has returned.
Terminated == opc = "stopped" /\ UNCHANGED vars

Next ==
    \/ Start \/ StartReturn \/ Stop \/ Join
    \/ \E p \in Producers : AppendLocked(p) \/ \E len \in Lens : AppendEnter(p, len)
    \/ BackInit \/ BackTop \/ BackLock \/ BackWake \/ BackWrite
    \/ Tick \/ Terminated

(* The back end runs whenever it can (wait_for ends by the timeout at the *)
(* latest), as do the owner's start() and join() and a front end that has *)
(* passed its assert.  The application's calls are its own choice.        *)
Fairness ==
    /\ WF_vars(BackInit) /\ WF_vars(BackTop) /\ WF_vars(BackLock)
    /\ WF_vars(BackWake) /\ WF_vars(BackWrite)
    /\ WF_vars(StartReturn) /\ WF_vars(Join)
    /\ \A p \in Producers : WF_vars(AppendLocked(p))

Spec == Init /\ [][Next]_vars /\ Fairness
-----------------------------------------------------------------------------
LinesOf(b) == {b.lines[i] : i \in DOMAIN b.lines}
SeqLines(s) == UNION {LinesOf(s[i]) : i \in DOMAIN s}
\* Lines in some buffer: current, spare, queued, or the back end's.
Held == LinesOf(cur) \cup LinesOf(next) \cup SeqLines(bufs) \cup LinesOf(nb1)
        \cup LinesOf(nb2) \cup SeqLines(toWrite)
Written == {file.lines[i] : i \in DOMAIN file.lines}

(* The asserts of threadFunc hold: when newBuffer1 or newBuffer2 was given *)
(* away, bufferToWrite still has a buffer to give back.  That needs every *)
(* behaviour in which the front end used nextBuffer_ to have queued a      *)
(* second buffer.                                                           *)
AssertionsHold == failed = {}

(* The logger implements LogQueue: the lines in bufferToWrite, buffers_ *)
(* and currentBuffer_, in that order, are the queue of unwritten lines    *)
(* and file.lines is the file.  So an append adds its line at the back,   *)
(* a swap moves no line and loses none, the write takes lines only from   *)
(* the front, and a buffer given back (reset) or recycled as              *)
(* currentBuffer_ or nextBuffer_ brings no old line back: lines reach the *)
(* file once each, in append order, with no line skipped that was ever   *)
(* buffered.  (A line append() drops at an exact fit never joins.)        *)
LinesOfSeq(s) == FlattenSeq([i \in DOMAIN s |-> s[i].lines])
Queued == LinesOfSeq(toWrite) \o LinesOfSeq(bufs) \o cur.lines
LogQueueSpec == INSTANCE LogQueue WITH q <- Queued, written <- file.lines,
                                       Lines <- 1..MaxLines
ImplementsLogQueue == LogQueueSpec!Spec

(* A line that is in a buffer is written to the file, unless stop() has   *)
(* begun: also a line in a currentBuffer_ that never fills, which only the *)
(* back end's timed wait gets out.                                         *)
BufferedLineWritten ==
    \A id \in 1..MaxLines : id \in Held ~> (id \in Written \/ ~running)

(* Every line whose append() has returned is in a buffer or in the file:  *)
(* append() checks avail() >= len, and FixedBuffer::append copies only if  *)
(* avail() > len.                                                          *)
AcceptedLineBuffered == \A id \in 1..nextId : id \in Held \cup Written
====
