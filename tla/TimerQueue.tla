----------------------------- MODULE TimerQueue -----------------------------
(***************************************************************************)
(* The timer facility of one EventLoop (timer/TimerQueue.cc, Timer.h/.cc,  *)
(* and EventLoop::runAfter/runEvery/cancel).                               *)
(*                                                                         *)
(* timers_ is a std::set of entries <<expiration, Timer*>>, ordered by     *)
(* expiration and then by the pointer value.  A Timer is heap memory at an *)
(* address of Addrs; the address is what the caller gets back as the     *)
(* handle and later passes to cancel().  Freed memory keeps the fields it *)
(* had until the allocator hands the address out again, so a cancel()    *)
(* through a stale handle reads whatever Timer lives there now.           *)
(*                                                                         *)
(* Actors: an application thread that creates and cancels timers (its    *)
(* calls reach the loop as functors, run in FIFO order, see              *)
(* LoopTaskQueue); the loop thread, which runs those functors and the     *)
(* timerfd's handleRead; the kernel's timerfd; and the passing of time.   *)
(* A timer callback runs on the loop thread, so a cancel() or runAfter()  *)
(* it makes is executed synchronously (runInLoop in the loop thread).     *)
(***************************************************************************)
EXTENDS Integers, SequencesExt, FiniteSets

CONSTANTS Addrs,      \* heap addresses a Timer can be allocated at (integers)
          Delays,     \* runAfter delays
          Intervals,  \* runEvery intervals (> 0)
          Acts,       \* what a callback does: "none", "cancelSelf",
                      \* "cancelOther", "add"
          MaxTimers,  \* bound on Timers created (s_numCreated_)
          MaxCancels, \* bound on cancel() calls by the application
          MaxTime     \* the clock stops here

None == -1
MaxExp == MaxTime + Max(Delays \cup Intervals)
Times == 0..MaxExp

VARIABLES clock,     \* the (monotonic) clock
          mem,       \* mem[a]: the Timer object at address a, live or freed
          nCreated,  \* Timer::s_numCreated_
          handles,   \* Timer* handles handed out, with the sequence meant
          timers,    \* timers_: set of <<expiration, address>>
          canceling, \* cancelingTimers_
          calling,   \* callingExpiredTimers_
          expired,   \* the vector returned by getExpired, in set order
          idx,       \* next entry of expired whose callback runs
          now,       \* the Timestamp handleRead read
          armed,     \* the timerfd's programmed expiry, or None
          readable,  \* the timerfd has expired and not been read
          pending,   \* the loop's queue of addTimerInLoop/cancelTimerInLoop
          nCancels,  \* application cancel() calls made
          victims    \* history: [meant, hit] for every cancel that took effect

vars == <<clock, mem, nCreated, handles, timers, canceling, calling, expired,
          idx, now, armed, readable, pending, nCancels, victims>>

TimerRec == [live: BOOLEAN, seq: 0..MaxTimers, exp: Times,
             interval: {0} \cup Intervals, act: Acts]
Entries == Times \X Addrs
Functor == [op: {"add"}, addr: Addrs] \cup
           [op: {"cancel"}, addr: Addrs, meant: 1..MaxTimers]

\* std::pair<Timestamp, Timer*> operator<: expiration, then address.
EntryLess(x, y) == x[1] < y[1] \/ (x[1] = y[1] /\ x[2] < y[2])

EarliestExp(S) == Min({e[1] : e \in S})

\* The Timer constructor; repeat_ is interval > 0, sequence_ ++s_numCreated_.
NewTimer(seq, when, interval, act) ==
    [live |-> TRUE, seq |-> seq, exp |-> when, interval |-> interval, act |-> act]

\* runAfter(delay) and runEvery(interval): deadline and interval of a new timer.
TimerKinds ==
    {[exp |-> clock + d, interval |-> 0] : d \in Delays} \cup
    {[exp |-> clock + i, interval |-> i] : i \in Intervals}

\* operator new: any address not holding a live Timer.
FreeAddrs == {a \in Addrs : ~mem[a].live}

\* Mutant: the absolute expiration handed to timerfd_settime as if relative.
ResetTimerfdAbsolute(when) ==
    /\ armed' = clock + Max({when, 0})
    /\ readable' = FALSE

\* resetTimerfd: program the timerfd for `when`, at least "now" (100 us
\* minimum); timerfd_settime also discards an expiry not yet read.
ResetTimerfd(when) ==
    /\ armed' = Max({when, clock})
    /\ readable' = FALSE

\* Mutant: the empty-set case of insert() forgotten.
EarliestChangedOnlyIfEarlier(e) ==
    timers # {} /\ e[1] < EarliestExp(timers)

\* insert(): whether the new entry is earlier than every entry already there.
EarliestChanged(e) == timers = {} \/ e[1] < EarliestExp(timers)

\* addTimerInLoop(timer): insert, and reprogram the timerfd if it is earliest.
AddTimerInLoop(a, when) ==
    LET e == <<when, a>> IN
    /\ timers' = timers \cup {e}
    /\ IF EarliestChanged(e) THEN ResetTimerfd(when)
                             ELSE UNCHANGED <<armed, readable>>

\* cancelTimerInLoop(timer): look the entry up by the expiration read from
\* *timer; erase and delete it if present, else remember it if a batch runs.
CancelTimerInLoop(a, meant) ==
    LET e   == <<mem[a].exp, a>>
        hit == [meant |-> meant, hit |-> mem[a].seq]
    IN
    IF e \in timers
    THEN /\ timers' = timers \ {e}
         /\ mem' = [mem EXCEPT ![a].live = FALSE]
         /\ victims' = victims \cup {hit}
         /\ UNCHANGED canceling
    ELSE IF calling
    THEN /\ canceling' = canceling \cup {e}
         /\ victims' = IF e \in Range(expired) THEN victims \cup {hit}
                                               ELSE victims
         /\ UNCHANGED <<timers, mem>>
    ELSE UNCHANGED <<timers, mem, canceling, victims>>

\* Mutant: getExpired with lower_bound(<<now, 0>>), entries due now left out.
GetExpiredStrict(t) == {e \in timers : e[1] < t}

\* getExpired(now): the entries below <<now, UINTPTR_MAX>>, i.e. expiration <= now.
GetExpired(t) == {e \in timers : e[1] <= t}

\* Timer::restart(now) for a repeating timer.
Restart(a, t) == [mem[a] EXCEPT !.exp = t + mem[a].interval]

\* Mutant: reset() without the cancelingTimers_ test.
RescheduledIgnoringCanceling(batch) ==
    {e \in batch : mem[e[2]].interval > 0}

\* The test in reset(): a repeating timer not in cancelingTimers_ is restarted.
RescheduledOf(batch) ==
    {e \in batch : mem[e[2]].interval > 0 /\ e \notin canceling}

\* Mutant: only one-shot timers deleted.
DeletedOnlyOneShot(batch) == {e \in batch : mem[e[2]].interval = 0}

\* The else branch of that test: the timer is deleted.
DeletedOf(batch) == batch \ RescheduledOf(batch)

\* reset(expired, now): reinsert the repeating timers not cancelled during the
\* batch, delete the others, and reprogram the timerfd for the earliest entry.
Reset(batch, t) ==
    LET again     == RescheduledOf(batch)
        newTimers == timers \cup {<<t + mem[e[2]].interval, e[2]>> : e \in again}
    IN
    /\ mem' = [a \in Addrs |->
                 IF \E e \in again : e[2] = a THEN Restart(a, t)
                 ELSE IF \E e \in DeletedOf(batch) : e[2] = a
                      THEN [mem[a] EXCEPT !.live = FALSE]
                      ELSE mem[a]]
    /\ timers' = newTimers
    /\ IF newTimers # {} THEN ResetTimerfd(EarliestExp(newTimers))
                         ELSE UNCHANGED <<armed, readable>>

Init ==
    /\ clock = 0
    /\ mem = [a \in Addrs |-> [NewTimer(0, 0, 0, "none") EXCEPT !.live = FALSE]]
    /\ nCreated = 0
    /\ handles = {}
    /\ timers = {}
    /\ canceling = {}
    /\ calling = FALSE
    /\ expired = <<>>
    /\ idx = 1
    /\ now = 0
    /\ armed = None
    /\ readable = FALSE
    /\ pending = <<>>
    /\ nCancels = 0
    /\ victims = {}

-----------------------------------------------------------------------------
(* Application thread.                                                     *)

\* runAfter/runEvery -> addTimer: new Timer on the caller's thread, handle
\* returned at once, insertion queued to the loop.
AddTimer ==
    /\ nCreated < MaxTimers
    /\ \E a \in FreeAddrs, k \in TimerKinds, act \in Acts :
         /\ mem' = [mem EXCEPT ![a] = NewTimer(nCreated + 1, k.exp, k.interval, act)]
         /\ nCreated' = nCreated + 1
         /\ handles' = handles \cup {[addr |-> a, seq |-> nCreated + 1]}
         /\ pending' = Append(pending, [op |-> "add", addr |-> a])
    /\ UNCHANGED <<clock, timers, canceling, calling, expired, idx, now, armed,
                   readable, nCancels, victims>>

\* cancel -> cancelTimer: queue cancelTimerInLoop with the raw pointer.
CancelTimer ==
    /\ nCancels < MaxCancels
    /\ \E h \in handles :
         pending' = Append(pending, [op |-> "cancel", addr |-> h.addr, meant |-> h.seq])
    /\ nCancels' = nCancels + 1
    /\ UNCHANGED <<clock, mem, nCreated, handles, timers, canceling, calling,
                   expired, idx, now, armed, readable, victims>>

-----------------------------------------------------------------------------
(* Loop thread.                                                            *)

\* doPendingFunctors runs a queued addTimerInLoop or cancelTimerInLoop.
\* Functors run after the dispatch pass, never inside handleRead.
RunFunctor ==
    /\ ~calling
    /\ pending # <<>>
    /\ LET f == Head(pending) IN
         IF f.op = "add"
         THEN /\ AddTimerInLoop(f.addr, mem[f.addr].exp)
              /\ UNCHANGED <<mem, canceling, victims>>
         ELSE /\ CancelTimerInLoop(f.addr, f.meant)
              /\ UNCHANGED <<armed, readable>>
    /\ pending' = Tail(pending)
    /\ UNCHANGED <<clock, nCreated, handles, calling, expired, idx, now, nCancels>>

\* handleRead up to the callbacks: take now, read the timerfd, getExpired,
\* set callingExpiredTimers_ and clear cancelingTimers_.
HandleRead ==
    /\ readable
    /\ ~calling
    /\ now' = clock
    /\ readable' = FALSE
    /\ expired' = SetToSortSeq(GetExpired(clock), EntryLess)
    /\ timers' = timers \ GetExpired(clock)
    /\ calling' = TRUE
    /\ canceling' = {}
    /\ idx' = 1
    /\ UNCHANGED <<clock, mem, nCreated, handles, armed, pending, nCancels, victims>>

\* A runAfter/runEvery made by a callback: runInLoop runs addTimerInLoop
\* at once on the loop thread.
CallbackAdds(self) ==
    \E a \in FreeAddrs, k \in TimerKinds :
        /\ mem' = [mem EXCEPT ![a] = NewTimer(nCreated + 1, k.exp, k.interval, "none")]
        /\ nCreated' = nCreated + 1
        /\ handles' = handles \cup {[addr |-> a, seq |-> nCreated + 1]}
        /\ AddTimerInLoop(a, k.exp)
        /\ UNCHANGED <<canceling, victims>>

\* The loop of handleRead: entry.second->run() for the next expired entry.
\* The callback may cancel its own timer or another one, or add a timer
\* (which it skips once the model's bound on timers or addresses is hit).
RunExpired ==
    /\ calling
    /\ idx <= Len(expired)
    /\ LET a == expired[idx][2] IN
         CASE mem[a].act = "cancelSelf" ->
                /\ CancelTimerInLoop(a, mem[a].seq)
                /\ UNCHANGED <<nCreated, handles, armed, readable>>
           [] mem[a].act = "cancelOther" ->
                /\ \E h \in handles : CancelTimerInLoop(h.addr, h.seq)
                /\ UNCHANGED <<nCreated, handles, armed, readable>>
           [] mem[a].act = "add" /\ nCreated < MaxTimers /\ FreeAddrs # {} ->
                CallbackAdds(a)
           [] OTHER ->
                UNCHANGED <<mem, nCreated, handles, timers, canceling, armed,
                            readable, victims>>
    /\ idx' = idx + 1
    /\ UNCHANGED <<clock, calling, expired, now, pending, nCancels>>

\* handleRead after the callbacks: clear callingExpiredTimers_, then reset().
EndExpired ==
    /\ calling
    /\ idx > Len(expired)
    /\ calling' = FALSE
    /\ Reset(Range(expired), now)
    /\ expired' = <<>>
    /\ idx' = 1
    /\ UNCHANGED <<clock, nCreated, handles, canceling, now, pending, nCancels,
                   victims>>

-----------------------------------------------------------------------------
(* Kernel and time.                                                        *)

\* The timerfd reaches its programmed expiry and becomes readable.
TimerfdExpire ==
    /\ armed # None
    /\ armed <= clock
    /\ armed' = None
    /\ readable' = TRUE
    /\ UNCHANGED <<clock, mem, nCreated, handles, timers, canceling, calling,
                   expired, idx, now, pending, nCancels, victims>>

Tick ==
    /\ clock < MaxTime
    /\ clock' = clock + 1
    /\ UNCHANGED <<mem, nCreated, handles, timers, canceling, calling, expired,
                   idx, now, armed, readable, pending, nCancels, victims>>

Next ==
    \/ AddTimer \/ CancelTimer
    \/ RunFunctor \/ HandleRead \/ RunExpired \/ EndExpired
    \/ TimerfdExpire \/ Tick

\* The loop thread and the kernel never stop, and time passes; the
\* application's calls get no fairness.
Fairness ==
    /\ WF_vars(RunFunctor) /\ WF_vars(HandleRead)
    /\ WF_vars(RunExpired) /\ WF_vars(EndExpired)
    /\ WF_vars(TimerfdExpire) /\ WF_vars(Tick)

Spec == Init /\ [][Next]_vars /\ Fairness

-----------------------------------------------------------------------------
(* Properties.                                                             *)

Cancelled == {v.hit : v \in victims}

TypeOK ==
    /\ clock \in 0..MaxTime
    /\ mem \in [Addrs -> TimerRec]
    /\ nCreated \in 0..MaxTimers
    /\ handles \subseteq [addr: Addrs, seq: 1..MaxTimers]
    /\ timers \subseteq Entries
    /\ canceling \subseteq Entries
    /\ calling \in BOOLEAN
    /\ expired \in Seq(Entries)
    /\ idx \in 1..(Cardinality(Addrs) + 1)
    /\ now \in 0..MaxTime
    /\ armed \in Times \cup {None}
    /\ readable \in BOOLEAN
    /\ pending \in Seq(Functor)
    /\ nCancels \in 0..MaxCancels
    /\ victims \subseteq [meant: 1..MaxTimers, hit: 0..MaxTimers]

\* A cancelled timer never comes back: once cancel() has taken effect on a
\* timer (erased from timers_, or recorded in cancelingTimers_ while its
\* batch runs, as when a repeating timer's callback cancels itself), reset()
\* never reinserts it.
CancelledNotRescheduled ==
    \A e \in timers : mem[e[2]].seq \notin Cancelled

\* Every Timer object alive on the heap is referenced from exactly the places
\* that will delete it: timers_, the expiry batch, or a queued
\* addTimerInLoop.  A timer cancelled during its batch must still be deleted
\* by reset(), and a deleted one must not stay in timers_.
NoTimerLeak ==
    {a \in Addrs : mem[a].live} =
        {e[2] : e \in timers} \cup {e[2] : e \in Range(expired)} \cup
        {f.addr : f \in {g \in Range(pending) : g.op = "add"}}

\* Between dispatches, the timerfd is readable or programmed to expire no
\* later than the earliest timer in timers_ (or at once if that is past):
\* addTimerInLoop, cancelTimerInLoop and reset() never leave the earliest
\* timer without a wakeup.
TimerfdCoversEarliest ==
    (~calling /\ timers # {}) =>
        \/ readable
        \/ armed # None /\ armed <= Max({EarliestExp(timers), clock})

\* Every timer whose deadline the clock reaches eventually leaves timers_:
\* handleRead takes it out, runs it, and deletes or reschedules it.
DueTimerEventuallyRuns ==
    \A e \in Entries :
        (e \in timers /\ e[1] <= MaxTime) ~> (e \notin timers)

\* Spec sections 3, 4.4 and 8: timers with the same deadline run in the order
\* they were created (sequence order breaks ties), within one expiry batch.
TiesFireInCreationOrder ==
    \A i, j \in 1..Len(expired) :
        (i < j /\ expired[i][1] = expired[j][1])
            => mem[expired[i][2]].seq < mem[expired[j][2]].seq

\* Spec section 3: a timer's identity for cancellation is independent of
\* pointer identity, so cancel(handle) only ever removes (or marks in
\* cancelingTimers_) the timer the handle was returned for.
CancelHitsOwnTimer ==
    \A v \in victims : v.hit = v.meant
=============================================================================
