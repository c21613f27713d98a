----------------------------- MODULE ThreadPool -----------------------------
(***************************************************************************)
(* base/ThreadPool: worker threads taking tasks from a deque guarded by   *)
(* one mutex and two condition variables, notEmpty_ (workers wait for a    *)
(* task) and notFull_ (producers wait for room).                           *)
(*                                                                         *)
(* Every critical section (the body of a lock_guard / unique_lock) is one *)
(* atomic step.  A condition-variable wait is a thread state: "waiting"    *)
(* (in the wait set) until a notify makes it "notified", after which its   *)
(* next step re-acquires the mutex and re-evaluates the predicate, as      *)
(* wait(lock, pred) does.  Spurious wake-ups also re-check the predicate   *)
(* and so change nothing the model can see.  Tasks are <<producer, i>>     *)
(* pairs; running a task is one step.                                      *)
(***************************************************************************)
EXTENDS Integers, Sequences, FiniteSets

CONSTANTS Producers,     \* application threads calling add()
          Work,          \* tasks each producer adds
          NumThreads,    \* the arguments start() may be given
          MaxQueueSize   \* setMaxQueueSize() before start(); 0 is the default

ASSUME /\ Work \in Nat \ {0} /\ MaxQueueSize \in Nat
       /\ NumThreads \subseteq Nat /\ NumThreads # {}

Workers == 1..(CHOOSE n \in NumThreads : \A m \in NumThreads : m <= n)
Tasks == Producers \X (1..Work)

VARIABLES
    running,    \* running_
    owner,      \* the owner thread: "new", "started", "joining" (in stop()'s
                \* join loop), "joined"
    threads,    \* threads_: the workers start() created
    queue,      \* queue_
    wpc,        \* per worker: "top" (while(running_)), "waiting" (notEmpty_),
                \* "notified", "run" (outside the lock, running a task),
                \* "exited"
    executing,  \* per worker: the task it popped
    ppc,        \* per producer: "idle", "waiting" (notFull_), "notified"
    sent,       \* per producer: add() calls made
    returned,   \* tasks whose add() has returned
    ran         \* tasks that have run

vars == <<running, owner, threads, queue, wpc, executing, ppc, sent,
          returned, ran>>

\* The task producer p is adding in its current add() call.
Current(p) == <<p, sent[p]>>

\* notify_one(): one thread of the wait set, if any, becomes runnable.
NotifyOne(pc) ==
    LET waiters == {t \in DOMAIN pc : pc[t] = "waiting"}
    IN IF waiters = {} THEN {pc}
       ELSE {[pc EXCEPT ![t] = "notified"] : t \in waiters}

\* notify_all(): every thread of the wait set becomes runnable.
NotifyAll(pc) ==
    [t \in DOMAIN pc |-> IF pc[t] = "waiting" THEN "notified" ELSE pc[t]]

-----------------------------------------------------------------------------
Init ==
    /\ running = FALSE /\ owner = "new" /\ threads = {}
    /\ queue = <<>>
    /\ wpc = [w \in Workers |-> "top"]
    /\ executing = [w \in Workers |-> <<>>]
    /\ ppc = [p \in Producers |-> "idle"] /\ sent = [p \in Producers |-> 0]
    /\ returned = {} /\ ran = {}

\* Mutant: the worker loop runs to i <= numThreads.
StartOneTooMany ==
    /\ owner = "new"
    /\ \E n \in NumThreads : threads' = 0..n
    /\ running' = TRUE
    /\ owner' = "started"
    /\ UNCHANGED <<queue, wpc, executing, ppc, sent, returned, ran>>

(* ThreadPool::start(numThreads): running_ = true, then one Thread per    *)
(* worker running runInThread.  Producers share the pool once start()     *)
(* has returned.                                                           *)
Start ==
    /\ owner = "new"
    /\ \E n \in NumThreads : threads' = 1..n
    /\ running' = TRUE
    /\ owner' = "started"
    /\ UNCHANGED <<queue, wpc, executing, ppc, sent, returned, ran>>

\* Mutant: stop() forgets notEmpty_.notify_all().
StopNotifyingProducersOnly ==
    /\ owner = "started"
    /\ running' = FALSE
    /\ ppc' = NotifyAll(ppc)
    /\ owner' = "joining"
    /\ UNCHANGED <<threads, queue, wpc, executing, sent, returned, ran>>

(* ThreadPool::stop(): under the mutex running_ = false, notify_all on    *)
(* both condition variables; then join every thread.  ~ThreadPool calls   *)
(* it when running_ is still set.                                          *)
Stop ==
    /\ owner = "started"
    /\ running' = FALSE
    /\ wpc' = NotifyAll(wpc)
    /\ ppc' = NotifyAll(ppc)
    /\ owner' = "joining"
    /\ UNCHANGED <<threads, queue, executing, sent, returned, ran>>

Join ==
    /\ owner = "joining"
    /\ \A w \in threads : wpc[w] = "exited"
    /\ owner' = "joined"
    /\ UNCHANGED <<running, threads, queue, wpc, executing, ppc, sent,
                   returned, ran>>

-----------------------------------------------------------------------------
(* add() with no threads runs the task in the caller.                      *)
AddInline(p) ==
    /\ owner # "new" /\ threads = {}
    /\ ppc[p] = "idle" /\ sent[p] < Work
    /\ sent' = [sent EXCEPT ![p] = @ + 1]
    /\ returned' = returned \cup {<<p, sent[p] + 1>>}
    /\ ran' = ran \cup {<<p, sent[p] + 1>>}
    /\ UNCHANGED <<running, owner, threads, queue, wpc, executing, ppc>>

\* Mutant: the push guard off by one.
CanPushOffByOne == running /\ Len(queue) + 1 < MaxQueueSize /\ MaxQueueSize # 0

\* notFull_'s predicate, and the guard of the push that follows the wait.
NotFull == ~running \/ Len(queue) < MaxQueueSize \/ MaxQueueSize = 0
CanPush == running /\ Len(queue) < MaxQueueSize /\ MaxQueueSize # 0

\* Mutant: the push without notify_one(notEmpty_).
AddLockedNoNotify(p, t) ==
    IF NotFull
    THEN /\ ppc' = [ppc EXCEPT ![p] = "idle"]
         /\ returned' = returned \cup {t}
         /\ IF CanPush THEN queue' = Append(queue, t) ELSE UNCHANGED queue
         /\ UNCHANGED wpc
    ELSE /\ ppc' = [ppc EXCEPT ![p] = "waiting"]
         /\ UNCHANGED <<returned, queue, wpc>>

(* The rest of add() under the mutex: wait on notFull_ unless its          *)
(* predicate holds; then push and notify_one(notEmpty_) if the guard      *)
(* holds, and return without the task otherwise.                          *)
AddLocked(p, t) ==
    IF NotFull
    THEN /\ ppc' = [ppc EXCEPT ![p] = "idle"]
         /\ returned' = returned \cup {t}
         /\ IF CanPush
               THEN /\ queue' = Append(queue, t)
                    /\ wpc' \in NotifyOne(wpc)
               ELSE UNCHANGED <<queue, wpc>>
    ELSE /\ ppc' = [ppc EXCEPT ![p] = "waiting"]
         /\ UNCHANGED <<returned, queue, wpc>>

AddEnter(p) ==
    /\ owner # "new" /\ threads # {}
    /\ ppc[p] = "idle" /\ sent[p] < Work
    /\ sent' = [sent EXCEPT ![p] = @ + 1]
    /\ AddLocked(p, <<p, sent[p] + 1>>)
    /\ UNCHANGED <<running, owner, threads, executing, ran>>

AddWoken(p) ==
    /\ ppc[p] = "notified"
    /\ AddLocked(p, Current(p))
    /\ UNCHANGED <<running, owner, threads, executing, sent, ran>>

-----------------------------------------------------------------------------
\* Mutant: the pop without notify_one(notFull_).
TakeLockedNoNotify(w) ==
    IF ~running \/ queue # <<>>
    THEN IF queue # <<>> /\ running
         THEN /\ executing' = [executing EXCEPT ![w] = Head(queue)]
              /\ queue' = Tail(queue)
              /\ wpc' = [wpc EXCEPT ![w] = "run"]
              /\ UNCHANGED ppc
         ELSE /\ wpc' = [wpc EXCEPT ![w] = "top"]
              /\ UNCHANGED <<executing, queue, ppc>>
    ELSE /\ wpc' = [wpc EXCEPT ![w] = "waiting"]
         /\ UNCHANGED <<executing, queue, ppc>>

(* runInThread's critical section: wait on notEmpty_ unless its predicate *)
(* holds; pop the front task if there is one and the pool still runs, and  *)
(* then notify_one(notFull_) when the queue is bounded.                    *)
TakeLocked(w) ==
    IF ~running \/ queue # <<>>
    THEN IF queue # <<>> /\ running
         THEN /\ executing' = [executing EXCEPT ![w] = Head(queue)]
              /\ queue' = Tail(queue)
              /\ wpc' = [wpc EXCEPT ![w] = "run"]
              /\ IF MaxQueueSize > 0 THEN ppc' \in NotifyOne(ppc)
                                     ELSE UNCHANGED ppc
         ELSE /\ wpc' = [wpc EXCEPT ![w] = "top"]
              /\ UNCHANGED <<executing, queue, ppc>>
    ELSE /\ wpc' = [wpc EXCEPT ![w] = "waiting"]
         /\ UNCHANGED <<executing, queue, ppc>>

(* while(running_): the flag is read without the mutex; the thread leaves  *)
(* the loop, or enters the critical section.                               *)
WorkerTop(w) ==
    /\ w \in threads /\ wpc[w] = "top"
    /\ IF running THEN TakeLocked(w)
                  ELSE /\ wpc' = [wpc EXCEPT ![w] = "exited"]
                       /\ UNCHANGED <<executing, queue, ppc>>
    /\ UNCHANGED <<running, owner, threads, sent, returned, ran>>

WorkerWoken(w) ==
    /\ wpc[w] = "notified"
    /\ TakeLocked(w)
    /\ UNCHANGED <<running, owner, threads, sent, returned, ran>>

(* if(task) task(): outside the mutex.                                     *)
WorkerRun(w) ==
    /\ wpc[w] = "run"
    /\ ran' = ran \cup {executing[w]}
    /\ wpc' = [wpc EXCEPT ![w] = "top"]
    /\ UNCHANGED <<running, owner, threads, queue, executing, ppc, sent,
                   returned>>

\* The owner has joined and every producer has made all its calls.
Terminated ==
    /\ owner = "joined"
    /\ \A p \in Producers : ppc[p] = "idle" /\ sent[p] = Work
    /\ UNCHANGED vars

Next ==
    \/ Start \/ Stop \/ Join
    \/ \E p \in Producers : AddInline(p) \/ AddEnter(p) \/ AddWoken(p)
    \/ \E w \in Workers : WorkerTop(w) \/ WorkerWoken(w) \/ WorkerRun(w)
    \/ Terminated

(* The scheduler runs every runnable thread: a worker that is not waiting, *)
(* a notified producer, and the owner inside stop().  Whether and when the *)
(* application starts, stops or calls add() is its own choice.             *)
Fairness ==
    /\ \A w \in Workers : WF_vars(WorkerTop(w) \/ WorkerWoken(w) \/ WorkerRun(w))
    /\ \A p \in Producers : WF_vars(AddWoken(p))
    /\ WF_vars(Join)

Spec == Init /\ [][Next]_vars /\ Fairness
-----------------------------------------------------------------------------
TypeOK ==
    /\ running \in BOOLEAN
    /\ owner \in {"new", "started", "joining", "joined"}
    /\ threads \subseteq Workers
    /\ queue \in Seq(Tasks)
    /\ wpc \in [Workers -> {"top", "waiting", "notified", "run", "exited"}]
    /\ executing \in [Workers -> Tasks \cup {<<>>}]
    /\ ppc \in [Producers -> {"idle", "waiting", "notified"}]
    /\ sent \in [Producers -> 0..Work]
    /\ returned \subseteq Tasks /\ ran \subseteq Tasks

\* Tasks the pool still holds: queued, or popped by a worker not done yet.
InPool == {queue[i] : i \in DOMAIN queue}
          \cup {executing[w] : w \in {v \in threads : wpc[v] = "run"}}

(* While the pool runs, a task whose add() has returned is queued, being  *)
(* run, or has run: add() never discards work of a running pool (the      *)
(* interplay of notFull_'s predicate with the push guard in add()).       *)
TaskNotLost == running => returned \subseteq ran \cup InPool

(* A task accepted by add() eventually runs, unless the pool is stopped:   *)
(* the guarantee the spec asks of the worker pool (notify_one(notEmpty_)  *)
(* after the push, the re-check of the queue by a worker that was busy).  *)
SubmittedTaskRuns ==
    \A t \in Tasks : (t \in returned /\ running) ~> (t \in ran \/ ~running)

(* A producer blocked on notFull_ is eventually let go: by a worker's      *)
(* notify_one after a pop, or by stop()'s notify_all.                      *)
AddReturns == \A p \in Producers : ppc[p] # "idle" ~> ppc[p] = "idle"

(* stop() returns: its notify_all wakes every waiting worker, which then  *)
(* sees running_ false and leaves runInThread, so every join() returns.   *)
StopJoins == owner = "joining" ~> owner = "joined"
====
