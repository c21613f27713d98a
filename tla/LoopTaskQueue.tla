---------------------------- MODULE LoopTaskQueue ----------------------------
(***************************************************************************)
(* What an EventLoop promises to the threads that hand it work through     *)
(* runInLoop/queueInLoop (spec section 5): every submitted functor is run  *)
(* exactly once, on the loop thread, in the order it was appended to the   *)
(* loop's queue.  A functor may itself queue a follow-up functor when it   *)
(* runs (its "chain" flag); the follow-up goes to the back of the queue.   *)
(*                                                                         *)
(* This is the abstract specification that EventLoop refines, and the     *)
(* semantics the connection-lifecycle modules assume of every loop.       *)
(***************************************************************************)
EXTENDS Naturals, Sequences

CONSTANTS Threads,   \* threads that may submit functors (the loop included)
          LoopThread \* the loop's own thread; follow-up functors are its

VARIABLES queue,     \* functors submitted and not yet run, in run order
          ran,       \* ids of the functors run so far, in run order
          nextId     \* id the next submitted functor gets

qvars == <<queue, ran, nextId>>

Task(id, by, chain) == [id |-> id, by |-> by, chain |-> chain]

QInit ==
    /\ queue = <<>>
    /\ ran = <<>>
    /\ nextId = 1

\* Some thread appends a functor.
Enqueue ==
    \E by \in Threads, chain \in BOOLEAN :
        /\ queue' = Append(queue, Task(nextId, by, chain))
        /\ nextId' = nextId + 1
        /\ UNCHANGED ran

\* The loop runs the oldest functor; a chaining functor appends its follow-up.
RunHead ==
    /\ queue # <<>>
    /\ ran' = Append(ran, Head(queue).id)
    /\ IF Head(queue).chain
          THEN /\ queue' = Append(Tail(queue), Task(nextId, LoopThread, FALSE))
               /\ nextId' = nextId + 1
          ELSE /\ queue' = Tail(queue)
               /\ UNCHANGED nextId

QNext == Enqueue \/ RunHead

QSpec == QInit /\ [][QNext]_qvars
=============================================================================
