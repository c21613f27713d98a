------------------------------ MODULE ByteQueue ------------------------------
(***************************************************************************)
(* The byte buffer contract the connection layer relies on (spec sections *)
(* 6 and 8): bytes appended at the tail are consumed from the head in the  *)
(* order they were appended and never read twice; a consumer may take a   *)
(* prefix (and see exactly those bytes), drop a prefix, put bytes back in  *)
(* front, or take back bytes just appended.                               *)
(***************************************************************************)
EXTENDS Integers, Sequences

CONSTANTS Chunks   \* the byte strings an operation may be given

VARIABLES q,       \* the readable bytes, oldest first
          out      \* the bytes the last read operation returned

Init == q = <<>> /\ out = <<>>

AppendBytes(d) == q' = q \o d /\ UNCHANGED out
Prepend(d) == q' = d \o q /\ UNCHANGED out

\* A prefix of n bytes leaves the queue, returned to the caller or dropped.
Take(n) == n <= Len(q) /\ out' = SubSeq(q, 1, n) /\ q' = SubSeq(q, n + 1, Len(q))
Drop(n) == n <= Len(q) /\ q' = SubSeq(q, n + 1, Len(q)) /\ UNCHANGED out

\* The last n bytes are taken back.
Unappend(n) == n <= Len(q) /\ q' = SubSeq(q, 1, Len(q) - n) /\ UNCHANGED out

Next ==
    \/ \E d \in Chunks : AppendBytes(d) \/ Prepend(d)
    \/ \E n \in 0..Len(q) : Take(n) \/ Drop(n) \/ Unappend(n)

Spec == Init /\ [][Next]_<<q, out>>
====
