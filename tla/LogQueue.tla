------------------------------- MODULE LogQueue -------------------------------
(***************************************************************************)
(* What an asynchronous logger promises its callers, whatever its         *)
(* buffering: a logged line joins the back of the queue of unwritten       *)
(* lines, every line is logged at most once, and the writer moves some     *)
(* lines from the front of that queue to the end of the file.  Lines are   *)
(* never reordered, duplicated or taken out of the queue other than into   *)
(* the file.  (Nothing here says a line is ever written: stop() may leave  *)
(* lines unwritten.)                                                       *)
(***************************************************************************)
EXTENDS Naturals
LOCAL INSTANCE SequencesExt

CONSTANT Lines

VARIABLES q,        \* lines logged and not yet written, oldest first
          written   \* the lines of the file, in file order

Logged == ToSet(q) \cup ToSet(written)

Init == q = <<>> /\ written = <<>>

\* A caller logs a line it has not logged before.
Log(l) ==
    /\ l \notin Logged
    /\ q' = Append(q, l)
    /\ UNCHANGED written

\* The writer writes the k oldest unwritten lines.
Write(k) ==
    /\ written' = written \o SubSeq(q, 1, k)
    /\ q' = SubSeq(q, k + 1, Len(q))

Next == \/ \E l \in Lines : Log(l)
        \/ \E k \in 1..Len(q) : Write(k)

Spec == Init /\ [][Next]_<<q, written>>
====
