---------------------------- MODULE MC_EventLoop ----------------------------
(* Model-checking instance of EventLoop: two foreign producer threads,   *)
(* each submitting up to two functors (each possibly chaining a          *)
(* follow-up) and calling quit() at most once, and up to two readiness   *)
(* events on the io channel.                                             *)
EXTENDS EventLoop

CONSTANTS p1, p2, loopThread

MCProducers == {p1, p2}
=============================================================================
