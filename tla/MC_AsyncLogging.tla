-------------------------- MODULE MC_AsyncLogging --------------------------
(* Model values and bounds for checking AsyncLogging with TLC.            *)
EXTENDS AsyncLogging

CONSTANTS p1, p2

MCProducers == {p1, p2}
====
