--------------------------- MODULE MC_ThreadPool ---------------------------
(* Model values and bounds for checking ThreadPool with TLC.              *)
EXTENDS ThreadPool

CONSTANTS p1, p2

MCProducers == {p1, p2}
====
