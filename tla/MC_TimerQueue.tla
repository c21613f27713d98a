--------------------------- MODULE MC_TimerQueue ---------------------------
(* Bounds for checking TimerQueue: two heap addresses (so an address is    *)
(* reused as soon as a timer is deleted), three timers in all, one cancel  *)
(* by the application, one-shot delays 0 and 1, one repeat interval.       *)
EXTENDS TimerQueue

MCAddrs == {1, 2}
MCAllActs == {"none", "cancelSelf", "cancelOther", "add"}
MCQuietActs == {"none"}
=============================================================================
