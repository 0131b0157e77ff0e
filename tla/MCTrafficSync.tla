--------------------------- MODULE MCTrafficSync ---------------------------
(* TrafficSync on small instances.                                         *)
EXTENDS TrafficSync, TLC

\* The timers and the operator's own syncs are interchangeable.
TimerSymmetry == Permutations(Timers)
=============================================================================
