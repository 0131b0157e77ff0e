--------------------------- MODULE MCClientApply ---------------------------
(* ClientApply on small instances.                                         *)
EXTENDS ClientApply, TLC

\* Processes are interchangeable: no definition tells one from another.
ProcSymmetry == Permutations(Procs)
=============================================================================
