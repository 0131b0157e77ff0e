--------------------------- MODULE MCClientAccess ---------------------------
(* ClientAccess on small instances.                                        *)
EXTENDS ClientAccess, TLC

\* Connections are interchangeable here.
ConnSymmetry == Permutations(Conns)
=============================================================================
