-------------------------- MODULE MCTelegramPoller --------------------------
(* TelegramPoller on small instances.                                      *)
EXTENDS TelegramPoller, TLC

\* Which of the pollers is the service matters only to FairSpec.
PollerSymmetry == Permutations(Pollers)
=============================================================================
