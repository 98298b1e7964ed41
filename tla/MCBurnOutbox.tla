---------------------------- MODULE MCBurnOutbox ----------------------------
(* BurnOutbox on three events and two workers.                             *)
EXTENDS BurnOutbox, TLC

CONSTANTS e1, e2, e3, w1, w2

MCEvents  == {e1, e2, e3}
MCTwo     == {e1, e2}
MCWorkers == {w1, w2}
AllFaults  == FaultKinds
LiveFaults == {"claim", "view"}
StopFault  == {"stop"}
Symmetry  == Permutations(MCEvents) \cup Permutations(MCWorkers)
=============================================================================
