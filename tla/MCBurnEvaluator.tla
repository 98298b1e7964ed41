--------------------------- MODULE MCBurnEvaluator ---------------------------
(* BurnEvaluator on one SLO, with the default rates and a target of 99%.   *)
EXTENDS BurnEvaluator, TLC

CONSTANTS s1, v1, v2

MCSlos == {s1}
MCNone == {}
MCTwo  == {v1, v2}

\* No burn; budget exhausted without a burn; a slow burn; a fast burn.
MCCompliances == {100, 98, 97, 84}
Symmetry == Permutations(MCTwo)
=============================================================================
