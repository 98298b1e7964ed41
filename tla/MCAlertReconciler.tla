-------------------------- MODULE MCAlertReconciler --------------------------
(* AlertReconciler on two SLOs, each in a group of its own.                *)
EXTENDS AlertReconciler, TLC

CONSTANTS s1, s2, w1, w2

MCSlos   == {s1, s2}
MCOne    == {w1}
MCTwo    == {w1, w2}
MCNames  == {"n1", "unnamed-condition"}
MCTexts  == {"t1", "t2"}
MCGroup  == [s \in MCSlos |-> s]

Alert(kind, name, text) == [kind |-> kind, name |-> name, text |-> text]

\* No alert; a burn alert; both, the burn alert without its name and one in
\* excess.
MCDocs ==
  { <<>>,
    << Alert("burn", "n1", "t1") >>,
    << Alert("breach", "n1", "t1"), Alert("burn", "", "t1"),
       Alert("burn", "n1", "t2") >> }

Symmetry == Permutations(MCSlos) \cup Permutations(MCTwo)
=============================================================================
