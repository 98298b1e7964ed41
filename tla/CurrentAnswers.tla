--------------------------- MODULE CurrentAnswers ---------------------------
(***************************************************************************)
(* What a comparison panel owes the person who looks at it: it shows the   *)
(* placeholder, or that it is waiting for the answer to one question, or   *)
(* an outcome of the question it was last asked.  It never goes from one   *)
(* outcome to another without saying in between that it is waiting.  How   *)
(* the queries are numbered, answered late or lost is the business of      *)
(* InvestigationScene, whose saturation panel refines this module.         *)
(***************************************************************************)
CONSTANTS
  Questions,   \* what a panel can be asked
  NoQuestion   \* nothing was asked

VARIABLE view

Outcomes == {"scores", "nothing", "unavailable"}

Showing(kind, q) == [kind |-> kind, question |-> q]

Init == view = Showing("placeholder", NoQuestion)

Ask(q) == view' = Showing("waiting", q)

Clear == view' = Showing("placeholder", NoQuestion)

Settle(outcome) ==
  /\ view.kind = "waiting"
  /\ view' = Showing(outcome, view.question)

Next ==
  \/ \E q \in Questions : Ask(q)
  \/ Clear
  \/ \E outcome \in Outcomes : Settle(outcome)

Spec == Init /\ [][Next]_view
=============================================================================
