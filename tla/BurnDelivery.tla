---------------------------- MODULE BurnDelivery ----------------------------
(***************************************************************************)
(* What the outbox promises to the evaluator that enqueues burn events:    *)
(* an event, once enqueued, may be written to the ClickHouse table         *)
(* slo_burn_events any number of times, is acknowledged only after it was  *)
(* written at least once, and is never written again afterwards.  How the  *)
(* rows are claimed, retried and acknowledged is the business of           *)
(* BurnOutbox, which refines this module.                                  *)
(***************************************************************************)
EXTENDS Naturals

CONSTANT Events          \* the burn events the evaluators ever enqueue

VARIABLES
  queued,      \* events whose enqueueing transaction has committed
  written,     \* written[e]: rows of e in slo_burn_events
  acked        \* events the outbox will not touch again

vars == <<queued, written, acked>>

Init ==
  /\ queued = {}
  /\ written = [e \in Events |-> 0]
  /\ acked = {}

\* One evaluation enqueues its events all together or not at all.
Enqueue(S) ==
  /\ S \cap queued = {}
  /\ queued' = queued \cup S
  /\ UNCHANGED <<written, acked>>

Write(e) ==
  /\ e \in queued \ acked
  /\ written' = [written EXCEPT ![e] = @ + 1]
  /\ UNCHANGED <<queued, acked>>

Acknowledge(e) ==
  /\ e \in queued \ acked
  /\ written[e] > 0
  /\ acked' = acked \cup {e}
  /\ UNCHANGED <<queued, written>>

Next ==
  \/ \E S \in SUBSET Events : Enqueue(S)
  \/ \E e \in Events : Write(e) \/ Acknowledge(e)

Spec == Init /\ [][Next]_vars
=============================================================================
