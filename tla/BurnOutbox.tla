----------------------------- MODULE BurnOutbox -----------------------------
(***************************************************************************)
(* The transactional outbox of the SLO control plane: the Postgres table   *)
(* outbox_events, the outbox workers (one goroutine per control-plane      *)
(* process) that claim its rows, and the two tables a worker fills from a  *)
(* row, ClickHouse's slo_burn_events and Postgres' burn_events_view.       *)
(*                                                                         *)
(* A worker's flushOnce is split at every call that can fail or be         *)
(* overtaken by another process: the claiming transaction (select, then    *)
(* commit), the ClickHouse insert, the view insert and the final mark.     *)
(***************************************************************************)
EXTENDS Naturals, FiniteSets, Sequences

CONSTANTS
  Events,      \* the burn events the evaluators ever enqueue
  Workers,     \* control-plane processes, each with one outbox worker
  BatchSize,   \* rows per claim (OUTBOX_BATCH_SIZE)
  Faults,      \* which of the faults below the environment may inject
  MaxRetry,    \* bound: ClickHouse refuses one event at most this often
  MaxFaults,   \* bound: faults that cost a claim, over a whole behaviour
  None         \* no event

FaultKinds ==
  { "stop",        \* a process is killed, or drains on SIGTERM
    "claim",       \* the claiming transaction is rolled back
    "claim_ack",   \* it commits, but the worker sees an error
    "view",        \* the insert into burn_events_view fails
    "mark" }       \* MarkOutboxDelivered or MarkOutboxRetry fails

ASSUME BatchAssumption == BatchSize \in Nat \ {0}
ASSUME BoundAssumption == MaxRetry \in Nat /\ MaxFaults \in Nat
ASSUME FaultAssumption == Faults \subseteq FaultKinds
ASSUME NoneAssumption  == None \notin [id : Events, retryCount : 0..MaxRetry]
\* A fact of arithmetic the provers do not know.
ASSUME PowerAssumption == \A n \in 0..MaxRetry : 2^n \in Nat

VARIABLES
  status,      \* outbox_events.status; "absent" before the row is inserted
  retryCount,  \* outbox_events.retry_count
  wait,        \* seconds until outbox_events.next_attempt_at, 0 when due
  born,        \* outbox_events.created_at: when the row's transaction began
  txns,        \* enqueueing transactions committed so far
  attempts,    \* attempt_no of the event's burn_event_delivery_attempts rows
  copies,      \* rows of the event in slo_burn_events
  view,        \* events with a row in burn_events_view
  missed,      \* events whose insert into it failed; no step depends on it
  pc,          \* where each worker is in flushOnce
  locks,       \* rows locked by the worker's open claiming transaction
  batch,       \* claimed events the worker has not finished, as claimed
  cur,         \* the one it is delivering
  faults       \* stops, lost acknowledgements and failed marks so far

rowVars    == <<status, retryCount, wait>>
orderVars  == <<born, txns>>
sinkVars   == <<copies, view, missed>>
workerVars == <<pc, locks, batch, cur>>
vars == <<rowVars, orderVars, attempts, sinkVars, workerVars, faults>>

OutboxEvent == [id : Events, retryCount : 0..MaxRetry]

TypeOK ==
  /\ status \in [Events -> {"absent", "pending", "processing", "delivered"}]
  /\ retryCount \in [Events -> 0..MaxRetry]
  /\ wait \in [Events -> Nat]
  /\ born \in [Events -> Nat]
  /\ txns \in Nat
  /\ attempts \in [Events -> Seq(Nat)]
  /\ copies \in [Events -> Nat]
  /\ view \in SUBSET Events
  /\ missed \in SUBSET Events
  /\ pc \in [Workers -> {"idle", "claiming", "ready", "retrying",
                         "viewing", "marking", "down"}]
  /\ locks \in [Workers -> SUBSET Events]
  /\ batch \in [Workers -> SUBSET OutboxEvent]
  /\ cur \in [Workers -> OutboxEvent \cup {None}]
  /\ faults \in 0..MaxFaults

Init ==
  /\ status = [e \in Events |-> "absent"]
  /\ retryCount = [e \in Events |-> 0]
  /\ wait = [e \in Events |-> 0]
  /\ born = [e \in Events |-> 0]
  /\ txns = 0
  /\ attempts = [e \in Events |-> <<>>]
  /\ copies = [e \in Events |-> 0]
  /\ view = {}
  /\ missed = {}
  /\ pc = [w \in Workers |-> "idle"]
  /\ locks = [w \in Workers |-> {}]
  /\ batch = [w \in Workers |-> {}]
  /\ cur = [w \in Workers |-> None]
  /\ faults = 0

\* A fault after which rows may stay 'processing' with nobody working on them.
LoseClaim(kind) ==
  /\ kind \in Faults
  /\ faults < MaxFaults
  /\ faults' = faults + 1

-----------------------------------------------------------------------------
(* The producers and the clock.                                            *)

\* An evaluation commits its burn event, its breach event, or both.  Rows of
\* one transaction share created_at, the time it began: one that takes long
\* may be older than rows committed before it.
Enqueue(S) ==
  /\ \A e \in S : status[e] = "absent"
  /\ status' = [e \in Events |-> IF e \in S THEN "pending" ELSE status[e]]
  /\ \E began \in 1..(txns + 1) :
       born' = [e \in Events |-> IF e \in S THEN began ELSE born[e]]
  /\ txns' = txns + 1
  /\ UNCHANGED <<retryCount, wait, attempts, sinkVars, workerVars, faults>>

\* One second passes for every row that is backing off.
Tick ==
  /\ \E e \in Events : wait[e] > 0
  /\ wait' = [e \in Events |-> IF wait[e] > 0 THEN wait[e] - 1 ELSE 0]
  /\ UNCHANGED <<status, retryCount, orderVars, attempts, sinkVars,
                 workerVars, faults>>

-----------------------------------------------------------------------------
(* ClaimPendingOutbox.                                                     *)

\* Mutants of Claimable: no row locks; a status test that forgets to exclude
\* rows being processed; no status test at all.
ClaimableUnlocked == {e \in Events : status[e] = "pending" /\ wait[e] = 0}
ClaimableReaped ==
  {e \in Events : status[e] \in {"pending", "processing"} /\ wait[e] = 0}
ClaimableAnyStatus == {e \in Events : status[e] # "absent" /\ wait[e] = 0}

\* Rows the claiming SELECT can return: due, and not locked by the open
\* transaction of another worker (SKIP LOCKED).
Claimable ==
  { e \in Events : /\ status[e] = "pending"
                   /\ wait[e] = 0
                   /\ \A v \in Workers : e \notin locks[v] }

\* ORDER BY created_at LIMIT BatchSize: as many as fit, none younger than a
\* row left behind.
OldestDue(S) ==
  /\ S \subseteq Claimable
  /\ Cardinality(S) <= BatchSize
  /\ S = Claimable \/ Cardinality(S) = BatchSize
  /\ \A e \in S, f \in Claimable \ S : born[e] <= born[f]

ClaimSelect(w, S) ==
  /\ pc[w] = "idle"
  /\ S # {}
  /\ OldestDue(S)
  /\ pc' = [pc EXCEPT ![w] = "claiming"]
  /\ locks' = [locks EXCEPT ![w] = S]
  /\ UNCHANGED <<rowVars, orderVars, attempts, sinkVars, batch, cur, faults>>

\* A poll that finds nothing due.
ClaimNothing(w) ==
  /\ pc[w] = "idle"
  /\ Claimable = {}
  /\ UNCHANGED vars

\* Mutant of MarkProcessing: the claim does not record itself.
MarkNothing(w) == UNCHANGED status

MarkProcessing(w) ==
  status' = [e \in Events |-> IF e \in locks[w] THEN "processing"
                                                ELSE status[e]]

ClaimCommit(w) ==
  /\ pc[w] = "claiming"
  /\ MarkProcessing(w)
  /\ batch' = [batch EXCEPT ![w] =
                 {[id |-> e, retryCount |-> retryCount[e]] : e \in locks[w]}]
  /\ locks' = [locks EXCEPT ![w] = {}]
  /\ pc' = [pc EXCEPT ![w] = "ready"]
  /\ UNCHANGED <<retryCount, wait, orderVars, attempts, sinkVars, cur, faults>>

\* The query, a scan or the commit fails: the deferred Rollback releases the
\* rows and flushOnce returns.
ClaimRollback(w) ==
  /\ "claim" \in Faults
  /\ pc[w] = "claiming"
  /\ locks' = [locks EXCEPT ![w] = {}]
  /\ pc' = [pc EXCEPT ![w] = "idle"]
  /\ UNCHANGED <<rowVars, orderVars, attempts, sinkVars, batch, cur, faults>>

\* The commit takes effect but its acknowledgement is lost: flushOnce logs
\* "outbox claim failed" and returns without the events.
ClaimAckLost(w) ==
  /\ LoseClaim("claim_ack")
  /\ pc[w] = "claiming"
  /\ MarkProcessing(w)
  /\ locks' = [locks EXCEPT ![w] = {}]
  /\ pc' = [pc EXCEPT ![w] = "idle"]
  /\ UNCHANGED <<retryCount, wait, orderVars, attempts, sinkVars, batch, cur>>

-----------------------------------------------------------------------------
(* The loop of flushOnce.  RETURNING gives the claimed rows in no          *)
(* particular order, so any event of the batch may be the next one.        *)

\* Mutant of StoreRow: the insert is acknowledged before it is durable.
DropRow(ev) == UNCHANGED copies

StoreRow(ev) == copies' = [copies EXCEPT ![ev.id] = @ + 1]

InsertOK(w, ev) ==
  /\ pc[w] = "ready"
  /\ ev \in batch[w]
  /\ StoreRow(ev)
  /\ cur' = [cur EXCEPT ![w] = ev]
  /\ pc' = [pc EXCEPT ![w] = "viewing"]
  /\ UNCHANGED <<rowVars, orderVars, attempts, view, missed, locks, batch,
                 faults>>

\* The insert returns an error.  ClickHouse may have stored the row all the
\* same; every try stamps a new observed_at, which is part of the sorting key
\* of the table, so a row stored by a failed try is never merged away.
InsertError(w, ev) ==
  /\ pc[w] = "ready"
  /\ ev \in batch[w]
  /\ ev.retryCount < MaxRetry
  /\ UNCHANGED copies \/ StoreRow(ev)
  /\ cur' = [cur EXCEPT ![w] = ev]
  /\ pc' = [pc EXCEPT ![w] = "retrying"]
  /\ UNCHANGED <<rowVars, orderVars, attempts, view, missed, locks, batch,
                 faults>>

\* Mutant of Proceed: return instead of continue.
ProceedReturn(w) ==
  /\ batch' = [batch EXCEPT ![w] = {}]
  /\ cur' = [cur EXCEPT ![w] = None]
  /\ pc' = [pc EXCEPT ![w] = "idle"]
  /\ UNCHANGED locks

\* The loop goes on to the next event, or flushOnce returns to the ticker.
Proceed(w) ==
  /\ batch' = [batch EXCEPT ![w] = @ \ {cur[w]}]
  /\ cur' = [cur EXCEPT ![w] = None]
  /\ pc' = [pc EXCEPT ![w] = IF batch[w] = {cur[w]} THEN "idle" ELSE "ready"]
  /\ UNCHANGED locks

\* Mutants: the shift overflows; the attempt number is not advanced.
BackoffOverflow(n) == 1 - 2^n
SameAttempt(ev) == ev.retryCount

\* 1 << retryCount seconds.
Backoff(n) == 2^n

NextAttempt(ev) == ev.retryCount + 1

MarkOutboxRetry(w) ==
  /\ pc[w] = "retrying"
  /\ LET e == cur[w].id
         n == NextAttempt(cur[w])
     IN  /\ status' = [status EXCEPT ![e] = "pending"]
         /\ retryCount' = [retryCount EXCEPT ![e] = n]
         /\ wait' = [wait EXCEPT ![e] = Backoff(n)]
         /\ attempts' = [attempts EXCEPT ![e] = Append(@, n)]
  /\ Proceed(w)
  /\ UNCHANGED <<orderVars, sinkVars, faults>>

\* Mutant of ViewRow: the conflict target does not tell events apart.
ViewRowCoarse(w) == view' = IF view = {} THEN {cur[w].id} ELSE view

\* ON CONFLICT (idempotency_key) DO NOTHING: one row per event.
ViewRow(w) == view' = view \cup {cur[w].id}

\* The error of a failed insert is dropped, and the row marked all the same.
InsertBurnEventView(w) ==
  /\ pc[w] = "viewing"
  /\ \/ ViewRow(w) /\ UNCHANGED missed
     \/ /\ "view" \in Faults
        /\ missed' = missed \cup {cur[w].id}
        /\ UNCHANGED view
  /\ pc' = [pc EXCEPT ![w] = "marking"]
  /\ UNCHANGED <<rowVars, orderVars, attempts, copies, locks, batch, cur,
                 faults>>

MarkOutboxDelivered(w) ==
  /\ pc[w] = "marking"
  /\ status' = [status EXCEPT ![cur[w].id] = "delivered"]
  /\ Proceed(w)
  /\ UNCHANGED <<retryCount, wait, orderVars, attempts, sinkVars, faults>>

\* The errors of both marks are dropped: the worker moves on and the row
\* stays 'processing'.
MarkFails(w) ==
  /\ LoseClaim("mark")
  /\ pc[w] \in {"retrying", "marking"}
  /\ Proceed(w)
  /\ UNCHANGED <<rowVars, orderVars, attempts, sinkVars>>

-----------------------------------------------------------------------------
(* Stopping.  A killed process makes no further call; after SIGTERM the    *)
(* cancelled context makes each of its remaining calls fail before it has  *)
(* an effect, MarkOutboxRetry included.  Postgres rolls an open            *)
(* transaction back.                                                       *)

Stop(w) ==
  /\ LoseClaim("stop")
  /\ pc[w] # "down"
  /\ pc' = [pc EXCEPT ![w] = "down"]
  /\ locks' = [locks EXCEPT ![w] = {}]
  /\ batch' = [batch EXCEPT ![w] = {}]
  /\ cur' = [cur EXCEPT ![w] = None]
  /\ UNCHANGED <<rowVars, orderVars, attempts, sinkVars>>

Restart(w) ==
  /\ pc[w] = "down"
  /\ pc' = [pc EXCEPT ![w] = "idle"]
  /\ UNCHANGED <<rowVars, orderVars, attempts, sinkVars, locks, batch, cur,
                 faults>>

-----------------------------------------------------------------------------

Claim(w) == (\E S \in SUBSET Events : ClaimSelect(w, S)) \/ ClaimNothing(w)

Deliver(w) ==
  \/ \E ev \in OutboxEvent : InsertOK(w, ev) \/ InsertError(w, ev)
  \/ MarkOutboxRetry(w)
  \/ InsertBurnEventView(w)
  \/ MarkOutboxDelivered(w)

Next ==
  \/ \E e, f \in Events : Enqueue({e, f})
  \/ Tick
  \/ \E w \in Workers :
       \/ Claim(w)
       \/ ClaimCommit(w)
       \/ ClaimRollback(w)
       \/ ClaimAckLost(w)
       \/ Deliver(w)
       \/ MarkFails(w)
       \/ Stop(w)
       \/ Restart(w)

Spec == Init /\ [][Next]_vars

\* Time passes, a ticker keeps firing, a running worker finishes what it has
\* begun and a stopped process is started again; Postgres cannot refuse the
\* claim forever.  Nothing obliges the evaluators to enqueue.
Fairness ==
  /\ WF_vars(Tick)
  /\ \A w \in Workers : /\ WF_vars(Claim(w))
                        /\ SF_vars(ClaimCommit(w))
                        /\ WF_vars(Deliver(w))
                        /\ WF_vars(Restart(w))

FairSpec == Spec /\ Fairness

-----------------------------------------------------------------------------
(* Properties.                                                             *)

Held(w) == {ev.id : ev \in batch[w]}

\* An event is in the hands of one worker at most, whether it is being
\* claimed or already being delivered (FOR UPDATE SKIP LOCKED together with
\* the status column; outbox.go:32-46).
ClaimsAreExclusive ==
  \A v, w \in Workers :
    v # w => (locks[v] \cup Held(v)) \cap (locks[w] \cup Held(w)) = {}

\* What a worker remembers of a claimed row is still what the row says when
\* the worker writes retry_count back (worker.go:97 adds one to the value read
\* at claim time).
ClaimsAreCurrent ==
  \A w \in Workers : \A ev \in batch[w] :
    status[ev.id] = "processing" /\ retryCount[ev.id] = ev.retryCount

\* burn_event_delivery_attempts holds exactly the attempts 1..retry_count of
\* the event, in order, whatever failed in between (MarkOutboxRetry's
\* transaction, outbox.go:86-108).
AttemptsComplete ==
  \A e \in Events : attempts[e] = [i \in 1..retryCount[e] |-> i]

\* At-least-once delivery does not run away: ClickHouse holds at most one row
\* more of an event than it has recorded retries.
DuplicatesBounded == \A e \in Events : copies[e] <= retryCount[e] + 1

\* An event is called delivered, or listed by the API from burn_events_view,
\* only once ClickHouse has it.
DeliveredWasWritten ==
  \A e \in Events : status[e] = "delivered" \/ e \in view => copies[e] > 0

\* Nobody reopens or rewrites a delivered event, although neither mark checks
\* the status it overwrites.
DeliveredIsFinal ==
  [][\A e \in Events : status[e] = "delivered" =>
       /\ status'[e] = "delivered"
       /\ copies'[e] = copies[e]
       /\ attempts'[e] = attempts[e]]_vars

\* Rows marked 'processing' that no worker is working on.
Orphans ==
  { e \in Events : /\ status[e] = "processing"
                   /\ \A w \in Workers : e \notin Held(w) }

\* No more than one batch is lost to each stop, lost acknowledgement or failed
\* mark; in particular nothing is lost without one of them.
OrphansBounded == Cardinality(Orphans) <= BatchSize * faults

\* An event called delivered can be read from the view, or its own insert into
\* it failed: that dropped error (worker.go:101) is the only way to lose one to
\* the API, through stops, retries, lost claims and workers that overtake each
\* other.
DeliveredIsVisible ==
  \A e \in Events : status[e] = "delivered" => e \in view \cup missed

\* Every enqueued event is delivered in the end: docs/slo-control-plane.md:20
\* has the worker mark every claimed row delivered or retry it.
EveryEventDelivered ==
  \A e \in Events : status[e] # "absent" ~> status[e] = "delivered"

\* The outbox implements at-least-once delivery.
Delivery == INSTANCE BurnDelivery WITH
              queued <- {e \in Events : status[e] # "absent"},
              written <- copies,
              acked <- {e \in Events : status[e] = "delivered"}
ImplementsDelivery == Delivery!Spec
=============================================================================
