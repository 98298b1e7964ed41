-------------------------- MODULE BurnOutbox_proofs --------------------------
(***************************************************************************)
(* Proofs about BurnOutbox, for every set of events and workers, every     *)
(* batch size, every choice of faults and every bound on retries and       *)
(* faults.                                                                 *)
(***************************************************************************)
EXTENDS BurnOutbox, FiniteSetTheorems, TLAPS

(* The inductive invariant.                                                *)

Busy == {"retrying", "viewing", "marking"}

\* What each place of flushOnce has in hand.
ControlInv ==
  \A w \in Workers :
    /\ pc[w] # "claiming" => locks[w] = {}
    /\ pc[w] \in {"idle", "claiming", "down"} => batch[w] = {}
    /\ pc[w] \in Busy => cur[w] \in batch[w]
    /\ pc[w] = "retrying" => cur[w].retryCount < MaxRetry

\* Only pending rows are locked, no row by two workers.
LockInv ==
  /\ \A w \in Workers : \A e \in locks[w] : status[e] = "pending"
  /\ \A v, w \in Workers : v # w => locks[v] \cap locks[w] = {}

\* No event is in two batches.
BatchInv ==
  \A v, w \in Workers : v # w =>
    \A a \in batch[v], b \in batch[w] : a.id # b.id

\* The writes of an event are paid for by retries: one is in advance only
\* while its worker has not recorded the outcome, or never will.
CountInv ==
  /\ \A e \in Events : status[e] \in {"absent", "pending"}
                         => copies[e] <= retryCount[e]
  /\ \A w \in Workers : \A ev \in batch[w] :
       pc[w] = "ready" \/ ev # cur[w] => copies[ev.id] <= retryCount[ev.id]

\* A worker past a successful insert holds an event ClickHouse has.
WrittenInv ==
  \A w \in Workers : pc[w] \in {"viewing", "marking"} => copies[cur[w].id] > 0

IInv ==
  /\ TypeOK
  /\ ControlInv
  /\ LockInv
  /\ ClaimsAreCurrent
  /\ BatchInv
  /\ CountInv
  /\ DuplicatesBounded
  /\ WrittenInv
  /\ DeliveredWasWritten
  /\ AttemptsComplete

-----------------------------------------------------------------------------
(* Type correctness.                                                       *)

LEMMA TypeInit == Init => TypeOK
BY BoundAssumption DEF Init, TypeOK

\* What is used of the records of a batch.
LEMMA OutboxEventFields ==
  /\ \A ev \in OutboxEvent : ev.id \in Events /\ ev.retryCount \in 0..MaxRetry
  /\ \A e \in Events, n \in 0..MaxRetry : [id |-> e, retryCount |-> n] \in OutboxEvent
  /\ \A a, b \in OutboxEvent :
       a.id = b.id /\ a.retryCount = b.retryCount => a = b
BY DEF OutboxEvent

\* A worker in the middle of a delivery has an event of its batch in hand.
LEMMA CurrentEvent ==
  ASSUME TypeOK, ControlInv, NEW w \in Workers, pc[w] \in Busy
  PROVE  /\ cur[w] \in batch[w]
         /\ cur[w] \in OutboxEvent
         /\ cur[w].id \in Events
         /\ cur[w].retryCount \in 0..MaxRetry
BY OutboxEventFields DEF TypeOK, ControlInv

LEMMA ProceedType ==
  ASSUME TypeOK, NEW w \in Workers, Proceed(w)
  PROVE  /\ pc' \in [Workers -> {"idle", "claiming", "ready", "retrying",
                                 "viewing", "marking", "down"}]
         /\ locks' \in [Workers -> SUBSET Events]
         /\ batch' \in [Workers -> SUBSET OutboxEvent]
         /\ cur' \in [Workers -> OutboxEvent \cup {None}]
BY DEF TypeOK, Proceed

LEMMA TypeStep ==
  ASSUME TypeOK, ControlInv, [Next]_vars
  PROVE  TypeOK'
<1> USE DEF TypeOK, rowVars, orderVars, sinkVars, workerVars
<1>1. ASSUME NEW e \in Events, NEW f \in Events, Enqueue({e, f})
      PROVE  TypeOK'
  BY <1>1 DEF Enqueue
<1>2. CASE Tick
  BY <1>2 DEF Tick
<1>3. ASSUME NEW w \in Workers, NEW S \in SUBSET Events, ClaimSelect(w, S)
      PROVE  TypeOK'
  BY <1>3 DEF ClaimSelect
<1>4. ASSUME NEW w \in Workers, ClaimCommit(w) PROVE TypeOK'
  <2>1. status' \in [Events -> {"absent", "pending", "processing", "delivered"}]
    BY <1>4 DEF ClaimCommit, MarkProcessing
  <2>2. {[id |-> e, retryCount |-> retryCount[e]] : e \in locks[w]}
          \subseteq OutboxEvent
    BY OutboxEventFields
  <2>3. batch' \in [Workers -> SUBSET OutboxEvent]
    BY <1>4, <2>2 DEF ClaimCommit
  <2> QED
    BY <1>4, <2>1, <2>3 DEF ClaimCommit
<1>5. ASSUME NEW w \in Workers, ClaimRollback(w) PROVE TypeOK'
  BY <1>5 DEF ClaimRollback
<1>6. ASSUME NEW w \in Workers, ClaimAckLost(w) PROVE TypeOK'
  BY <1>6, BoundAssumption DEF ClaimAckLost, MarkProcessing, LoseClaim
<1>7. ASSUME NEW w \in Workers, NEW ev \in OutboxEvent,
             InsertOK(w, ev) \/ InsertError(w, ev)
      PROVE  TypeOK'
  <2>1. UNCHANGED copies \/ StoreRow(ev)
    BY <1>7 DEF InsertOK, InsertError
  <2>2. copies' \in [Events -> Nat]
    <3>1. ev.id \in Events
      BY OutboxEventFields
    <3>2. CASE UNCHANGED copies
      BY <3>2
    <3>3. CASE StoreRow(ev)
      BY <3>1, <3>3 DEF StoreRow
    <3> QED
      BY <2>1, <3>2, <3>3
  <2>3. /\ cur' = [cur EXCEPT ![w] = ev]
        /\ \E where \in {"viewing", "retrying"} : pc' = [pc EXCEPT ![w] = where]
        /\ UNCHANGED <<rowVars, orderVars, attempts, view, missed, locks, batch,
                       faults>>
    BY <1>7 DEF InsertOK, InsertError
  <2> QED
    BY <2>2, <2>3
<1>8. ASSUME NEW w \in Workers, MarkOutboxRetry(w) PROVE TypeOK'
  <2>1. /\ cur[w].id \in Events
        /\ NextAttempt(cur[w]) \in 0..MaxRetry
    <3>1. pc[w] = "retrying"
      BY <1>8 DEF MarkOutboxRetry
    <3>2. cur[w].id \in Events /\ cur[w].retryCount \in 0..MaxRetry
      BY <3>1, CurrentEvent DEF Busy
    <3>3. cur[w].retryCount < MaxRetry
      BY <3>1 DEF ControlInv
    <3> QED
      BY <3>2, <3>3, BoundAssumption DEF NextAttempt
  <2>2. Backoff(NextAttempt(cur[w])) \in Nat
    BY <2>1, PowerAssumption DEF Backoff
  <2>3. attempts' \in [Events -> Seq(Nat)]
    BY <1>8, <2>1 DEF MarkOutboxRetry
  <2> QED
    BY <1>8, <2>1, <2>2, <2>3, ProceedType DEF MarkOutboxRetry
<1>9. ASSUME NEW w \in Workers, InsertBurnEventView(w) PROVE TypeOK'
  <2>1. cur[w].id \in Events
    BY <1>9, CurrentEvent DEF InsertBurnEventView, Busy
  <2> QED
    BY <1>9, <2>1 DEF InsertBurnEventView, ViewRow
<1>10. ASSUME NEW w \in Workers, MarkOutboxDelivered(w) PROVE TypeOK'
  BY <1>10, ProceedType DEF MarkOutboxDelivered
<1>11. ASSUME NEW w \in Workers, MarkFails(w) PROVE TypeOK'
  BY <1>11, ProceedType, BoundAssumption DEF MarkFails, LoseClaim
<1>12. ASSUME NEW w \in Workers, Stop(w) PROVE TypeOK'
  BY <1>12, BoundAssumption DEF Stop, LoseClaim
<1>13. ASSUME NEW w \in Workers, Restart(w) PROVE TypeOK'
  BY <1>13 DEF Restart
<1>14. CASE UNCHANGED vars
  BY <1>14 DEF vars
<1>15. ASSUME NEW w \in Workers, ClaimNothing(w) PROVE TypeOK'
  BY <1>14, <1>15 DEF ClaimNothing
<1> QED
  BY <1>1, <1>2, <1>3, <1>4, <1>5, <1>6, <1>7, <1>8, <1>9, <1>10, <1>11,
     <1>12, <1>13, <1>14, <1>15 DEF Next, Claim, Deliver

-----------------------------------------------------------------------------
(* The steps of the inductive invariant, one conjunct at a time.           *)

LEMMA IInvInit == Init => IInv
<1> SUFFICES ASSUME Init PROVE IInv
  OBVIOUS
<1> QED
  BY TypeInit
  DEF Init, IInv, ControlInv, LockInv, ClaimsAreCurrent, BatchInv, CountInv,
      DuplicatesBounded, WrittenInv, DeliveredWasWritten, AttemptsComplete, Busy

LEMMA ControlStep ==
  ASSUME IInv, [Next]_vars
  PROVE  ControlInv'
<1> USE DEF IInv, TypeOK, ControlInv, Busy
<1>1. CASE UNCHANGED workerVars
  BY <1>1 DEF workerVars
<1>2. ASSUME NEW w \in Workers, NEW S \in SUBSET Events, ClaimSelect(w, S)
      PROVE  ControlInv'
  BY <1>2 DEF ClaimSelect
<1>3. ASSUME NEW w \in Workers,
             ClaimCommit(w) \/ ClaimRollback(w) \/ ClaimAckLost(w)
      PROVE  ControlInv'
  BY <1>3 DEF ClaimCommit, ClaimRollback, ClaimAckLost
<1>4. ASSUME NEW w \in Workers, NEW ev \in OutboxEvent,
             InsertOK(w, ev) \/ InsertError(w, ev)
      PROVE  ControlInv'
  BY <1>4 DEF InsertOK, InsertError
<1>5. ASSUME NEW w \in Workers, pc[w] \in Busy, Proceed(w)
      PROVE  ControlInv'
  BY <1>5 DEF Proceed
<1>6. ASSUME NEW w \in Workers, InsertBurnEventView(w) PROVE ControlInv'
  BY <1>6 DEF InsertBurnEventView
<1>7. ASSUME NEW w \in Workers, Stop(w) \/ Restart(w) PROVE ControlInv'
  BY <1>7 DEF Stop, Restart
<1> QED
  BY <1>1, <1>2, <1>3, <1>4, <1>5, <1>6, <1>7
  DEF Next, vars, Claim, ClaimNothing, Deliver, Enqueue, Tick,
      MarkOutboxRetry, MarkOutboxDelivered, MarkFails

\* Two records of the same event are the same record of the same batch.
LEMMA OneHolder ==
  ASSUME TypeOK, ClaimsAreCurrent, BatchInv,
         NEW v \in Workers, NEW w \in Workers,
         NEW a \in batch[v], NEW b \in batch[w], a.id = b.id
  PROVE  v = w /\ a = b
<1>1. v = w
  BY DEF BatchInv
<1>2. a \in OutboxEvent /\ b \in OutboxEvent
  BY DEF TypeOK
<1>3. a.retryCount = b.retryCount
  BY <1>1 DEF ClaimsAreCurrent
<1> QED
  BY <1>1, <1>2, <1>3, OutboxEventFields

\* Only rows being processed are rewritten by the worker that holds them.
LEMMA CurrentRow ==
  ASSUME IInv, NEW w \in Workers, pc[w] \in Busy
  PROVE  /\ cur[w] \in batch[w]
         /\ cur[w].id \in Events
         /\ status[cur[w].id] = "processing"
         /\ retryCount[cur[w].id] = cur[w].retryCount
BY CurrentEvent DEF IInv, ClaimsAreCurrent

LEMMA BatchesShrink ==
  ASSUME TypeOK, NEW w \in Workers, Proceed(w) \/ Stop(w)
  PROVE  \A v \in Workers : batch'[v] \subseteq batch[v]
<1>1. CASE Proceed(w)
  BY <1>1 DEF TypeOK, Proceed
<1>2. CASE Stop(w)
  BY <1>2 DEF TypeOK, Stop
<1> QED
  BY <1>1, <1>2

LEMMA LockStep ==
  ASSUME IInv, [Next]_vars
  PROVE  LockInv'
<1> USE DEF IInv, TypeOK, LockInv
<1>1. CASE UNCHANGED <<status, locks>>
  BY <1>1
<1>2. ASSUME NEW e \in Events, NEW f \in Events, Enqueue({e, f})
      PROVE  LockInv'
  BY <1>2 DEF Enqueue, workerVars
<1>3. ASSUME NEW w \in Workers, NEW S \in SUBSET Events, ClaimSelect(w, S)
      PROVE  LockInv'
  BY <1>3 DEF ClaimSelect, OldestDue, Claimable, rowVars
<1>4. ASSUME NEW w \in Workers, ClaimCommit(w) \/ ClaimAckLost(w)
      PROVE  LockInv'
  <2>1. \A v \in Workers : locks'[v] = IF v = w THEN {} ELSE locks[v]
    BY <1>4 DEF ClaimCommit, ClaimAckLost
  <2>2. \A e \in Events : e \notin locks[w] => status'[e] = status[e]
    BY <1>4 DEF ClaimCommit, ClaimAckLost, MarkProcessing
  <2> QED
    BY <2>1, <2>2
<1>5. ASSUME NEW w \in Workers, ClaimRollback(w) \/ Stop(w)
      PROVE  LockInv'
  <2>1. /\ locks' = [locks EXCEPT ![w] = {}]
        /\ UNCHANGED status
    BY <1>5 DEF ClaimRollback, Stop, rowVars
  <2> QED
    BY <2>1
<1>6. ASSUME NEW w \in Workers, MarkOutboxRetry(w) \/ MarkOutboxDelivered(w)
      PROVE  LockInv'
  <2>1. status[cur[w].id] = "processing"
    BY <1>6, CurrentRow DEF MarkOutboxRetry, MarkOutboxDelivered, Busy
  <2>2. /\ UNCHANGED locks
        /\ \A e \in Events : e # cur[w].id => status'[e] = status[e]
    BY <1>6 DEF MarkOutboxRetry, MarkOutboxDelivered, Proceed
  <2> QED
    BY <2>1, <2>2
<1> QED
  BY <1>1, <1>2, <1>3, <1>4, <1>5, <1>6
  DEF Next, vars, rowVars, workerVars, Claim, ClaimNothing, Deliver, Tick,
      InsertOK, InsertError, InsertBurnEventView, MarkFails, Proceed, Restart

LEMMA ClaimsAreCurrentStep ==
  ASSUME IInv, [Next]_vars
  PROVE  ClaimsAreCurrent'
<1> USE DEF IInv, TypeOK, ClaimsAreCurrent
<1>1. CASE UNCHANGED <<status, retryCount, batch>>
  BY <1>1
<1>2. ASSUME NEW e \in Events, NEW f \in Events, Enqueue({e, f})
      PROVE  ClaimsAreCurrent'
  BY <1>2, OutboxEventFields DEF Enqueue, workerVars
<1>3. ASSUME NEW w \in Workers, ClaimCommit(w)
      PROVE  ClaimsAreCurrent'
  BY <1>3, OutboxEventFields DEF ClaimCommit, MarkProcessing
<1>4. ASSUME NEW w \in Workers, ClaimAckLost(w)
      PROVE  ClaimsAreCurrent'
  BY <1>4, OutboxEventFields DEF ClaimAckLost, MarkProcessing
<1>5. ASSUME NEW w \in Workers, MarkOutboxRetry(w) \/ MarkOutboxDelivered(w)
      PROVE  ClaimsAreCurrent'
  <2> SUFFICES ASSUME NEW v \in Workers, NEW ev \in batch'[v]
               PROVE  status'[ev.id] = "processing" /\ retryCount'[ev.id] = ev.retryCount
    OBVIOUS
  <2>1. pc[w] \in Busy
    BY <1>5 DEF MarkOutboxRetry, MarkOutboxDelivered, Busy
  <2>2. ev \in batch[v] /\ (v = w => ev # cur[w])
    BY <1>5 DEF MarkOutboxRetry, MarkOutboxDelivered, Proceed
  <2>3. ev.id # cur[w].id
    BY <2>1, <2>2, CurrentRow, OneHolder
  <2>4. ev.id \in Events
    BY <2>2, OutboxEventFields
  <2>5. status'[ev.id] = status[ev.id] /\ retryCount'[ev.id] = retryCount[ev.id]
    BY <1>5, <2>3, <2>4 DEF MarkOutboxRetry, MarkOutboxDelivered
  <2> QED
    BY <2>2, <2>5
<1>6. ASSUME NEW w \in Workers, MarkFails(w) \/ Stop(w)
      PROVE  ClaimsAreCurrent'
  <2>1. \A v \in Workers : batch'[v] \subseteq batch[v]
    BY <1>6, BatchesShrink DEF MarkFails
  <2>2. UNCHANGED <<status, retryCount>>
    BY <1>6 DEF MarkFails, Stop, rowVars
  <2> QED
    BY <2>1, <2>2
<1> QED
  BY <1>1, <1>2, <1>3, <1>4, <1>5, <1>6
  DEF Next, vars, rowVars, workerVars, Claim, ClaimNothing, ClaimSelect,
      ClaimRollback, Deliver, Tick, InsertOK, InsertError,
      InsertBurnEventView, Restart

LEMMA BatchStep ==
  ASSUME IInv, [Next]_vars
  PROVE  BatchInv'
<1> USE DEF IInv, TypeOK, BatchInv
<1>1. ASSUME \A w \in Workers : batch'[w] \subseteq batch[w]
      PROVE  BatchInv'
  BY <1>1
<1>2. ASSUME NEW w \in Workers, ClaimCommit(w)
      PROVE  BatchInv'
  <2>1. \A ev \in batch'[w] : status[ev.id] = "pending"
    BY <1>2 DEF ClaimCommit, LockInv
  <2>2. \A v \in Workers \ {w} : batch'[v] = batch[v]
    BY <1>2 DEF ClaimCommit
  <2>3. \A v \in Workers \ {w} : \A ev \in batch'[v] : status[ev.id] = "processing"
    BY <2>2 DEF ClaimsAreCurrent
  <2> SUFFICES ASSUME NEW v \in Workers, NEW u \in Workers, v # u,
                      NEW a \in batch'[v], NEW b \in batch'[u]
               PROVE  a.id # b.id
    OBVIOUS
  <2>4. CASE v # w /\ u # w
    BY <2>2, <2>4
  <2>5. CASE v = w \/ u = w
    BY <2>1, <2>3, <2>5
  <2> QED
    BY <2>4, <2>5
<1>3. CASE UNCHANGED batch
  BY <1>1, <1>3
<1>4. ASSUME NEW w \in Workers, Proceed(w) \/ Stop(w)
      PROVE  BatchInv'
  BY <1>1, <1>4, BatchesShrink
<1> QED
  BY <1>2, <1>3, <1>4
  DEF Next, vars, workerVars, Claim, ClaimNothing, ClaimSelect, ClaimRollback,
      ClaimAckLost, Deliver, Enqueue, Tick, InsertOK, InsertError,
      InsertBurnEventView, MarkOutboxRetry, MarkOutboxDelivered, MarkFails,
      Restart

LEMMA CountStep ==
  ASSUME IInv, [Next]_vars
  PROVE  CountInv' /\ DuplicatesBounded'
<1> DEFINE Goal == CountInv /\ DuplicatesBounded
<1> USE DEF IInv, TypeOK, CountInv, DuplicatesBounded
\* Steps that write nothing and leave each worker with what it had in hand.
<1>1. ASSUME UNCHANGED <<copies, retryCount>>,
             \A e \in Events : status'[e] \in {"absent", "pending"}
                               => status[e] \in {"absent", "pending"},
             \A v \in Workers : \A ev \in batch'[v] :
               /\ ev \in batch[v]
               /\ pc'[v] = "ready" \/ ev # cur'[v]
                    => pc[v] = "ready" \/ ev # cur[v]
      PROVE  Goal'
  BY <1>1
<1>2. CASE UNCHANGED <<copies, retryCount, status, workerVars>>
  BY <1>1, <1>2 DEF workerVars
<1>3. ASSUME NEW e \in Events, NEW f \in Events, Enqueue({e, f})
      PROVE  Goal'
  BY <1>1, <1>3 DEF Enqueue, sinkVars, workerVars
<1>4. ASSUME NEW w \in Workers, NEW S \in SUBSET Events, ClaimSelect(w, S)
      PROVE  Goal'
  BY <1>1, <1>4 DEF ClaimSelect, rowVars, sinkVars, ControlInv
<1>5. ASSUME NEW w \in Workers, ClaimRollback(w) \/ Restart(w)
      PROVE  Goal'
  BY <1>1, <1>5 DEF ClaimRollback, Restart, rowVars, sinkVars, ControlInv
<1>6. ASSUME NEW w \in Workers, ClaimAckLost(w)
      PROVE  Goal'
  BY <1>1, <1>6 DEF ClaimAckLost, MarkProcessing, sinkVars, ControlInv
<1>7. ASSUME NEW w \in Workers, InsertBurnEventView(w)
      PROVE  Goal'
  BY <1>1, <1>7 DEF InsertBurnEventView, rowVars
<1>8. ASSUME NEW w \in Workers, Stop(w)
      PROVE  Goal'
  BY <1>1, <1>8 DEF Stop, rowVars, sinkVars
<1>9. ASSUME NEW w \in Workers, MarkFails(w)
      PROVE  Goal'
  BY <1>1, <1>9 DEF MarkFails, Proceed, rowVars, sinkVars
<1>10. ASSUME NEW w \in Workers, MarkOutboxDelivered(w)
       PROVE  Goal'
  BY <1>1, <1>10 DEF MarkOutboxDelivered, Proceed, sinkVars
\* A claimed row was pending, so its writes are all accounted for.
<1>11. ASSUME NEW w \in Workers, ClaimCommit(w)
       PROVE  Goal'
  <2>1. \A ev \in batch'[w] : copies[ev.id] <= retryCount[ev.id]
    BY <1>11 DEF ClaimCommit, LockInv
  <2>2. /\ UNCHANGED <<copies, retryCount>>
        /\ \A v \in Workers \ {w} : /\ batch'[v] = batch[v]
                                    /\ pc'[v] = pc[v]
                                    /\ cur'[v] = cur[v]
        /\ \A e \in Events : status'[e] \in {"absent", "pending"}
                              => status[e] \in {"absent", "pending"}
    BY <1>11 DEF ClaimCommit, MarkProcessing, sinkVars
  <2> QED
    BY <2>1, <2>2
\* The insert spends the allowance of the event in hand, of no other one.
<1>12. ASSUME NEW w \in Workers, NEW ev \in OutboxEvent,
              InsertOK(w, ev) \/ InsertError(w, ev)
       PROVE  Goal'
  <2>1. /\ pc[w] = "ready" /\ ev \in batch[w]
        /\ pc'[w] # "ready" /\ cur'[w] = ev
        /\ \A v \in Workers \ {w} : pc'[v] = pc[v] /\ cur'[v] = cur[v]
        /\ UNCHANGED <<status, retryCount, batch>>
        /\ UNCHANGED copies \/ StoreRow(ev)
    BY <1>12 DEF InsertOK, InsertError, rowVars
  <2>2. ev.id \in Events /\ copies[ev.id] <= retryCount[ev.id]
    BY <2>1, OutboxEventFields
  <2>3. status[ev.id] = "processing"
    BY <2>1 DEF ClaimsAreCurrent
  <2>4. /\ \A e \in Events : e # ev.id => copies'[e] = copies[e]
        /\ copies'[ev.id] \in {copies[ev.id], copies[ev.id] + 1}
    BY <2>1, <2>2 DEF StoreRow
  <2>5. DuplicatesBounded'
    BY <2>1, <2>2, <2>4
  <2>6. \A e \in Events : status'[e] \in {"absent", "pending"}
                          => copies'[e] <= retryCount'[e]
    BY <2>1, <2>3, <2>4
  <2>7. ASSUME NEW v \in Workers, NEW a \in batch'[v],
               pc'[v] = "ready" \/ a # cur'[v]
        PROVE  copies'[a.id] <= retryCount'[a.id]
    <3>1. a \in batch[v] /\ a.id \in Events
      BY <2>1, OutboxEventFields
    <3>2. a.id # ev.id
      BY <2>1, <2>7, <3>1, OneHolder
    <3>3. pc[v] = "ready" \/ a # cur[v]
      BY <2>1, <2>7
    <3> QED
      BY <2>1, <2>4, <3>1, <3>2, <3>3
  <2> QED
    BY <2>5, <2>6, <2>7
\* The retry is recorded, which pays for the write it may follow.
<1>13. ASSUME NEW w \in Workers, MarkOutboxRetry(w)
       PROVE  Goal'
  <2>1. /\ cur[w] \in batch[w]
        /\ cur[w].id \in Events
        /\ cur[w].retryCount \in Nat
        /\ retryCount[cur[w].id] = cur[w].retryCount
    BY <1>13, CurrentRow DEF MarkOutboxRetry, Busy
  <2>2. /\ UNCHANGED copies
        /\ retryCount'[cur[w].id] = retryCount[cur[w].id] + 1
        /\ \A e \in Events : e # cur[w].id
             => status'[e] = status[e] /\ retryCount'[e] = retryCount[e]
    BY <1>13, <2>1 DEF MarkOutboxRetry, NextAttempt, sinkVars
  <2>3. ASSUME NEW e \in Events PROVE copies'[e] <= retryCount'[e] + 1
    <3>1. retryCount'[e] \in {retryCount[e], retryCount[e] + 1}
      BY <2>2
    <3>2. copies'[e] = copies[e] /\ copies[e] \in Nat /\ retryCount[e] \in Nat
      BY <2>2
    <3> QED
      BY <3>1, <3>2
  <2>4. \A e \in Events : status'[e] \in {"absent", "pending"}
                          => copies'[e] <= retryCount'[e]
    BY <2>1, <2>2
  <2>5. ASSUME NEW v \in Workers, NEW a \in batch'[v],
               pc'[v] = "ready" \/ a # cur'[v]
        PROVE  copies'[a.id] <= retryCount'[a.id]
    <3>1. a \in batch[v] /\ (v = w => a # cur[w]) /\ (v # w => pc'[v] = pc[v] /\ cur'[v] = cur[v])
      BY <1>13 DEF MarkOutboxRetry, Proceed
    <3>2. a.id # cur[w].id /\ a.id \in Events
      BY <2>1, <3>1, OneHolder, OutboxEventFields
    <3>3. copies[a.id] <= retryCount[a.id]
      BY <2>5, <3>1
    <3> QED
      BY <2>2, <3>2, <3>3
  <2> QED
    BY <2>3, <2>4, <2>5
<1> QED
  BY <1>2, <1>3, <1>4, <1>5, <1>6, <1>7, <1>8, <1>9, <1>10, <1>11, <1>12, <1>13
  DEF Next, vars, rowVars, sinkVars, Claim, ClaimNothing, Deliver, Tick

LEMMA WrittenStep ==
  ASSUME IInv, [Next]_vars
  PROVE  WrittenInv' /\ DeliveredWasWritten'
<1> DEFINE Goal == WrittenInv /\ DeliveredWasWritten
<1> USE DEF IInv, TypeOK, WrittenInv, DeliveredWasWritten
\* Steps that move no worker past an insert and call no event delivered.
<1>1. ASSUME UNCHANGED <<copies, view>>,
             \A e \in Events : status'[e] = "delivered" => status[e] = "delivered",
             \A v \in Workers : \/ pc'[v] \notin {"viewing", "marking"}
                                \/ pc'[v] = pc[v] /\ cur'[v] = cur[v]
      PROVE  Goal'
  BY <1>1
<1>2. CASE UNCHANGED <<copies, view, status, workerVars>>
  BY <1>1, <1>2 DEF workerVars
<1>3. ASSUME NEW e \in Events, NEW f \in Events, Enqueue({e, f})
      PROVE  Goal'
  BY <1>1, <1>3 DEF Enqueue, sinkVars, workerVars
<1>4. ASSUME NEW w \in Workers, NEW S \in SUBSET Events, ClaimSelect(w, S)
      PROVE  Goal'
  BY <1>1, <1>4 DEF ClaimSelect, rowVars, sinkVars
<1>5. ASSUME NEW w \in Workers, ClaimRollback(w) \/ Restart(w)
      PROVE  Goal'
  BY <1>1, <1>5 DEF ClaimRollback, Restart, rowVars, sinkVars
<1>6. ASSUME NEW w \in Workers, ClaimAckLost(w)
      PROVE  Goal'
  BY <1>1, <1>6 DEF ClaimAckLost, MarkProcessing, sinkVars
<1>7. ASSUME NEW w \in Workers, ClaimCommit(w)
      PROVE  Goal'
  BY <1>1, <1>7 DEF ClaimCommit, MarkProcessing, sinkVars
<1>8. ASSUME NEW w \in Workers, Stop(w)
      PROVE  Goal'
  BY <1>1, <1>8 DEF Stop, rowVars, sinkVars
<1>9. ASSUME NEW w \in Workers, MarkFails(w)
      PROVE  Goal'
  BY <1>1, <1>9 DEF MarkFails, Proceed, rowVars, sinkVars
<1>10. ASSUME NEW w \in Workers, MarkOutboxRetry(w)
       PROVE  Goal'
  BY <1>1, <1>10 DEF MarkOutboxRetry, Proceed, sinkVars
\* An insert reported as done is done; a failed one leads to the retry.
<1>11. ASSUME NEW w \in Workers, NEW ev \in OutboxEvent,
              InsertOK(w, ev) \/ InsertError(w, ev)
       PROVE  Goal'
  <2>1. /\ ev.id \in Events
        /\ cur'[w] = ev
        /\ UNCHANGED <<status, view>>
        /\ \A v \in Workers \ {w} : pc'[v] = pc[v] /\ cur'[v] = cur[v]
    BY <1>11, OutboxEventFields DEF InsertOK, InsertError, rowVars
  <2>2. UNCHANGED copies \/ StoreRow(ev)
    BY <1>11 DEF InsertOK, InsertError
  <2>3. ASSUME NEW e \in Events PROVE copies[e] > 0 => copies'[e] > 0
    <3>1. CASE UNCHANGED copies
      BY <3>1
    <3>2. CASE StoreRow(ev)
      BY <2>1, <3>2 DEF StoreRow
    <3> QED
      BY <2>2, <3>1, <3>2
  <2>4. pc'[w] = "viewing" => copies'[ev.id] > 0
    <3>1. CASE InsertOK(w, ev)
      BY <2>1, <3>1 DEF InsertOK, StoreRow
    <3>2. CASE InsertError(w, ev)
      BY <3>2 DEF InsertError
    <3> QED
      BY <1>11, <3>1, <3>2
  <2>5. pc'[w] \in {"viewing", "retrying"}
    BY <1>11 DEF InsertOK, InsertError
  <2>6. \A v \in Workers : pc[v] \in {"viewing", "marking"} => cur[v].id \in Events
    BY CurrentEvent DEF Busy
  <2>7. WrittenInv'
    BY <2>1, <2>3, <2>4, <2>5, <2>6
  <2>8. DeliveredWasWritten'
    BY <2>1, <2>3
  <2> QED
    BY <2>7, <2>8
<1>12. ASSUME NEW w \in Workers, InsertBurnEventView(w)
       PROVE  Goal'
  BY <1>12 DEF InsertBurnEventView, ViewRow, rowVars
<1>13. ASSUME NEW w \in Workers, MarkOutboxDelivered(w)
       PROVE  Goal'
  BY <1>13 DEF MarkOutboxDelivered, Proceed, sinkVars
<1> QED
  BY <1>2, <1>3, <1>4, <1>5, <1>6, <1>7, <1>8, <1>9, <1>10, <1>11, <1>12, <1>13
  DEF Next, vars, rowVars, sinkVars, Claim, ClaimNothing, Deliver, Tick

LEMMA AttemptsStep ==
  ASSUME IInv, [Next]_vars
  PROVE  AttemptsComplete'
<1> USE DEF IInv, TypeOK, AttemptsComplete
<1>1. CASE UNCHANGED <<retryCount, attempts>>
  BY <1>1
<1>2. ASSUME NEW w \in Workers, MarkOutboxRetry(w)
      PROVE  AttemptsComplete'
  <2> DEFINE e == cur[w].id
             n == retryCount[e]
  <2>1. e \in Events /\ n \in Nat /\ cur[w].retryCount = n
    BY <1>2, CurrentRow DEF MarkOutboxRetry, Busy
  <2>2. attempts[e] = [i \in 1..n |-> i]
    BY <2>1
  <2>3. Append(attempts[e], n + 1) = [i \in 1..(n + 1) |-> i]
    BY <2>1, <2>2
  <2>4. /\ attempts' = [attempts EXCEPT ![e] = Append(@, n + 1)]
        /\ retryCount' = [retryCount EXCEPT ![e] = n + 1]
    BY <1>2, <2>1 DEF MarkOutboxRetry, NextAttempt
  <2> QED
    BY <2>1, <2>3, <2>4
<1> QED
  BY <1>1, <1>2
  DEF Next, vars, rowVars, Claim, ClaimSelect, ClaimNothing, ClaimCommit,
      ClaimRollback, ClaimAckLost, Deliver, Enqueue, Tick, InsertOK,
      InsertError, InsertBurnEventView, MarkOutboxDelivered, MarkFails, Stop,
      Restart

-----------------------------------------------------------------------------
(* The theorems.                                                           *)

THEOREM Invariance == Spec => []IInv
<1>1. IInv /\ [Next]_vars => IInv'
  <2> SUFFICES ASSUME IInv, [Next]_vars PROVE IInv'
    OBVIOUS
  <2>1. TypeOK'
    BY TypeStep DEF IInv
  <2> QED
    BY <2>1, ControlStep, LockStep, ClaimsAreCurrentStep, BatchStep, CountStep,
       WrittenStep, AttemptsStep
    DEF IInv
<1> QED
  BY <1>1, IInvInit, PTL DEF Spec

\* Every variable stays in its type: in particular no retry_count passes the
\* bound and every next_attempt_at is a natural number of seconds away.
THEOREM TypeCorrect == Spec => []TypeOK
<1>1. IInv => TypeOK
  BY DEF IInv
<1> QED
  BY <1>1, Invariance, PTL

\* No event is ever in the hands of two workers, however many processes run
\* and whichever of them stop.
THEOREM ExclusiveClaims == Spec => []ClaimsAreExclusive
<1>1. IInv => ClaimsAreExclusive
  <2> SUFFICES ASSUME IInv, NEW v \in Workers, NEW w \in Workers, v # w,
                      NEW e \in locks[v] \cup Held(v), e \in locks[w] \cup Held(w)
               PROVE  FALSE
    BY DEF ClaimsAreExclusive
  <2>1. \A u \in Workers : /\ e \in Held(u) => status[e] = "processing"
                           /\ e \in locks[u] => status[e] = "pending"
    BY DEF Held, IInv, ClaimsAreCurrent, LockInv
  <2>2. CASE e \in locks[v] /\ e \in locks[w]
    BY <2>2 DEF IInv, LockInv
  <2>3. CASE e \in Held(v) /\ e \in Held(w)
    BY <2>3 DEF Held, IInv, BatchInv
  <2> QED
    BY <2>1, <2>2, <2>3
<1> QED
  BY <1>1, Invariance, PTL

\* The retry count a worker read when it claimed a row is still right when it
\* writes the incremented one.
THEOREM CurrentClaims == Spec => []ClaimsAreCurrent
<1>1. IInv => ClaimsAreCurrent
  BY DEF IInv
<1> QED
  BY <1>1, Invariance, PTL

\* The delivery attempts on record are exactly 1..retry_count.
THEOREM AttemptsOnRecord == Spec => []AttemptsComplete
<1>1. IInv => AttemptsComplete
  BY DEF IInv
<1> QED
  BY <1>1, Invariance, PTL

\* ClickHouse never holds more than one row of an event beyond its retries.
THEOREM DuplicatesArePaidFor == Spec => []DuplicatesBounded
<1>1. IInv => DuplicatesBounded
  BY DEF IInv
<1> QED
  BY <1>1, Invariance, PTL

\* A delivered event keeps its status, its ClickHouse rows and its attempts:
\* every write goes to an event whose row is 'pending' or 'processing'.
THEOREM DeliveredStaysFinal == Spec => DeliveredIsFinal
<1> DEFINE Final(e) == status[e] = "delivered" =>
                         /\ status'[e] = "delivered"
                         /\ copies'[e] = copies[e]
                         /\ attempts'[e] = attempts[e]
<1>1. ASSUME IInv, [Next]_vars, NEW e \in Events, status[e] = "delivered"
      PROVE  Final(e)
  <2> USE DEF IInv, TypeOK
  <2>1. CASE UNCHANGED <<status, copies, attempts>>
    BY <2>1
  <2>2. ASSUME NEW f \in Events, NEW g \in Events, Enqueue({f, g})
        PROVE  Final(e)
    BY <1>1, <2>2 DEF Enqueue, sinkVars
  <2>3. ASSUME NEW w \in Workers, ClaimCommit(w) \/ ClaimAckLost(w)
        PROVE  Final(e)
    <3>1. e \notin locks[w]
      BY <1>1 DEF LockInv
    <3>2. status'[e] = status[e] /\ UNCHANGED <<copies, attempts>>
      BY <2>3, <3>1 DEF ClaimCommit, ClaimAckLost, MarkProcessing, sinkVars
    <3> QED
      BY <1>1, <3>2
  <2>4. ASSUME NEW w \in Workers, NEW ev \in OutboxEvent,
               InsertOK(w, ev) \/ InsertError(w, ev)
        PROVE  Final(e)
    <3>1. ev \in batch[w] /\ UNCHANGED <<status, attempts>>
      BY <2>4 DEF InsertOK, InsertError, rowVars
    <3>2. e # ev.id
      BY <1>1, <3>1 DEF ClaimsAreCurrent
    <3>3. UNCHANGED copies \/ StoreRow(ev)
      BY <2>4 DEF InsertOK, InsertError
    <3>4. copies'[e] = copies[e]
      <4>1. CASE UNCHANGED copies
        BY <4>1
      <4>2. CASE StoreRow(ev)
        BY <3>2, <4>2 DEF StoreRow
      <4> QED
        BY <3>3, <4>1, <4>2
    <3> QED
      BY <1>1, <3>1, <3>4
  <2>5. ASSUME NEW w \in Workers, MarkOutboxRetry(w) \/ MarkOutboxDelivered(w)
        PROVE  Final(e)
    <3>1. e # cur[w].id
      BY <1>1, <2>5, CurrentRow DEF MarkOutboxRetry, MarkOutboxDelivered, Busy
    <3> QED
      BY <1>1, <2>5, <3>1 DEF MarkOutboxRetry, MarkOutboxDelivered, sinkVars
  <2> QED
    BY <1>1, <2>1, <2>2, <2>3, <2>4, <2>5
    DEF Next, vars, rowVars, sinkVars, Claim, ClaimSelect, ClaimNothing,
        ClaimRollback, Deliver, Tick, InsertBurnEventView, MarkFails, Stop,
        Restart
<1>2. IInv /\ [Next]_vars => [\A e \in Events : Final(e)]_vars
  BY <1>1
<1> QED
  BY <1>2, Invariance, PTL DEF Spec, DeliveredIsFinal

\* The outbox implements at-least-once delivery: it may write an event again
\* and again, acknowledges it only once it is written, and then leaves it.
THEOREM Refinement == Spec => ImplementsDelivery
<1> DEFINE Queued == {e \in Events : status[e] # "absent"}
           Acked  == {e \in Events : status[e] = "delivered"}
<1>1. Init => Delivery!Init
  BY DEF Init, Delivery!Init
<1>2. IInv /\ [Next]_vars => [Delivery!Next]_(Delivery!vars)
  <2> SUFFICES ASSUME IInv, [Next]_vars
               PROVE  [Delivery!Next]_(Delivery!vars)
    OBVIOUS
  <2> USE DEF IInv, TypeOK
  \* Steps that enqueue, write and acknowledge nothing.
  <2>1. ASSUME UNCHANGED copies,
               \A e \in Events : /\ status'[e] = "absent" <=> status[e] = "absent"
                                 /\ status'[e] = "delivered" <=> status[e] = "delivered"
        PROVE  UNCHANGED Delivery!vars
    <3>1. Queued' = Queued /\ Acked' = Acked
      BY <2>1
    <3> QED
      BY <2>1, <3>1 DEF Delivery!vars
  <2>2. CASE UNCHANGED <<status, copies>>
    BY <2>1, <2>2
  <2>3. ASSUME NEW e \in Events, NEW f \in Events, Enqueue({e, f})
        PROVE  Delivery!Next
    <3>1. Queued' = Queued \cup {e, f} /\ Acked' = Acked
      BY <2>3 DEF Enqueue
    <3>2. {e, f} \cap Queued = {} /\ UNCHANGED copies
      BY <2>3 DEF Enqueue, sinkVars
    <3>3. Delivery!Enqueue({e, f})
      BY <3>1, <3>2 DEF Delivery!Enqueue
    <3> QED
      BY <3>3 DEF Delivery!Next
  <2>4. ASSUME NEW w \in Workers, ClaimCommit(w) \/ ClaimAckLost(w)
        PROVE  UNCHANGED Delivery!vars
    <3>1. \A e \in Events : status'[e] = IF e \in locks[w] THEN "processing" ELSE status[e]
      BY <2>4 DEF ClaimCommit, ClaimAckLost, MarkProcessing
    <3>2. \A e \in locks[w] : status[e] = "pending"
      BY DEF LockInv
    <3>3. UNCHANGED copies
      BY <2>4 DEF ClaimCommit, ClaimAckLost, sinkVars
    <3> QED
      BY <2>1, <3>1, <3>2, <3>3
  <2>5. ASSUME NEW w \in Workers, NEW ev \in OutboxEvent,
               InsertOK(w, ev) \/ InsertError(w, ev)
        PROVE  [Delivery!Next]_(Delivery!vars)
    <3>1. /\ ev \in batch[w]
          /\ UNCHANGED status
          /\ UNCHANGED copies \/ StoreRow(ev)
      BY <2>5 DEF InsertOK, InsertError, rowVars
    <3>2. ev.id \in Events /\ status[ev.id] = "processing"
      BY <3>1, OutboxEventFields DEF ClaimsAreCurrent
    <3>3. CASE UNCHANGED copies
      BY <2>2, <3>1, <3>3
    <3>4. CASE StoreRow(ev)
      <4>1. Delivery!Write(ev.id)
        BY <3>1, <3>2, <3>4 DEF StoreRow, Delivery!Write
      <4> QED
        BY <3>2, <4>1 DEF Delivery!Next
    <3> QED
      BY <3>1, <3>3, <3>4
  <2>6. ASSUME NEW w \in Workers, MarkOutboxRetry(w)
        PROVE  UNCHANGED Delivery!vars
    <3>1. cur[w].id \in Events /\ status[cur[w].id] = "processing"
      BY <2>6, CurrentRow DEF MarkOutboxRetry, Busy
    <3>2. status' = [status EXCEPT ![cur[w].id] = "pending"] /\ UNCHANGED copies
      BY <2>6 DEF MarkOutboxRetry, sinkVars
    <3> QED
      BY <2>1, <3>1, <3>2
  <2>7. ASSUME NEW w \in Workers, MarkOutboxDelivered(w)
        PROVE  Delivery!Next
    <3>1. cur[w].id \in Events /\ status[cur[w].id] = "processing"
      BY <2>7, CurrentRow DEF MarkOutboxDelivered, Busy
    <3>2. status' = [status EXCEPT ![cur[w].id] = "delivered"] /\ UNCHANGED copies
      BY <2>7 DEF MarkOutboxDelivered, sinkVars
    <3>3. copies[cur[w].id] > 0
      BY <2>7, <3>1 DEF MarkOutboxDelivered, WrittenInv
    <3>4. Queued' = Queued /\ Acked' = Acked \cup {cur[w].id}
      BY <3>1, <3>2
    <3>5. PICK e \in Events : e = cur[w].id
      BY <3>1
    <3>6. Delivery!Acknowledge(e)
      BY <3>1, <3>2, <3>3, <3>4, <3>5 DEF Delivery!Acknowledge
    <3> QED
      BY <3>6 DEF Delivery!Next
  <2> QED
    BY <2>2, <2>3, <2>4, <2>5, <2>6, <2>7
    DEF Next, vars, rowVars, sinkVars, Claim, ClaimSelect, ClaimNothing,
        ClaimRollback, Deliver, Tick, InsertBurnEventView, MarkFails, Stop,
        Restart
<1> QED
  BY <1>1, <1>2, Invariance, PTL DEF Spec, ImplementsDelivery, Delivery!Spec

\* What is called delivered, or shown from the view, is in ClickHouse.
THEOREM NoFalseDelivery == Spec => []DeliveredWasWritten
<1>1. IInv => DeliveredWasWritten
  BY DEF IInv
<1> QED
  BY <1>1, Invariance, PTL
-----------------------------------------------------------------------------
(* How much can be lost.  The sets that are counted have to be finite: a   *)
(* transaction enqueues two events at most, so finitely many rows exist    *)
(* although Events may be infinite, and nothing else is ever claimed.      *)

Queued == {e \in Events : status[e] # "absent"}

IsBatch(S) == IsFiniteSet(S) /\ Cardinality(S) <= BatchSize

LossInv ==
  /\ IsFiniteSet(Queued)
  /\ \A w \in Workers : IsBatch(locks[w]) /\ IsBatch(Held(w))
  /\ IsFiniteSet(Orphans)
  /\ OrphansBounded

LEMMA SubBatch ==
  ASSUME NEW S, IsBatch(S), NEW T \in SUBSET S
  PROVE  IsBatch(T)
<1>1. IsFiniteSet(T) /\ Cardinality(T) <= Cardinality(S)
  BY FS_Subset DEF IsBatch
<1>2. Cardinality(T) \in Nat /\ Cardinality(S) \in Nat
  BY <1>1, FS_CardinalityType DEF IsBatch
<1> QED
  BY <1>1, <1>2, BatchAssumption DEF IsBatch

LEMMA NoBatch == IsBatch({})
BY FS_EmptySet, BatchAssumption DEF IsBatch

\* A batch more than n batches is n + 1 batches.
LEMMA OneMoreBatch ==
  ASSUME NEW S, IsFiniteSet(S), NEW T, IsBatch(T), NEW n \in Nat,
         Cardinality(S) <= BatchSize * n, NEW U \in SUBSET (S \cup T)
  PROVE  IsFiniteSet(U) /\ Cardinality(U) <= BatchSize * (n + 1)
<1>1. IsFiniteSet(S \cup T) /\ IsFiniteSet(S \cap T) /\ IsFiniteSet(T)
  BY FS_Union, FS_Intersection DEF IsBatch
<1>2. Cardinality(S \cup T) = Cardinality(S) + Cardinality(T) - Cardinality(S \cap T)
  BY FS_Union DEF IsBatch
<1>3. IsFiniteSet(U) /\ Cardinality(U) <= Cardinality(S \cup T)
  BY <1>1, FS_Subset
<1>4. /\ Cardinality(S) \in Nat /\ Cardinality(T) \in Nat /\ Cardinality(U) \in Nat
      /\ Cardinality(S \cup T) \in Nat /\ Cardinality(S \cap T) \in Nat
  BY <1>1, <1>3, FS_CardinalityType
<1>5. Cardinality(U) <= Cardinality(S) + BatchSize
  BY <1>2, <1>3, <1>4, BatchAssumption DEF IsBatch
<1>6. BatchSize * (n + 1) = BatchSize * n + BatchSize /\ BatchSize * n \in Nat
  BY BatchAssumption
<1> QED
  BY <1>3, <1>4, <1>5, <1>6, BatchAssumption

LEMMA NoMoreLost ==
  ASSUME LossInv, faults \in Nat, faults' = faults, Orphans' \subseteq Orphans
  PROVE  IsFiniteSet(Orphans') /\ OrphansBounded'
<1>1. IsFiniteSet(Orphans') /\ Cardinality(Orphans') <= Cardinality(Orphans)
  BY FS_Subset DEF LossInv
<1>2. Cardinality(Orphans') \in Nat /\ Cardinality(Orphans) \in Nat
  BY <1>1, FS_CardinalityType DEF LossInv
<1>3. BatchSize * faults \in Nat
  BY BatchAssumption
<1> QED
  BY <1>1, <1>2, <1>3 DEF LossInv, OrphansBounded

LEMMA InitLossInv == Init => LossInv
<1> SUFFICES ASSUME Init PROVE LossInv
  OBVIOUS
<1>1. Queued = {} /\ Orphans = {} /\ \A w \in Workers : locks[w] = {} /\ Held(w) = {}
  BY DEF Init, Queued, Orphans, Held
<1>2. Cardinality(Orphans) = 0 /\ BatchSize * faults = 0
  BY <1>1, FS_EmptySet, BatchAssumption DEF Init
<1> QED
  BY <1>1, <1>2, NoBatch, FS_EmptySet DEF LossInv, OrphansBounded

\* What a worker that goes on keeps in hand: all but the event it is done with.
LEMMA HeldAfterProceed ==
  ASSUME IInv, NEW w \in Workers, pc[w] \in Busy, Proceed(w)
  PROVE  /\ \A v \in Workers : Held(v)' \subseteq Held(v)
         /\ \A v \in Workers : Held(v) \subseteq Held(v)' \cup {cur[w].id}
         /\ cur[w].id \in Held(w)
<1>1. cur[w] \in batch[w]
  BY CurrentRow
<1>2. \A v \in Workers : /\ batch'[v] \subseteq batch[v]
                         /\ batch[v] \subseteq batch'[v] \cup {cur[w]}
  BY DEF Proceed, IInv, TypeOK
<1> QED
  BY <1>1, <1>2 DEF Held

\* What a worker has in hand after its claim: what it had locked.
LEMMA HeldAfterClaim ==
  ASSUME TypeOK, NEW w \in Workers, ClaimCommit(w)
  PROVE  Held(w)' = locks[w]
<1> DEFINE Row(e) == [id |-> e, retryCount |-> retryCount[e]]
<1>1. batch'[w] = {Row(e) : e \in locks[w]}
  BY DEF ClaimCommit, TypeOK
<1>2. \A e : Row(e).id = e
  OBVIOUS
<1> HIDE DEF Row
<1>3. \A e \in locks[w] : e \in Held(w)'
  BY <1>1, <1>2 DEF Held
<1>4. \A e \in Held(w)' : e \in locks[w]
  BY <1>1, <1>2 DEF Held
<1> QED
  BY <1>3, <1>4

LEMMA SizesStep ==
  ASSUME IInv, LossInv, [Next]_vars
  PROVE  /\ IsFiniteSet(Queued')
         /\ \A w \in Workers : IsBatch(locks'[w]) /\ IsBatch(Held(w)')
<1> USE DEF IInv, TypeOK
<1>0. /\ IsFiniteSet(Queued)
      /\ \A w \in Workers : IsBatch(locks[w]) /\ IsBatch(Held(w))
  BY DEF LossInv
<1> DEFINE Goal == /\ IsFiniteSet(Queued')
                   /\ \A w \in Workers : IsBatch(locks'[w]) /\ IsBatch(Held(w)')
<1>1. ASSUME Queued' \subseteq Queued,
             \A v \in Workers : locks'[v] \subseteq locks[v],
             \A v \in Workers : Held(v)' \subseteq Held(v)
      PROVE  Goal
  BY <1>0, <1>1, SubBatch, FS_Subset
<1>2. ASSUME UNCHANGED batch PROVE \A v \in Workers : Held(v)' = Held(v)
  BY <1>2 DEF Held
<1>3. CASE UNCHANGED <<status, locks, batch>>
  BY <1>1, <1>2, <1>3 DEF Queued
<1>4. ASSUME NEW e \in Events, NEW f \in Events, Enqueue({e, f})
      PROVE  Goal
  <2>1. Queued' \subseteq Queued \cup {e} \cup {f}
    BY <1>4 DEF Enqueue, Queued
  <2>2. IsFiniteSet(Queued \cup {e} \cup {f})
    BY <1>0, FS_AddElement
  <2>3. IsFiniteSet(Queued')
    BY <2>1, <2>2, FS_Subset
  <2>4. UNCHANGED <<locks, batch>>
    BY <1>4 DEF Enqueue, workerVars
  <2> QED
    BY <1>0, <1>2, <2>3, <2>4
<1>5. ASSUME NEW w \in Workers, NEW S \in SUBSET Events, ClaimSelect(w, S)
      PROVE  Goal
  <2>1. S \subseteq Queued /\ Cardinality(S) <= BatchSize
    BY <1>5 DEF ClaimSelect, OldestDue, Claimable, Queued
  <2>2. IsBatch(S)
    BY <1>0, <2>1, FS_Subset DEF IsBatch
  <2>3. UNCHANGED <<status, batch>> /\ locks' = [locks EXCEPT ![w] = S]
    BY <1>5 DEF ClaimSelect, rowVars
  <2>4. Queued' = Queued
    BY <2>3 DEF Queued
  <2> QED
    BY <1>0, <1>2, <2>2, <2>3, <2>4
<1>6. ASSUME NEW w \in Workers, ClaimCommit(w) \/ ClaimAckLost(w)
      PROVE  Goal
  <2>1. Queued' \subseteq Queued
    BY <1>6 DEF ClaimCommit, ClaimAckLost, MarkProcessing, LockInv, Queued
  <2>2. locks' = [locks EXCEPT ![w] = {}]
    BY <1>6 DEF ClaimCommit, ClaimAckLost
  <2>3. \A v \in Workers : Held(v)' = Held(v) \/ Held(v)' = locks[v]
    <3>1. CASE ClaimCommit(w)
      <4>1. \A v \in Workers \ {w} : batch'[v] = batch[v]
        BY <3>1 DEF ClaimCommit
      <4>2. Held(w)' = locks[w]
        BY <3>1, HeldAfterClaim
      <4> QED
        BY <4>1, <4>2 DEF Held
    <3>2. CASE ClaimAckLost(w)
      BY <1>2, <3>2 DEF ClaimAckLost
    <3> QED
      BY <1>6, <3>1, <3>2
  <2> QED
    BY <1>0, <2>1, <2>2, <2>3, NoBatch, FS_Subset
<1>7. ASSUME NEW w \in Workers, ClaimRollback(w)
      PROVE  Goal
  BY <1>1, <1>2, <1>7 DEF ClaimRollback, rowVars, Queued
<1>8. ASSUME NEW w \in Workers, Stop(w)
      PROVE  Goal
  <2>1. \A v \in Workers : Held(v)' \subseteq Held(v)
    BY <1>8, BatchesShrink DEF Held
  <2> QED
    BY <1>1, <1>8, <2>1 DEF Stop, rowVars, Queued
<1>9. ASSUME NEW w \in Workers,
             MarkOutboxRetry(w) \/ MarkOutboxDelivered(w) \/ MarkFails(w)
      PROVE  Goal
  <2>1. pc[w] \in Busy /\ Proceed(w)
    BY <1>9 DEF MarkOutboxRetry, MarkOutboxDelivered, MarkFails, Busy
  <2>2. status[cur[w].id] = "processing"
    BY <2>1, CurrentRow
  <2>3. \A e \in Events : e # cur[w].id => status'[e] = status[e]
    BY <1>9 DEF MarkOutboxRetry, MarkOutboxDelivered, MarkFails, rowVars
  <2>4. Queued' \subseteq Queued
    BY <2>2, <2>3 DEF Queued
  <2> QED
    BY <1>1, <2>1, <2>4, HeldAfterProceed DEF Proceed
<1> QED
  BY <1>3, <1>4, <1>5, <1>6, <1>7, <1>8, <1>9
  DEF Next, vars, rowVars, workerVars, Claim, ClaimNothing, Deliver, Tick,
      InsertOK, InsertError, InsertBurnEventView, Restart

\* Rows are orphaned by a fault only: all that the worker had locked, had in
\* hand, or was delivering, which is a batch at most.
LEMMA OrphansStep ==
  ASSUME IInv, LossInv, [Next]_vars
  PROVE  IsFiniteSet(Orphans') /\ OrphansBounded'
<1> USE DEF IInv, TypeOK
<1> DEFINE Goal == IsFiniteSet(Orphans') /\ OrphansBounded'
<1>0. faults \in Nat /\ IsFiniteSet(Orphans) /\ OrphansBounded
      /\ \A w \in Workers : IsBatch(locks[w]) /\ IsBatch(Held(w))
  BY BoundAssumption DEF LossInv
<1>1. ASSUME faults' = faults, Orphans' \subseteq Orphans PROVE Goal
  BY <1>0, <1>1, NoMoreLost
<1>2. ASSUME faults' = faults + 1, NEW T, IsBatch(T), Orphans' \subseteq Orphans \cup T
      PROVE  Goal
  <2>1. Cardinality(Orphans) <= BatchSize * faults
    BY <1>0 DEF OrphansBounded
  <2> QED
    BY <1>0, <1>2, <2>1, OneMoreBatch DEF OrphansBounded
<1>3. CASE UNCHANGED <<status, batch, faults>>
  BY <1>1, <1>3 DEF Orphans, Held
<1>4. ASSUME NEW e \in Events, NEW f \in Events, Enqueue({e, f})
      PROVE  Goal
  BY <1>1, <1>4 DEF Enqueue, workerVars, Orphans, Held
<1>5. ASSUME NEW w \in Workers, ClaimCommit(w)
      PROVE  Goal
  <2>1. Held(w)' = locks[w]
    BY <1>5, HeldAfterClaim
  <2>2. Held(w) = {} /\ \A v \in Workers \ {w} : Held(v)' = Held(v)
    BY <1>5 DEF ClaimCommit, ControlInv, Held
  <2>3. \A e \in Events : e \notin locks[w] => status'[e] = status[e]
    BY <1>5 DEF ClaimCommit, MarkProcessing
  <2>4. Orphans' \subseteq Orphans
    BY <2>1, <2>2, <2>3 DEF Orphans
  <2> QED
    BY <1>1, <1>5, <2>4 DEF ClaimCommit
<1>6. ASSUME NEW w \in Workers, ClaimAckLost(w)
      PROVE  Goal
  <2>1. Orphans' \subseteq Orphans \cup locks[w]
    BY <1>6 DEF ClaimAckLost, MarkProcessing, Orphans, Held
  <2> QED
    BY <1>0, <1>2, <1>6, <2>1 DEF ClaimAckLost, LoseClaim
<1>7. ASSUME NEW w \in Workers, Stop(w)
      PROVE  Goal
  <2>1. \A v \in Workers \ {w} : Held(v)' = Held(v)
    BY <1>7 DEF Stop, Held
  <2>2. UNCHANGED status
    BY <1>7 DEF Stop, rowVars
  <2>3. Orphans' \subseteq Orphans \cup Held(w)
    BY <2>1, <2>2 DEF Orphans
  <2> QED
    BY <1>0, <1>2, <1>7, <2>3 DEF Stop, LoseClaim
<1>8. ASSUME NEW w \in Workers, MarkFails(w)
      PROVE  Goal
  <2>1. pc[w] \in Busy /\ Proceed(w) /\ UNCHANGED status
    BY <1>8 DEF MarkFails, Busy, rowVars
  <2>2. Orphans' \subseteq Orphans \cup Held(w)
    BY <2>1, HeldAfterProceed DEF Orphans
  <2> QED
    BY <1>0, <1>2, <1>8, <2>2 DEF MarkFails, LoseClaim
<1>9. ASSUME NEW w \in Workers, MarkOutboxRetry(w) \/ MarkOutboxDelivered(w)
      PROVE  Goal
  <2>1. pc[w] \in Busy /\ Proceed(w) /\ UNCHANGED faults
    BY <1>9 DEF MarkOutboxRetry, MarkOutboxDelivered, Busy
  <2>2. cur[w].id \in Events
    BY <2>1, CurrentRow
  <2>3. /\ status'[cur[w].id] # "processing"
        /\ \A e \in Events : e # cur[w].id => status'[e] = status[e]
    BY <1>9, <2>2 DEF MarkOutboxRetry, MarkOutboxDelivered
  <2>4. Orphans' \subseteq Orphans
    BY <2>1, <2>3, HeldAfterProceed DEF Orphans
  <2> QED
    BY <1>1, <2>1, <2>4
<1> QED
  BY <1>3, <1>4, <1>5, <1>6, <1>7, <1>8, <1>9
  DEF Next, vars, rowVars, workerVars, Claim, ClaimNothing, ClaimSelect,
      ClaimRollback, Deliver, Tick, InsertOK, InsertError,
      InsertBurnEventView, Restart

\* Each stop, lost acknowledgement or failed mark loses one batch at most, and
\* without one of them no row stays 'processing' with nobody working on it.
THEOREM LossesBounded == Spec => []OrphansBounded
<1>1. IInv /\ LossInv /\ [Next]_vars => LossInv'
  <2> SUFFICES ASSUME IInv, LossInv, [Next]_vars PROVE LossInv'
    OBVIOUS
  <2>1. /\ IsFiniteSet(Queued')
        /\ \A w \in Workers : IsBatch(locks'[w]) /\ IsBatch(Held(w)')
    BY SizesStep
  <2>2. IsFiniteSet(Orphans') /\ OrphansBounded'
    BY OrphansStep
  <2> QED
    BY <2>1, <2>2 DEF LossInv, IsBatch
<1>2. LossInv => OrphansBounded
  BY DEF LossInv
<1> QED
  BY <1>1, <1>2, InitLossInv, Invariance, PTL DEF Spec

-----------------------------------------------------------------------------
(* The view.  A worker marks a row only after its insert into the view has *)
(* succeeded or failed.                                                    *)

VisibleInv ==
  /\ \A w \in Workers : pc[w] = "marking" => cur[w].id \in view \cup missed
  /\ DeliveredIsVisible

LEMMA VisibleStep ==
  ASSUME IInv, VisibleInv, [Next]_vars
  PROVE  VisibleInv'
<1> USE DEF IInv, TypeOK, VisibleInv, DeliveredIsVisible
\* Steps that bring no worker to the mark and call no event delivered.
<1>1. ASSUME view \cup missed \subseteq (view \cup missed)',
             \A e \in Events : status'[e] = "delivered" => status[e] = "delivered",
             \A v \in Workers : \/ pc'[v] # "marking"
                                \/ pc'[v] = pc[v] /\ cur'[v] = cur[v]
      PROVE  VisibleInv'
  BY <1>1
<1>2. CASE UNCHANGED <<view, missed, status, workerVars>>
  BY <1>1, <1>2 DEF workerVars
<1>3. ASSUME NEW e \in Events, NEW f \in Events, Enqueue({e, f})
      PROVE  VisibleInv'
  BY <1>1, <1>3 DEF Enqueue, sinkVars, workerVars
<1>4. ASSUME NEW w \in Workers, NEW S \in SUBSET Events, ClaimSelect(w, S)
      PROVE  VisibleInv'
  BY <1>1, <1>4 DEF ClaimSelect, rowVars, sinkVars
<1>5. ASSUME NEW w \in Workers,
             ClaimRollback(w) \/ ClaimCommit(w) \/ ClaimAckLost(w)
      PROVE  VisibleInv'
  BY <1>1, <1>5
  DEF ClaimRollback, ClaimCommit, ClaimAckLost, MarkProcessing, rowVars, sinkVars
<1>6. ASSUME NEW w \in Workers, NEW ev \in OutboxEvent,
             InsertOK(w, ev) \/ InsertError(w, ev)
      PROVE  VisibleInv'
  BY <1>1, <1>6 DEF InsertOK, InsertError, rowVars
<1>7. ASSUME NEW w \in Workers, MarkOutboxRetry(w)
      PROVE  VisibleInv'
  BY <1>1, <1>7 DEF MarkOutboxRetry, Proceed, sinkVars
<1>8. ASSUME NEW w \in Workers, MarkFails(w) \/ Stop(w) \/ Restart(w)
      PROVE  VisibleInv'
  BY <1>1, <1>8 DEF MarkFails, Stop, Restart, Proceed, rowVars, sinkVars
<1>9. ASSUME NEW w \in Workers, InsertBurnEventView(w)
      PROVE  VisibleInv'
  BY <1>9 DEF InsertBurnEventView, ViewRow, rowVars
<1>10. ASSUME NEW w \in Workers, MarkOutboxDelivered(w)
       PROVE  VisibleInv'
  BY <1>10 DEF MarkOutboxDelivered, Proceed, sinkVars
<1> QED
  BY <1>2, <1>3, <1>4, <1>5, <1>6, <1>7, <1>8, <1>9, <1>10
  DEF Next, vars, rowVars, sinkVars, Claim, ClaimNothing, Deliver, Tick

\* Whatever else fails, stops or is retried, an event that is called delivered
\* can be read from the view unless its own insert into the view failed, the
\* error that worker.go:101 drops.
THEOREM ViewFollowsDelivery == Spec => []DeliveredIsVisible
<1>1. Init => VisibleInv
  BY DEF Init, VisibleInv, DeliveredIsVisible
<1>2. IInv /\ VisibleInv /\ [Next]_vars => VisibleInv'
  BY VisibleStep
<1>3. VisibleInv => DeliveredIsVisible
  BY DEF VisibleInv
<1> QED
  BY <1>1, <1>2, <1>3, Invariance, PTL DEF Spec
=============================================================================
