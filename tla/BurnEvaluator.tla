---------------------------- MODULE BurnEvaluator ----------------------------
(***************************************************************************)
(* The SLO evaluators.  Each one periodically lists the SLOs, measures the *)
(* compliance of each in ClickHouse and, in one Postgres transaction per   *)
(* SLO, reads slo_burn_state, decides which burn events to put into the    *)
(* outbox and writes the state back.                                       *)
(*                                                                         *)
(* The transactions run at READ COMMITTED, so one is split at each         *)
(* statement: evaluators meet on the row lock of slo_burn_state, on the    *)
(* unique index of outbox_events.idempotency_key and with the API deleting *)
(* the SLO.                                                                *)
(***************************************************************************)
EXTENDS Integers, Sequences

CONSTANTS
  Slos,              \* SLOs with a ClickHouse datasource
  Evaluated,         \* those that have a row in slo_burn_state from the start
  Evaluators,        \* evaluator processes
  Scale,             \* the compliance of an SLO that misses nothing
  Target,            \* slos.target, in the same unit
  Compliances,       \* what a compliance query can return
  FastThreshold,     \* EVALUATOR_FAST_BURN_RATE, in tenths
  SlowThreshold,     \* EVALUATOR_SLOW_BURN_RATE, in tenths
  ContinueInterval,  \* EVALUATOR_CONTINUE_INTERVAL, in ticks
  Minute,            \* ticks per minute
  MaxClock,          \* bound: the behaviour ends at this time
  None               \* no row, or no transaction

ASSUME SloAssumption == Evaluated \subseteq Slos
ASSUME RateAssumption ==
  /\ Scale \in Nat /\ Target \in 1..(Scale - 1) /\ Compliances \subseteq 0..Scale
  /\ FastThreshold \in Nat /\ SlowThreshold \in Nat
ASSUME TimeAssumption ==
  ContinueInterval \in Nat /\ {Minute, MaxClock} \subseteq Nat \ {0}

VARIABLES
  clock,   \* time, in ticks from 1
  slos,    \* rows of slos
  state,   \* rows of slo_burn_state, None where there is none
  log,     \* committed outbox rows of each SLO, oldest commit first
  pc,      \* where each evaluator is in EvaluateOnce and persistEvaluation
  now,     \* the time its pass took for every SLO
  todo,    \* SLOs of the pass it has not looked at yet
  tx       \* its open transaction, or None

tables == <<slos, state, log>>
vars   == <<clock, tables, pc, now, todo, tx>>

Severity  == {"none", "slow", "fast"}
EventType == {"burn_started", "burn_continued", "burn_resolved",
              "error_budget_exhausted", "error_budget_recovered"}

BurnState == [severity : Severity, isBreached : BOOLEAN,
              lastContinuedAt : 0..MaxClock]  \* 0 is NULL
Event     == [type : EventType, severity : Severity, at : 1..MaxClock]
Tx        == [slo : Slos, severity : Severity, isBreached : BOOLEAN,
              prev : BurnState \cup {None},   \* as read FOR UPDATE
              rows : Seq(Event)]              \* inserted so far
ASSUME NoneAssumption == None \notin BurnState /\ None \notin Tx

TypeOK ==
  /\ clock \in 1..MaxClock
  /\ slos \in SUBSET Slos
  /\ state \in [Slos -> BurnState \cup {None}]
  /\ log \in [Slos -> Seq(Event)]
  /\ pc \in [Evaluators -> {"idle", "pass", "read", "burn_enqueued",
                            "breach_enqueued", "upserted"}]
  /\ now \in [Evaluators -> 0..MaxClock]
  /\ todo \in [Evaluators -> SUBSET Slos]
  /\ tx \in [Evaluators -> Tx \cup {None}]

NotBurning == [severity |-> "none", isBreached |-> FALSE, lastContinuedAt |-> 0]

Init ==
  /\ clock = 1
  /\ slos = Slos
  /\ state = [s \in Slos |-> IF s \in Evaluated THEN NotBurning ELSE None]
  /\ log = [s \in Slos |-> <<>>]
  /\ pc = [e \in Evaluators |-> "idle"]
  /\ now = [e \in Evaluators |-> 0]
  /\ todo = [e \in Evaluators |-> {}]
  /\ tx = [e \in Evaluators |-> None]

-----------------------------------------------------------------------------
(* Classification.                                                         *)

\* burnRate(c, Target) >= rate, with both sides multiplied by the budget.
BurnsAt(c, rate) == 10 * (Target - c) >= rate * (Scale - Target)

ClassifySeverity(fast, slow) ==
  IF BurnsAt(fast, FastThreshold) THEN "fast"
  ELSE IF BurnsAt(slow, SlowThreshold) THEN "slow"
  ELSE "none"

\* Mutant of CurrentCompliance: always that of the slow window.
SlowCompliance(fast, slow) == slow

\* The window an evaluation is reported with.
CurrentCompliance(fast, slow) ==
  IF ClassifySeverity(fast, slow) = "fast" THEN fast ELSE slow

\* The compliance lies below the target by a whole error budget.
IsBreached(c) == c <= Target - (Scale - Target)

-----------------------------------------------------------------------------
(* Decisions.                                                              *)

Burning(row) == row # None /\ row.severity # "none"
Breached(row) == row # None /\ row.isBreached

\* Mutant of Due: a change of severity waits for the interval.
DueByTime(row, severity, at) ==
  row.lastContinuedAt = 0 \/ at - row.lastContinuedAt >= ContinueInterval

\* A burn that goes on is announced when its severity changes or the last
\* announcement is old enough.
Due(row, severity, at) ==
  \/ row.severity # severity
  \/ row.lastContinuedAt = 0
  \/ at - row.lastContinuedAt >= ContinueInterval

DecideAction(row, severity, at) ==
  CASE severity # "none" /\ ~Burning(row) -> "burn_started"
    [] severity = "none" /\ Burning(row) -> "burn_resolved"
    [] severity # "none" /\ Burning(row) /\ Due(row, severity, at)
         -> "burn_continued"
    [] OTHER -> "nothing"

Action(e) == DecideAction(tx[e].prev, tx[e].severity, now[e])

BreachEvent(e) ==
  IF tx[e].isBreached THEN "error_budget_exhausted" ELSE "error_budget_recovered"

\* Mutants of NextState: the last announcement is not recorded, or is recorded
\* as the time the next one is due.
NextStateForgets(e) ==
  [ severity |-> tx[e].severity,
    isBreached |-> tx[e].isBreached,
    lastContinuedAt |-> IF tx[e].prev = None THEN 0
                        ELSE tx[e].prev.lastContinuedAt ]
NextStateDue(e) ==
  [ severity |-> tx[e].severity,
    isBreached |-> tx[e].isBreached,
    lastContinuedAt |-> now[e] + ContinueInterval ]

\* The row written back.
NextState(e) ==
  [ severity |-> tx[e].severity,
    isBreached |-> tx[e].isBreached,
    lastContinuedAt |-> CASE Action(e) = "burn_continued" -> now[e]
                          [] tx[e].prev = None -> 0
                          [] OTHER -> tx[e].prev.lastContinuedAt ]

-----------------------------------------------------------------------------
(* What Postgres makes of concurrent transactions.                         *)

\* e holds the row lock of slo_burn_state: it found the row, or has written it.
Locks(e, s) ==
  /\ tx[e] # None
  /\ tx[e].slo = s
  /\ tx[e].prev # None \/ pc[e] = "upserted"

LockedByAnother(e, s) == \E f \in Evaluators \ {e} : Locks(f, s)

\* idempotency_key, without the SLO.
Key(row) == <<row.type, row.severity, row.at \div Minute>>

Committed(s, row) == \E i \in DOMAIN log[s] : Key(log[s][i]) = Key(row)

\* Another transaction has inserted the same key and not ended: an insert waits.
Pending(e, s, row) ==
  \E f \in Evaluators \ {e} :
    /\ tx[f] # None
    /\ tx[f].slo = s
    /\ \E i \in DOMAIN tx[f].rows : Key(tx[f].rows[i]) = Key(row)

-----------------------------------------------------------------------------
(* EvaluateOnce.                                                           *)

Tick ==
  /\ clock < MaxClock
  /\ clock' = clock + 1
  /\ UNCHANGED <<tables, pc, now, todo, tx>>

\* The ticker fires at most once per tick, and is dropped during a pass.
StartPass(e) ==
  /\ pc[e] = "idle"
  /\ now[e] < clock
  /\ pc' = [pc EXCEPT ![e] = "pass"]
  /\ now' = [now EXCEPT ![e] = clock]
  /\ todo' = [todo EXCEPT ![e] = slos]
  /\ UNCHANGED <<clock, tables, tx>>

\* The definition cannot be evaluated, or a query fails.
Skip(e) ==
  /\ pc[e] = "pass"
  /\ \E s \in todo[e] : todo' = [todo EXCEPT ![e] = @ \ {s}]
  /\ UNCHANGED <<clock, tables, pc, now, tx>>

EndPass(e) ==
  /\ pc[e] = "pass"
  /\ todo[e] = {}
  /\ pc' = [pc EXCEPT ![e] = "idle"]
  /\ UNCHANGED <<clock, tables, now, todo, tx>>

-----------------------------------------------------------------------------
(* persistEvaluation.                                                      *)

\* Mutant of CanRead: SELECT without FOR UPDATE.
CanReadLocked(e, s) == TRUE

\* FOR UPDATE waits for the row's lock; a row another transaction has inserted
\* and not committed is not there yet.
CanRead(e, s) == state[s] # None => ~LockedByAnother(e, s)

\* The measured compliances are classified, the transaction begins and reads
\* the state.  Where there is no row, FOR UPDATE locks nothing.
Begin(e, s, fast, slow) ==
  /\ pc[e] = "pass"
  /\ s \in todo[e]
  /\ CanRead(e, s)
  /\ todo' = [todo EXCEPT ![e] = @ \ {s}]
  /\ tx' = [tx EXCEPT ![e] =
       [ slo |-> s,
         severity |-> ClassifySeverity(fast, slow),
         isBreached |-> IsBreached(CurrentCompliance(fast, slow)),
         prev |-> state[s],
         rows |-> <<>> ]]
  /\ pc' = [pc EXCEPT ![e] = "read"]
  /\ UNCHANGED <<clock, tables, now>>

Rollback(e) ==
  /\ tx' = [tx EXCEPT ![e] = None]
  /\ pc' = [pc EXCEPT ![e] = "pass"]
  /\ UNCHANGED <<clock, tables, now, todo>>

\* EnqueueOutbox inside the transaction: a key that is already committed is an
\* error, and the whole evaluation is rolled back.
EnqueueOutbox(e, type, then) ==
  LET row == [type |-> type, severity |-> tx[e].severity, at |-> now[e]]
  IN  /\ ~Pending(e, tx[e].slo, row)
      /\ \/ /\ Committed(tx[e].slo, row)
            /\ Rollback(e)
         \/ /\ ~Committed(tx[e].slo, row)
            /\ tx' = [tx EXCEPT ![e].rows = Append(@, row)]
            /\ pc' = [pc EXCEPT ![e] = then]
            /\ UNCHANGED <<clock, tables, now, todo>>

NoEvent(e, then) ==
  /\ pc' = [pc EXCEPT ![e] = then]
  /\ UNCHANGED <<clock, tables, now, todo, tx>>

EnqueueBurnEvent(e) ==
  /\ pc[e] = "read"
  /\ IF Action(e) = "nothing"
     THEN NoEvent(e, "burn_enqueued")
     ELSE EnqueueOutbox(e, Action(e), "burn_enqueued")

EnqueueBreachEvent(e) ==
  /\ pc[e] = "burn_enqueued"
  /\ IF Breached(tx[e].prev) = tx[e].isBreached
     THEN NoEvent(e, "breach_enqueued")
     ELSE EnqueueOutbox(e, BreachEvent(e), "breach_enqueued")

\* Mutant of SloMissing: no foreign key.
SloMissingNever(s) == FALSE

\* The foreign key of an inserted row; an updated one needs no check.
SloMissing(s) == state[s] = None /\ s \notin slos

\* INSERT ... ON CONFLICT DO UPDATE: waits for a transaction that has the row
\* locked or inserted it, then inserts or overwrites.
UpsertBurnState(e) ==
  /\ pc[e] = "breach_enqueued"
  /\ ~LockedByAnother(e, tx[e].slo)
  /\ \/ /\ SloMissing(tx[e].slo)
        /\ Rollback(e)
     \/ /\ ~SloMissing(tx[e].slo)
        /\ pc' = [pc EXCEPT ![e] = "upserted"]
        /\ UNCHANGED <<clock, tables, now, todo, tx>>

Commit(e) ==
  /\ pc[e] = "upserted"
  /\ state' = [state EXCEPT ![tx[e].slo] = NextState(e)]
  /\ log' = [log EXCEPT ![tx[e].slo] = @ \o tx[e].rows]
  /\ tx' = [tx EXCEPT ![e] = None]
  /\ pc' = [pc EXCEPT ![e] = "pass"]
  /\ UNCHANGED <<clock, slos, now, todo>>

\* Any statement may fail, as the victim of a deadlock among others.
Fail(e) == tx[e] # None /\ Rollback(e)

\* The process is killed, or ends because it runs with --once.
Stop(e) ==
  /\ pc[e] # "idle"
  /\ pc' = [pc EXCEPT ![e] = "idle"]
  /\ todo' = [todo EXCEPT ![e] = {}]
  /\ tx' = [tx EXCEPT ![e] = None]
  /\ UNCHANGED <<clock, tables, now>>

\* The API deletes an SLO.  The cascade to slo_burn_state waits for the row
\* lock, and the deletion of the SLO for an insert that refers to it.
DeleteSLO(s) ==
  /\ s \in slos
  /\ \A e \in Evaluators : ~Locks(e, s)
  /\ slos' = slos \ {s}
  /\ state' = [state EXCEPT ![s] = None]
  /\ UNCHANGED <<clock, log, pc, now, todo, tx>>

-----------------------------------------------------------------------------

Next ==
  \/ Tick
  \/ \E s \in Slos : DeleteSLO(s)
  \/ \E e \in Evaluators :
       \/ StartPass(e)
       \/ Skip(e)
       \/ EndPass(e)
       \/ \E s \in Slos, fast, slow \in Compliances : Begin(e, s, fast, slow)
       \/ EnqueueBurnEvent(e)
       \/ EnqueueBreachEvent(e)
       \/ UpsertBurnState(e)
       \/ Commit(e)
       \/ Fail(e)
       \/ Stop(e)

Spec == Init /\ [][Next]_vars

-----------------------------------------------------------------------------
(* Properties.                                                             *)

BurnEvents   == {"burn_started", "burn_continued", "burn_resolved"}
BreachEvents == {"error_budget_exhausted", "error_budget_recovered"}

\* The i-th committed event of s is the last one whose type is one of types.
IsLast(s, i, types) ==
  /\ log[s][i].type \in types
  /\ \A j \in DOMAIN log[s] : j > i => log[s][j].type \notin types

LastIs(s, type, types) ==
  \E i \in DOMAIN log[s] : IsLast(s, i, types) /\ log[s][i].type = type

\* What the outbox has announced is what slo_burn_state says: an SLO is
\* burning exactly when its last transition is burn_started, and breached
\* exactly when the last breach event is error_budget_exhausted
\* (docs/slo-control-plane.md:17, "atomically with slo_burn_state").
LogMatchesState ==
  \A s \in slos :
    /\ Burning(state[s]) <=>
         LastIs(s, "burn_started", {"burn_started", "burn_resolved"})
    /\ Breached(state[s]) <=> LastIs(s, "error_budget_exhausted", BreachEvents)

\* "Severity transitions while already burning should be visible immediately"
\* (logic.go:37): the last burn event of a burning SLO has the severity
\* slo_burn_state has.
SeverityIsAnnounced ==
  \A s \in slos : Burning(state[s]) =>
    \E i \in DOMAIN log[s] : /\ IsLast(s, i, BurnEvents)
                             /\ log[s][i].severity = state[s].severity

\* Two burn_continued of one severity, no other burn event between them, are
\* at least ContinueInterval apart, whichever evaluators sent them and however
\* old the time of their pass was.
ContinuesAreSpaced ==
  \A s \in Slos : \A i, j \in DOMAIN log[s] :
    /\ i < j
    /\ log[s][i].type = "burn_continued" /\ log[s][j].type = "burn_continued"
    /\ log[s][i].severity = log[s][j].severity
    /\ \A k \in (i + 1)..(j - 1) : log[s][k].type \notin BurnEvents
    => log[s][j].at - log[s][i].at >= ContinueInterval

\* No event of an SLO is committed once the SLO is deleted, and none of an
\* evaluation that fails.
NothingAfterDelete ==
  [][\A s \in Slos : s \notin slos => log'[s] = log[s]]_vars

\* With thresholds of one or more, whatever burns has also been announced as
\* an exhausted budget, because both are judged on the same window.
BurningIsBreached ==
  \A s \in Slos : Burning(state[s]) => Breached(state[s])
=============================================================================
