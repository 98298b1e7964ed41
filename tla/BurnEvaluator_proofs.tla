------------------------ MODULE BurnEvaluator_proofs ------------------------
(***************************************************************************)
(* Proofs about BurnEvaluator, for every set of SLOs and evaluators, every *)
(* target and threshold, every interval and every bound on the clock.      *)
(***************************************************************************)
EXTENDS BurnEvaluator, TLAPS, SequenceTheorems

(* The inductive invariant.                                                *)

Open == {"read", "burn_enqueued", "breach_enqueued", "upserted"}

\* A transaction is open exactly inside persistEvaluation, and a pass that has
\* begun has a time.
ControlInv ==
  \A e \in Evaluators :
    /\ pc[e] \in Open <=> tx[e] # None
    /\ pc[e] # "idle" => now[e] \in 1..MaxClock

\* The foreign key of slo_burn_state, for the rows it has and for the row a
\* transaction has written.
ForeignKeyInv ==
  /\ \A s \in Slos : state[s] # None => s \in slos
  /\ \A e \in Evaluators : pc[e] = "upserted" => tx[e].slo \in slos

IInv == TypeOK /\ ControlInv /\ ForeignKeyInv

-----------------------------------------------------------------------------
(* Type correctness.                                                       *)

\* What an evaluator in persistEvaluation has in hand.
LEMMA OpenTx ==
  ASSUME TypeOK, ControlInv, NEW e \in Evaluators, pc[e] \in Open
  PROVE  /\ tx[e] \in Tx /\ tx[e] # None
         /\ tx[e].slo \in Slos
         /\ tx[e].severity \in Severity
         /\ tx[e].isBreached \in BOOLEAN
         /\ tx[e].prev \in BurnState \cup {None}
         /\ tx[e].rows \in Seq(Event)
         /\ now[e] \in 1..MaxClock
<1>1. tx[e] \in Tx /\ tx[e] # None /\ now[e] \in 1..MaxClock
  BY DEF TypeOK, ControlInv, Open
<1> QED
  BY <1>1 DEF Tx

LEMMA ActionType ==
  ASSUME NEW e \in Evaluators
  PROVE  /\ Action(e) \in {"nothing", "burn_started", "burn_resolved",
                           "burn_continued"}
         /\ Action(e) # "nothing" => Action(e) \in EventType
         /\ BreachEvent(e) \in EventType
BY DEF Action, DecideAction, BreachEvent, EventType

\* The row written back is one of slo_burn_state.
LEMMA NextStateType ==
  ASSUME TypeOK, ControlInv, NEW e \in Evaluators, pc[e] \in Open
  PROVE  NextState(e) \in BurnState /\ NextState(e) # None
<1>1. /\ tx[e].severity \in Severity /\ tx[e].isBreached \in BOOLEAN
      /\ tx[e].prev \in BurnState \cup {None} /\ now[e] \in 1..MaxClock
  BY OpenTx
<1>2. tx[e].prev # None => tx[e].prev.lastContinuedAt \in 0..MaxClock
  BY <1>1 DEF BurnState
<1> DEFINE at == CASE Action(e) = "burn_continued" -> now[e]
                   [] tx[e].prev = None -> 0
                   [] OTHER -> tx[e].prev.lastContinuedAt
<1>3. at \in 0..MaxClock
  BY <1>1, <1>2, TimeAssumption
<1>4. NextState(e) = [severity |-> tx[e].severity,
                      isBreached |-> tx[e].isBreached, lastContinuedAt |-> at]
  BY DEF NextState
<1>5. NextState(e) \in BurnState
  BY <1>1, <1>3, <1>4 DEF BurnState
<1> QED
  BY <1>5, NoneAssumption

\* Rollback and Fail end the transaction and change nothing else.
LEMMA RollbackType ==
  ASSUME IInv, NEW e \in Evaluators, pc[e] \in Open, Rollback(e)
  PROVE  IInv'
BY NoneAssumption
DEF IInv, TypeOK, ControlInv, ForeignKeyInv, Rollback, Open, tables

\* An insert of an event into the outbox, with whatever type.
LEMMA EnqueueType ==
  ASSUME IInv, NEW e \in Evaluators, NEW type \in EventType,
         NEW then \in {"burn_enqueued", "breach_enqueued"},
         pc[e] \in Open, EnqueueOutbox(e, type, then)
  PROVE  IInv'
<1> DEFINE row == [type |-> type, severity |-> tx[e].severity, at |-> now[e]]
<1>1. CASE Rollback(e)
  BY <1>1, RollbackType
<1>2. CASE /\ tx' = [tx EXCEPT ![e].rows = Append(@, row)]
           /\ pc' = [pc EXCEPT ![e] = then]
           /\ UNCHANGED <<clock, tables, now, todo>>
  <2>1. /\ tx[e] \in Tx /\ tx[e] # None /\ tx[e].rows \in Seq(Event)
        /\ row \in Event
    BY OpenTx DEF IInv, Event
  <2>2. tx' = [tx EXCEPT ![e] = [tx[e] EXCEPT !.rows = Append(@, row)]]
    BY <1>2
  <2>3. [tx[e] EXCEPT !.rows = Append(@, row)] \in Tx
    <3>1. Append(tx[e].rows, row) \in Seq(Event)
      BY <2>1
    <3> QED
      BY <2>1, <3>1 DEF Tx
  <2>4. tx'[e] # None /\ tx' \in [Evaluators -> Tx \cup {None}]
    BY <2>2, <2>3, NoneAssumption DEF IInv, TypeOK
  <2> QED
    BY <1>2, <2>2, <2>4
    DEF IInv, TypeOK, ControlInv, ForeignKeyInv, Open, tables
<1> QED
  BY <1>1, <1>2 DEF EnqueueOutbox

LEMMA NoEventType ==
  ASSUME IInv, NEW e \in Evaluators, pc[e] \in Open,
         NEW then \in {"burn_enqueued", "breach_enqueued"}, NoEvent(e, then)
  PROVE  IInv'
BY DEF IInv, TypeOK, ControlInv, ForeignKeyInv, Open, NoEvent, tables

LEMMA TypeInit == Init => TypeOK /\ NotBurning \in BurnState
<1> SUFFICES ASSUME Init PROVE TypeOK /\ NotBurning \in BurnState
  OBVIOUS
<1>1. NotBurning \in BurnState /\ 1 \in 1..MaxClock
  BY TimeAssumption DEF NotBurning, BurnState, Severity
<1>2. state \in [Slos -> BurnState \cup {None}]
  BY <1>1 DEF Init
<1>3. log \in [Slos -> Seq(Event)]
  BY DEF Init
<1> QED
  BY <1>1, <1>2, <1>3, TimeAssumption DEF Init, TypeOK

LEMMA IInvInit == Init => IInv
<1> SUFFICES ASSUME Init PROVE IInv
  OBVIOUS
<1>1. ControlInv
  BY DEF Init, ControlInv, Open
<1>2. ForeignKeyInv
  BY DEF Init, ForeignKeyInv
<1> QED
  BY <1>1, <1>2, TypeInit DEF IInv

LEMMA IInvStep ==
  ASSUME IInv, [Next]_vars
  PROVE  IInv'
<1> USE DEF IInv, TypeOK, ControlInv, ForeignKeyInv, Open, tables
<1>1. CASE Tick
  BY <1>1, TimeAssumption DEF Tick
<1>2. ASSUME NEW s \in Slos, DeleteSLO(s) PROVE IInv'
  <2>1. \A e \in Evaluators : pc[e] = "upserted" => tx[e].slo # s
    BY <1>2 DEF DeleteSLO, Locks
  <2> QED
    BY <1>2, <2>1 DEF DeleteSLO
<1>3. ASSUME NEW e \in Evaluators, StartPass(e) PROVE IInv'
  BY <1>3 DEF StartPass
<1>4. ASSUME NEW e \in Evaluators, Skip(e) \/ EndPass(e) PROVE IInv'
  BY <1>4 DEF Skip, EndPass
<1>5. ASSUME NEW e \in Evaluators, NEW s \in Slos,
             NEW fast \in Compliances, NEW slow \in Compliances,
             Begin(e, s, fast, slow)
      PROVE  IInv'
  <2> DEFINE new == [ slo |-> s,
                      severity |-> ClassifySeverity(fast, slow),
                      isBreached |-> IsBreached(CurrentCompliance(fast, slow)),
                      prev |-> state[s],
                      rows |-> <<>> ]
  <2>1. ClassifySeverity(fast, slow) \in Severity
    BY DEF ClassifySeverity, Severity
  <2>2. IsBreached(CurrentCompliance(fast, slow)) \in BOOLEAN
    BY DEF IsBreached
  <2>3. new \in Tx /\ new # None
    <3>1. \A severity \in Severity, isBreached \in BOOLEAN,
             prev \in BurnState \cup {None} :
            [ slo |-> s, severity |-> severity, isBreached |-> isBreached,
              prev |-> prev, rows |-> <<>> ] \in Tx
      BY DEF Tx
    <3>2. state[s] \in BurnState \cup {None}
      OBVIOUS
    <3> HIDE DEF IInv, TypeOK, ControlInv, ForeignKeyInv
    <3>3. new \in Tx
      BY <2>1, <2>2, <3>1, <3>2, Zenon
    <3> QED
      BY <3>3, NoneAssumption
  <2>4. tx' = [tx EXCEPT ![e] = new]
    BY <1>5 DEF Begin
  <2> HIDE DEF new
  <2>5. tx' \in [Evaluators -> Tx \cup {None}] /\ tx'[e] # None
    BY <2>3, <2>4
  <2>6. /\ pc[e] = "pass" /\ pc' = [pc EXCEPT ![e] = "read"]
        /\ todo' \in [Evaluators -> SUBSET Slos]
        /\ UNCHANGED <<clock, tables, now>>
    BY <1>5 DEF Begin
  <2>7. TypeOK'
    BY <2>5, <2>6
  <2>8. ControlInv'
    BY <2>4, <2>5, <2>6
  <2>9. ForeignKeyInv'
    BY <2>4, <2>6
  <2> QED
    BY <2>7, <2>8, <2>9
<1>6. ASSUME NEW e \in Evaluators, EnqueueBurnEvent(e) PROVE IInv'
  BY <1>6, EnqueueType, NoEventType, ActionType DEF EnqueueBurnEvent
<1>7. ASSUME NEW e \in Evaluators, EnqueueBreachEvent(e) PROVE IInv'
  BY <1>7, EnqueueType, NoEventType, ActionType DEF EnqueueBreachEvent
<1>8. ASSUME NEW e \in Evaluators, UpsertBurnState(e) PROVE IInv'
  <2>1. tx[e].slo \in Slos
    BY <1>8, OpenTx DEF UpsertBurnState
  <2> QED
    BY <1>8, <2>1, RollbackType DEF UpsertBurnState, SloMissing
<1>9. ASSUME NEW e \in Evaluators, Commit(e) PROVE IInv'
  <2>1. tx[e].slo \in Slos /\ tx[e].slo \in slos /\ tx[e].rows \in Seq(Event)
    BY <1>9, OpenTx DEF Commit
  <2>2. NextState(e) \in BurnState
    BY <1>9, NextStateType DEF Commit
  <2>3. log[tx[e].slo] \o tx[e].rows \in Seq(Event)
    BY <2>1
  <2> QED
    BY <1>9, <2>1, <2>2, <2>3, NoneAssumption DEF Commit
<1>10. ASSUME NEW e \in Evaluators, Fail(e) PROVE IInv'
  BY <1>10, RollbackType DEF Fail
<1>11. ASSUME NEW e \in Evaluators, Stop(e) PROVE IInv'
  BY <1>11 DEF Stop
<1>12. CASE UNCHANGED vars
  BY <1>12 DEF vars
<1> QED
  BY <1>1, <1>2, <1>3, <1>4, <1>5, <1>6, <1>7, <1>8, <1>9, <1>10, <1>11, <1>12
  DEF Next

THEOREM Invariance == Spec => []IInv
<1> QED
  BY IInvInit, IInvStep, PTL DEF Spec

\* Every variable keeps its type: in particular every row of slo_burn_state has
\* a time of the bounded clock and every committed event one of a pass.
THEOREM TypeCorrect == Spec => []TypeOK
<1>1. IInv => TypeOK
  BY DEF IInv
<1> QED
  BY <1>1, Invariance, PTL

\* No event of a deleted SLO is committed: the insert of its state fails on the
\* foreign key, and an update finds the deletion waiting for its lock.
THEOREM Silence == Spec => NothingAfterDelete
<1>1. ASSUME IInv, [Next]_vars,
             NEW s \in Slos, s \notin slos
      PROVE  log'[s] = log[s]
  <2>1. ASSUME NEW e \in Evaluators, Commit(e) PROVE log'[s] = log[s]
    <3>1. tx[e].slo \in slos /\ tx[e].slo \in Slos
      BY <1>1, <2>1, OpenTx DEF IInv, ForeignKeyInv, Commit, Open
    <3> QED
      BY <1>1, <2>1, <3>1 DEF IInv, TypeOK, Commit
  <2> QED
    BY <1>1, <2>1
    DEF Next, vars, tables, Tick, DeleteSLO, StartPass, Skip, EndPass, Begin,
        EnqueueBurnEvent, EnqueueBreachEvent, EnqueueOutbox, NoEvent,
        UpsertBurnState, Fail, Stop, Rollback
<1>2. IInv /\ [Next]_vars
        => [\A s \in Slos : s \notin slos => log'[s] = log[s]]_vars
  BY <1>1
<1> QED
  BY <1>2, Invariance, PTL DEF Spec, NothingAfterDelete

-----------------------------------------------------------------------------
(* A burn is a breach.                                                     *)

\* Whatever is classified as a burn has lost more than the budget.
LEMMA BurnLosesBudget ==
  ASSUME FastThreshold >= 10, SlowThreshold >= 10,
         NEW fast \in Compliances, NEW slow \in Compliances,
         ClassifySeverity(fast, slow) # "none"
  PROVE  IsBreached(CurrentCompliance(fast, slow))
<1> DEFINE budget == Scale - Target
<1>1. /\ budget \in Nat /\ Target \in Int /\ fast \in Int /\ slow \in Int
      /\ FastThreshold \in Nat /\ SlowThreshold \in Nat
  BY RateAssumption
<1>2. ASSUME NEW c \in Int, NEW rate \in Nat, rate >= 10, BurnsAt(c, rate)
      PROVE  IsBreached(c)
  <2>1. PICK k \in Nat : rate = 10 + k
    <3>1. rate - 10 \in Nat /\ rate = 10 + (rate - 10)
      BY <1>2
    <3> QED
      BY <3>1
  <2>2. k * budget \in Nat
    BY <1>1, <2>1
  <2>3. rate * budget = 10 * budget + k * budget
    BY <1>1, <2>1
  <2>4. 10 * (Target - c) >= 10 * budget
    BY <1>1, <1>2, <2>2, <2>3 DEF BurnsAt
  <2> QED
    BY <1>1, <2>4 DEF IsBreached
<1>3. CASE ClassifySeverity(fast, slow) = "fast"
  BY <1>1, <1>2, <1>3 DEF ClassifySeverity, CurrentCompliance
<1>4. CASE ClassifySeverity(fast, slow) = "slow"
  BY <1>1, <1>2, <1>4 DEF ClassifySeverity, CurrentCompliance
<1> QED
  BY <1>3, <1>4 DEF ClassifySeverity

\* The same of what a transaction is about to write and of what is written.
BreachInv ==
  /\ BurningIsBreached
  /\ \A e \in Evaluators :
       pc[e] \in Open /\ tx[e].severity # "none" => tx[e].isBreached

\* What an open transaction is about never changes.
Keeps(e) ==
  /\ tx'[e].slo = tx[e].slo
  /\ tx'[e].severity = tx[e].severity
  /\ tx'[e].isBreached = tx[e].isBreached
  /\ tx'[e].prev = tx[e].prev

\* Every step outside of Begin keeps or closes each open transaction, and
\* opens none.
LEMMA OpenStep ==
  ASSUME IInv, [Next]_vars,
         NEW e \in Evaluators, pc'[e] \in Open,
         ~ \E s \in Slos, fast, slow \in Compliances : Begin(e, s, fast, slow)
  PROVE  pc[e] \in Open /\ Keeps(e) /\ now'[e] = now[e]
<1> USE DEF IInv, TypeOK, Keeps, Open, tables
<1>1. ASSUME NEW f \in Evaluators,
             \/ StartPass(f) \/ Skip(f) \/ EndPass(f) \/ Commit(f) \/ Fail(f)
             \/ Stop(f)
      PROVE  pc[e] \in Open /\ Keeps(e) /\ now'[e] = now[e]
  BY <1>1 DEF StartPass, Skip, EndPass, Commit, Fail, Rollback, Stop
<1>2. ASSUME NEW f \in Evaluators, NEW type, NEW then, pc[f] \in Open,
             EnqueueOutbox(f, type, then)
      PROVE  pc[e] \in Open /\ Keeps(e) /\ now'[e] = now[e]
  BY <1>2, OpenTx DEF EnqueueOutbox, Rollback, Tx
<1>3. ASSUME NEW f \in Evaluators, NEW then, pc[f] \in Open, NoEvent(f, then)
      PROVE  pc[e] \in Open /\ Keeps(e) /\ now'[e] = now[e]
  BY <1>3 DEF NoEvent
<1>4. ASSUME NEW f \in Evaluators, UpsertBurnState(f)
      PROVE  pc[e] \in Open /\ Keeps(e) /\ now'[e] = now[e]
  BY <1>4 DEF UpsertBurnState, Rollback
<1>5. ASSUME NEW f \in Evaluators, NEW s \in Slos, NEW fast \in Compliances,
             NEW slow \in Compliances, Begin(f, s, fast, slow)
      PROVE  pc[e] \in Open /\ Keeps(e) /\ now'[e] = now[e]
  BY <1>5 DEF Begin
<1>6. ASSUME NEW s \in Slos, DeleteSLO(s)
      PROVE  pc[e] \in Open /\ Keeps(e) /\ now'[e] = now[e]
  BY <1>6 DEF DeleteSLO
<1>7. CASE Tick \/ UNCHANGED vars
  BY <1>7 DEF Tick, vars
<1> QED
  BY <1>1, <1>2, <1>3, <1>4, <1>5, <1>6, <1>7
  DEF Next, EnqueueBurnEvent, EnqueueBreachEvent

\* slo_burn_state changes only by a deletion and a commit.
LEMMA StateStep ==
  ASSUME [Next]_vars,
         ~ \E s \in Slos : DeleteSLO(s),
         ~ \E e \in Evaluators : Commit(e)
  PROVE  UNCHANGED tables
BY DEF Next, vars, tables, Tick, StartPass, Skip, EndPass, Begin,
       EnqueueBurnEvent, EnqueueBreachEvent, EnqueueOutbox, NoEvent,
       UpsertBurnState, Fail, Stop, Rollback

LEMMA BreachStep ==
  ASSUME FastThreshold >= 10, SlowThreshold >= 10,
         IInv, IInv', BreachInv, [Next]_vars
  PROVE  BreachInv'
<1>1. ASSUME NEW e \in Evaluators, pc'[e] \in Open, tx'[e].severity # "none"
      PROVE  tx'[e].isBreached
  <2>1. ASSUME NEW s \in Slos, NEW fast \in Compliances,
               NEW slow \in Compliances, Begin(e, s, fast, slow)
        PROVE  tx'[e].isBreached
    BY <1>1, <2>1, BurnLosesBudget DEF IInv, TypeOK, Begin
  <2> QED
    BY <1>1, <2>1, OpenStep DEF BreachInv, Keeps
<1>2. BurningIsBreached'
  <2>1. ASSUME NEW s \in Slos, DeleteSLO(s) PROVE BurningIsBreached'
    BY <2>1 DEF DeleteSLO, IInv, TypeOK, BreachInv, BurningIsBreached,
                Burning, Breached
  <2>2. ASSUME NEW e \in Evaluators, Commit(e) PROVE BurningIsBreached'
    <3>1. tx[e].severity # "none" => tx[e].isBreached
      BY <2>2 DEF BreachInv, Commit, Open
    <3>2. tx[e].slo \in Slos /\ NextState(e) # None
      BY <2>2, OpenTx, NextStateType DEF IInv, Commit, Open
    <3>3. /\ NextState(e).severity = tx[e].severity
          /\ NextState(e).isBreached = tx[e].isBreached
      BY DEF NextState
    <3>4. state' = [state EXCEPT ![tx[e].slo] = NextState(e)]
      BY <2>2 DEF Commit
    <3>5. \A s \in Slos : s # tx[e].slo => state'[s] = state[s]
      BY <3>2, <3>4 DEF IInv, TypeOK
    <3>6. state'[tx[e].slo] = NextState(e)
      BY <3>2, <3>4 DEF IInv, TypeOK
    <3> QED
      BY <3>1, <3>2, <3>3, <3>5, <3>6
      DEF BreachInv, BurningIsBreached, Burning, Breached
  <2> QED
    BY <2>1, <2>2, StateStep
    DEF BreachInv, BurningIsBreached, Burning, Breached, tables
<1> QED
  BY <1>1, <1>2 DEF BreachInv

\* With both thresholds at one or more, an SLO that burns is breached, so a
\* burn is never announced without its exhausted budget.
THEOREM BurnsAreBreaches ==
  ASSUME FastThreshold >= 10, SlowThreshold >= 10
  PROVE  Spec => []BurningIsBreached
<1>1. Init => BreachInv
  BY DEF Init, BreachInv, BurningIsBreached, Burning, Breached, NotBurning, Open
<1>2. IInv /\ IInv' /\ BreachInv /\ [Next]_vars => BreachInv'
  BY BreachStep
<1>3. BreachInv => BurningIsBreached
  BY DEF BreachInv
<1> QED
  BY <1>1, <1>2, <1>3, Invariance, PTL DEF Spec

-----------------------------------------------------------------------------
(* slo_burn_state and the announced events agree, when every SLO has been  *)
(* evaluated before, so that FOR UPDATE always finds a row to lock, or     *)
(* when there is one evaluator only.  evaluator_race shows that one of the *)
(* two is needed.                                                          *)

(* The row read FOR UPDATE.                                                *)

\* FOR UPDATE finds a row, or there is nobody to race with.
Serial == Evaluated = Slos \/ \A e, f \in Evaluators : e = f

\* A transaction has read the row that is still there, and nobody else has it.
RowInv ==
  /\ Evaluated = Slos => \A s \in slos : state[s] # None
  /\ \A e \in Evaluators : pc[e] \in Open => tx[e].prev = state[tx[e].slo]
  /\ \A e, f \in Evaluators :
       e # f /\ pc[e] \in Open /\ pc[f] \in Open /\ tx[e].slo = tx[f].slo
         => tx[e].prev = None

LEMMA RowInit == Init => RowInv
<1>1. Init => NotBurning # None
  BY TypeInit, NoneAssumption DEF TypeOK
<1> QED
  BY <1>1 DEF Init, RowInv, Open

LEMMA RowStep ==
  ASSUME Serial, IInv, IInv', RowInv, [Next]_vars
  PROVE  RowInv'
<1> USE DEF IInv, TypeOK, ControlInv, ForeignKeyInv, RowInv
<1>1. ASSUME NEW s \in Slos, DeleteSLO(s) PROVE RowInv'
  <2>1. \A e \in Evaluators :
          pc[e] \in Open => tx[e].slo # s \/ tx[e].prev = None
    BY <1>1, OpenTx DEF DeleteSLO, Locks, Open
  <2>2. \A r \in Slos : r # s => state'[r] = state[r]
    BY <1>1 DEF DeleteSLO
  <2>3. state'[s] = None /\ UNCHANGED <<tx, pc>> /\ slos' = slos \ {s}
    BY <1>1 DEF DeleteSLO
  <2>4. \A e \in Evaluators : pc[e] \in Open => tx[e].slo \in Slos
    BY OpenTx
  <2> QED
    BY <2>1, <2>2, <2>3, <2>4
<1>2. ASSUME NEW g \in Evaluators, Commit(g) PROVE RowInv'
  <2>1. /\ tx[g].slo \in Slos /\ tx[g].slo \in slos
        /\ Evaluated = Slos => tx[g].prev # None
        /\ NextState(g) # None
    BY <1>2, OpenTx, NextStateType DEF Commit, Open
  <2>2. \A e \in Evaluators : pc[e] \in Open => tx[e].slo \in Slos
    BY OpenTx
  <2>3. \A e \in Evaluators \ {g} : pc[e] \in Open => tx[e].slo # tx[g].slo
    BY <1>2, <2>1 DEF Commit, Open, Serial
  <2>4. /\ pc' = [pc EXCEPT ![g] = "pass"]
        /\ tx' = [tx EXCEPT ![g] = None]
        /\ state' = [state EXCEPT ![tx[g].slo] = NextState(g)]
        /\ UNCHANGED slos
    BY <1>2 DEF Commit
  <2>5. \A e \in Evaluators :
          pc'[e] \in Open => e # g /\ pc[e] \in Open /\ tx'[e] = tx[e]
    BY <2>4 DEF Open
  <2> QED
    BY <2>1, <2>2, <2>3, <2>4, <2>5
<1>3. ASSUME NEW g \in Evaluators, NEW s \in Slos, NEW fast \in Compliances,
             NEW slow \in Compliances, Begin(g, s, fast, slow)
      PROVE  RowInv'
  <2>1. /\ tx'[g].slo = s /\ tx'[g].prev = state[s]
        /\ \A e \in Evaluators \ {g} : tx'[e] = tx[e] /\ pc'[e] = pc[e]
        /\ UNCHANGED <<slos, state>>
    BY <1>3 DEF Begin, tables
  <2>2. \A e \in Evaluators \ {g} : pc[e] \in Open /\ tx[e].slo = s
                                      => state[s] = None
    BY <1>3 DEF Begin, CanRead, LockedByAnother, Locks
  <2>3. \A e \in Evaluators \ {g} :
          pc'[e] \in Open => pc[e] \in Open /\ tx'[e].prev = state[tx'[e].slo]
    BY <2>1
  <2>4. \A e \in Evaluators \ {g} :
          pc'[e] \in Open /\ tx'[e].slo = s => tx'[e].prev = None /\ state[s] = None
    BY <2>1, <2>2, <2>3
  <2>5. \A e \in Evaluators : pc'[e] \in Open => tx'[e].prev = state'[tx'[e].slo]
    BY <2>1, <2>3
  <2>6. \A e, f \in Evaluators :
          e # f /\ pc'[e] \in Open /\ pc'[f] \in Open /\ tx'[e].slo = tx'[f].slo
            => tx'[e].prev = None
    BY <2>1, <2>4
  <2> QED
    BY <2>1, <2>5, <2>6
<1>4. ASSUME ~ \E s \in Slos : DeleteSLO(s),
             ~ \E e \in Evaluators : Commit(e),
             ~ \E e \in Evaluators : \E s \in Slos, fast, slow \in Compliances :
                 Begin(e, s, fast, slow)
      PROVE  RowInv'
  <2>1. UNCHANGED <<slos, state>>
    BY <1>4, StateStep DEF tables
  <2>2. \A e \in Evaluators : pc'[e] \in Open => pc[e] \in Open /\ Keeps(e)
    BY <1>4, OpenStep
  <2> QED
    BY <2>1, <2>2 DEF Keeps
<1> QED
  BY <1>1, <1>2, <1>3, <1>4

-----------------------------------------------------------------------------
(* The events a transaction has inserted.                                  *)

BurnRow(e) ==
  [type |-> Action(e), severity |-> tx[e].severity, at |-> now[e]]
BreachRow(e) ==
  [type |-> BreachEvent(e), severity |-> tx[e].severity, at |-> now[e]]

Announces(e) == Action(e) # "nothing"
Crosses(e)   == Breached(tx[e].prev) # tx[e].isBreached

BurnRows(e)   == IF Announces(e) THEN <<BurnRow(e)>> ELSE <<>>
BothRows(e)   == IF Crosses(e) THEN Append(BurnRows(e), BreachRow(e))
                 ELSE BurnRows(e)

RowsInv ==
  \A e \in Evaluators :
    /\ pc[e] = "read" => tx[e].rows = <<>>
    /\ pc[e] = "burn_enqueued" => tx[e].rows = BurnRows(e)
    /\ pc[e] \in {"breach_enqueued", "upserted"} => tx[e].rows = BothRows(e)

\* What the rows are made of does not change while the transaction is open.
LEMMA SameRows ==
  ASSUME NEW e \in Evaluators, Keeps(e), now'[e] = now[e]
  PROVE  /\ Action(e)' = Action(e)
         /\ BurnRows(e)' = BurnRows(e)
         /\ BothRows(e)' = BothRows(e)
BY DEF Keeps, BurnRows, BothRows, BurnRow, BreachRow, Announces, Crosses,
       Action, BreachEvent

LEMMA RowsStep ==
  ASSUME IInv, RowsInv, [Next]_vars
  PROVE  RowsInv'
<1> USE DEF IInv, TypeOK, Open
<1> DEFINE Inv(e) ==
      /\ pc[e] = "read" => tx[e].rows = <<>>
      /\ pc[e] = "burn_enqueued" => tx[e].rows = BurnRows(e)
      /\ pc[e] \in {"breach_enqueued", "upserted"} => tx[e].rows = BothRows(e)
<1> SUFFICES ASSUME NEW e \in Evaluators, pc'[e] \in Open PROVE Inv(e)'
  BY DEF RowsInv
<1>1. ASSUME NEW s \in Slos, NEW fast \in Compliances, NEW slow \in Compliances,
             Begin(e, s, fast, slow)
      PROVE  Inv(e)'
  BY <1>1 DEF Begin
<1>2. ASSUME ~ \E s \in Slos, fast, slow \in Compliances :
                 Begin(e, s, fast, slow)
      PROVE  Inv(e)'
  <2>1. pc[e] \in Open /\ Keeps(e) /\ now'[e] = now[e]
    BY <1>2, OpenStep
  <2>2. /\ Inv(e)
        /\ BurnRows(e)' = BurnRows(e) /\ BothRows(e)' = BothRows(e)
    BY <2>1, SameRows DEF RowsInv
  <2>3. ASSUME EnqueueBurnEvent(e) PROVE Inv(e)'
    <3>1. CASE ~Announces(e)
      BY <2>2, <2>3, <3>1
      DEF EnqueueBurnEvent, NoEvent, Announces, BurnRows
    <3>2. CASE Announces(e)
      <4>1. /\ tx' = [tx EXCEPT ![e].rows = Append(@, BurnRow(e))]
            /\ pc' = [pc EXCEPT ![e] = "burn_enqueued"]
        BY <2>3, <3>2
        DEF EnqueueBurnEvent, EnqueueOutbox, Rollback, Announces, BurnRow
      <4>2. tx[e].rows = <<>> /\ tx[e] \in Tx
        BY <2>1, <2>2, <2>3, OpenTx DEF EnqueueBurnEvent
      <4>3. tx'[e].rows = Append(<<>>, BurnRow(e))
        BY <4>1, <4>2 DEF Tx
      <4>4. Append(<<>>, BurnRow(e)) = <<BurnRow(e)>>
        OBVIOUS
      <4> QED
        BY <2>2, <3>2, <4>1, <4>3, <4>4 DEF BurnRows
    <3> QED
      BY <3>1, <3>2
  <2>4. ASSUME EnqueueBreachEvent(e) PROVE Inv(e)'
    <3>1. CASE ~Crosses(e)
      BY <2>2, <2>4, <3>1
      DEF EnqueueBreachEvent, NoEvent, Crosses, BothRows
    <3>2. CASE Crosses(e)
      <4>1. /\ tx' = [tx EXCEPT ![e].rows = Append(@, BreachRow(e))]
            /\ pc' = [pc EXCEPT ![e] = "breach_enqueued"]
        BY <2>4, <3>2
        DEF EnqueueBreachEvent, EnqueueOutbox, Rollback, Crosses, BreachRow
      <4>2. tx'[e].rows = Append(BurnRows(e), BreachRow(e))
        BY <2>2, <2>4, <4>1, OpenTx DEF EnqueueBreachEvent, Tx
      <4> QED
        BY <2>2, <3>2, <4>1, <4>2 DEF BothRows
    <3> QED
      BY <3>1, <3>2
  <2>5. ASSUME UpsertBurnState(e) PROVE Inv(e)'
    BY <2>2, <2>5 DEF UpsertBurnState, Rollback
  <2>6. CASE tx'[e] = tx[e] /\ pc'[e] = pc[e]
    BY <2>2, <2>6
  <2>7. ASSUME NEW f \in Evaluators \ {e}, NEW type, NEW then,
               \/ EnqueueOutbox(f, type, then) \/ NoEvent(f, then)
               \/ UpsertBurnState(f)
        PROVE  tx'[e] = tx[e] /\ pc'[e] = pc[e]
    BY <2>7 DEF EnqueueOutbox, NoEvent, UpsertBurnState, Rollback
  <2>8. ASSUME NEW f \in Evaluators,
               \/ StartPass(f) \/ Skip(f) \/ EndPass(f) \/ Commit(f) \/ Fail(f)
               \/ Stop(f)
        PROVE  tx'[e] = tx[e] /\ pc'[e] = pc[e]
    BY <2>1, <2>8
    DEF StartPass, Skip, EndPass, Commit, Fail, Stop, Rollback
  <2>9. ASSUME NEW f \in Evaluators \ {e}, NEW s \in Slos,
               NEW fast \in Compliances, NEW slow \in Compliances,
               Begin(f, s, fast, slow)
        PROVE  tx'[e] = tx[e] /\ pc'[e] = pc[e]
    BY <2>9 DEF Begin
  <2>10. ASSUME Tick \/ (\E s \in Slos : DeleteSLO(s)) \/ UNCHANGED vars
         PROVE  tx'[e] = tx[e] /\ pc'[e] = pc[e]
    BY <2>10 DEF Tick, DeleteSLO, vars
  <2>11. ASSUME NEW f \in Evaluators, EnqueueBurnEvent(f) PROVE Inv(e)'
    BY <2>3, <2>6, <2>7, <2>11 DEF EnqueueBurnEvent
  <2>12. ASSUME NEW f \in Evaluators, EnqueueBreachEvent(f) PROVE Inv(e)'
    BY <2>4, <2>6, <2>7, <2>12 DEF EnqueueBreachEvent
  <2>13. ASSUME NEW f \in Evaluators, UpsertBurnState(f) PROVE Inv(e)'
    BY <2>5, <2>6, <2>7, <2>13
  <2> HIDE DEF Inv
  <2> QED
    BY <1>2, <2>6, <2>8, <2>9, <2>10, <2>11, <2>12, <2>13 DEF Next
<1> QED
  BY <1>1, <1>2

-----------------------------------------------------------------------------
(* What a sequence of events says, and what one more event makes of it.    *)

Transitions == {"burn_started", "burn_resolved"}

\* IsLast and LastIs of BurnEvaluator, of any sequence.
LastAt(q, i, types) ==
  /\ q[i].type \in types
  /\ \A j \in DOMAIN q : j > i => q[j].type \notin types
LastType(q, type, types) ==
  \E i \in DOMAIN q : LastAt(q, i, types) /\ q[i].type = type
LastSeverity(q, severity) ==
  \E i \in DOMAIN q : LastAt(q, i, BurnEvents) /\ q[i].severity = severity

\* A continuation that is the last burn event has this severity and time.
LastContinue(q, severity, at) ==
  \A i \in DOMAIN q :
    LastAt(q, i, BurnEvents) /\ q[i].type = "burn_continued"
      => q[i].severity = severity /\ q[i].at = at

Spaced(q) ==
  \A i, j \in DOMAIN q :
    /\ i < j
    /\ q[i].type = "burn_continued" /\ q[j].type = "burn_continued"
    /\ q[i].severity = q[j].severity
    /\ \A k \in (i + 1)..(j - 1) : q[k].type \notin BurnEvents
    => q[j].at - q[i].at >= ContinueInterval

LEMMA AppendFacts ==
  ASSUME NEW q \in Seq(Event), NEW r \in Event
  PROVE  /\ Append(q, r) \in Seq(Event)
         /\ DOMAIN q = 1..Len(q) /\ Len(q) \in Nat
         /\ DOMAIN Append(q, r) = 1..(Len(q) + 1)
         /\ \A i \in 1..Len(q) : Append(q, r)[i] = q[i]
         /\ Append(q, r)[Len(q) + 1] = r
OBVIOUS

LEMMA LastAtAppend ==
  ASSUME NEW q \in Seq(Event), NEW r \in Event, NEW types
  PROVE  /\ LastAt(Append(q, r), Len(q) + 1, types) <=> r.type \in types
         /\ \A i \in DOMAIN q :
              LastAt(Append(q, r), i, types)
                <=> r.type \notin types /\ LastAt(q, i, types)
<1> DEFINE n == Len(q)
<1> DEFINE a == Append(q, r)
<1>1. /\ DOMAIN q = 1..n /\ n \in Nat /\ DOMAIN a = 1..(n + 1)
      /\ \A i \in 1..n : a[i] = q[i]
      /\ a[n + 1] = r
  BY AppendFacts
<1> HIDE DEF n, a
<1>2. LastAt(a, n + 1, types) <=> r.type \in types
  BY <1>1 DEF LastAt
<1>3. ASSUME NEW i \in 1..n
      PROVE  LastAt(a, i, types) <=> r.type \notin types /\ LastAt(q, i, types)
  <2>1. n + 1 > i /\ n + 1 \in DOMAIN a
    BY <1>1
  <2>2. \A j \in DOMAIN a : j = n + 1 \/ j \in DOMAIN q
    BY <1>1
  <2>3. \A j \in DOMAIN q : j \in DOMAIN a /\ a[j] = q[j]
    BY <1>1
  <2> QED
    BY <1>1, <2>1, <2>2, <2>3 DEF LastAt
<1> QED
  BY <1>1, <1>2, <1>3 DEF n, a

\* An event of the types asked for decides what the last one is, any other
\* leaves it.
LEMMA LastTypeAppend ==
  ASSUME NEW q \in Seq(Event), NEW r \in Event, NEW type, NEW types
  PROVE  LastType(Append(q, r), type, types)
           <=> IF r.type \in types THEN r.type = type
               ELSE LastType(q, type, types)
BY AppendFacts, LastAtAppend DEF LastType

LEMMA LastSeverityAppend ==
  ASSUME NEW q \in Seq(Event), NEW r \in Event, NEW severity
  PROVE  LastSeverity(Append(q, r), severity)
           <=> IF r.type \in BurnEvents THEN r.severity = severity
               ELSE LastSeverity(q, severity)
BY AppendFacts, LastAtAppend DEF LastSeverity

LEMMA LastContinueAppend ==
  ASSUME NEW q \in Seq(Event), NEW r \in Event, NEW severity, NEW at
  PROVE  LastContinue(Append(q, r), severity, at)
           <=> IF r.type \in BurnEvents
               THEN r.type = "burn_continued" => r.severity = severity /\ r.at = at
               ELSE LastContinue(q, severity, at)
<1>1. DOMAIN Append(q, r) = DOMAIN q \cup {Len(q) + 1}
  BY AppendFacts
<1> QED
  BY <1>1, AppendFacts, LastAtAppend DEF LastContinue

LEMMA SpacedAppend ==
  ASSUME NEW q \in Seq(Event), NEW r \in Event, Spaced(q),
         ASSUME r.type = "burn_continued", NEW i \in DOMAIN q,
                LastAt(q, i, BurnEvents), q[i].type = "burn_continued",
                q[i].severity = r.severity
         PROVE  r.at - q[i].at >= ContinueInterval
  PROVE  Spaced(Append(q, r))
<1> DEFINE n == Len(q)
<1> DEFINE a == Append(q, r)
<1>1. /\ DOMAIN q = 1..n /\ n \in Nat /\ DOMAIN a = 1..(n + 1)
      /\ \A i \in 1..n : a[i] = q[i]
      /\ a[n + 1] = r
  BY AppendFacts
<1> HIDE DEF n, a
<1> SUFFICES ASSUME NEW i \in DOMAIN a, NEW j \in DOMAIN a, i < j,
                    a[i].type = "burn_continued", a[j].type = "burn_continued",
                    a[i].severity = a[j].severity,
                    \A k \in (i + 1)..(j - 1) : a[k].type \notin BurnEvents
             PROVE  a[j].at - a[i].at >= ContinueInterval
  BY DEF Spaced, a
<1>2. CASE j \in 1..n
  <2>1. \A k \in (i + 1)..(j - 1) : q[k].type \notin BurnEvents
    BY <1>1, <1>2
  <2> QED
    BY <1>1, <1>2, <2>1 DEF Spaced
<1>3. CASE j = n + 1
  <2>1. i \in DOMAIN q /\ a[i] = q[i] /\ a[j] = r
    BY <1>1, <1>3
  <2>2. \A k \in DOMAIN q : k > i => q[k].type \notin BurnEvents
    BY <1>1, <1>3
  <2>3. LastAt(q, i, BurnEvents)
    BY <2>1, <2>2 DEF LastAt, BurnEvents
  <2> QED
    BY <2>1, <2>3
<1> QED
  BY <1>1, <1>2, <1>3

-----------------------------------------------------------------------------
(* The agreement of a log and a row of slo_burn_state.                     *)

Agrees(q, row) ==
  /\ Burning(row) <=> LastType(q, "burn_started", Transitions)
  /\ Breached(row) <=> LastType(q, "error_budget_exhausted", BreachEvents)
  /\ Burning(row) => LastSeverity(q, row.severity)
  /\ LastContinue(q, row.severity, row.lastContinuedAt)

\* Without a row the SLO counts as one that does not burn.
RowOf(row) == IF row = None THEN NotBurning ELSE row

AgreeInv ==
  /\ \A s \in slos : Agrees(log[s], RowOf(state[s]))
  /\ \A s \in Slos : Spaced(log[s])

\* What a commit appends, one event at a time.
LEMMA AppendRows ==
  ASSUME IInv, RowsInv, NEW e \in Evaluators, pc[e] = "upserted"
  PROVE  LET q  == log[tx[e].slo]
             q1 == IF Announces(e) THEN Append(q, BurnRow(e)) ELSE q
             q2 == IF Crosses(e) THEN Append(q1, BreachRow(e)) ELSE q1
         IN  q \o tx[e].rows = q2
<1>1. log[tx[e].slo] \in Seq(Event) /\ tx[e].rows = BothRows(e)
  BY OpenTx DEF IInv, TypeOK, Open, RowsInv
<1> DEFINE q == log[tx[e].slo]
<1>2. q \o <<>> = q
  BY <1>1
<1>3. ASSUME NEW r \in Event
      PROVE  /\ q \o <<r>> = Append(q, r)
             /\ q \o Append(<<>>, r) = Append(q, r)
  BY <1>1, <1>3
<1>4. ASSUME NEW r1 \in Event, NEW r2 \in Event
      PROVE  q \o Append(<<r1>>, r2) = Append(Append(q, r1), r2)
  <2>1. /\ <<r1>> \in Seq(Event) /\ <<r2>> \in Seq(Event) /\ q \in Seq(Event)
        /\ Append(q, r1) \in Seq(Event)
    BY <1>1, <1>4
  <2>2. /\ Append(<<r1>>, r2) = <<r1>> \o <<r2>>
        /\ Append(Append(q, r1), r2) = (q \o <<r1>>) \o <<r2>>
    BY <1>3, <1>4, <2>1, AppendIsConcat
  <2>3. (q \o <<r1>>) \o <<r2>> = q \o (<<r1>> \o <<r2>>)
    BY <2>1, ConcatAssociative
  <2> QED
    BY <2>2, <2>3
<1>5. /\ Announces(e) => BurnRow(e) \in Event
      /\ BreachRow(e) \in Event
  BY OpenTx, ActionType DEF IInv, Open, BurnRow, BreachRow, Announces, Event
<1>6. CASE Announces(e) /\ Crosses(e)
  BY <1>1, <1>4, <1>5, <1>6, Zenon DEF BothRows, BurnRows
<1>7. CASE Announces(e) /\ ~Crosses(e)
  BY <1>1, <1>3, <1>5, <1>7, Zenon DEF BothRows, BurnRows
<1>8. CASE ~Announces(e) /\ Crosses(e)
  BY <1>1, <1>3, <1>5, <1>8, Zenon DEF BothRows, BurnRows
<1>9. CASE ~Announces(e) /\ ~Crosses(e)
  BY <1>1, <1>2, <1>9, Zenon DEF BothRows, BurnRows
<1> QED
  BY <1>6, <1>7, <1>8, <1>9

LEMMA CommitAgrees ==
  ASSUME IInv, RowsInv, NEW e \in Evaluators, pc[e] = "upserted",
         Agrees(log[tx[e].slo], RowOf(tx[e].prev)), Spaced(log[tx[e].slo])
  PROVE  /\ Agrees(log[tx[e].slo] \o tx[e].rows, NextState(e))
         /\ Spaced(log[tx[e].slo] \o tx[e].rows)
<1> DEFINE q    == log[tx[e].slo]
           q1   == IF Announces(e) THEN Append(q, BurnRow(e)) ELSE q
           q2   == IF Crosses(e) THEN Append(q1, BreachRow(e)) ELSE q1
           old  == RowOf(tx[e].prev)
           next == NextState(e)
<1>1. /\ q \in Seq(Event)
      /\ tx[e].severity \in Severity /\ tx[e].isBreached \in BOOLEAN
      /\ old \in BurnState /\ now[e] \in 1..MaxClock
  <2>1. NotBurning \in BurnState
    BY TimeAssumption DEF NotBurning, BurnState, Severity
  <2> QED
    BY <2>1, OpenTx DEF IInv, TypeOK, Open, RowOf
<1>2. /\ old.severity \in Severity /\ old.isBreached \in BOOLEAN
      /\ old.lastContinuedAt \in 0..MaxClock
  BY <1>1 DEF BurnState
<1>3. /\ next # None
      /\ next.severity = tx[e].severity /\ next.isBreached = tx[e].isBreached
      /\ Action(e) = "burn_continued" => next.lastContinuedAt = now[e]
      /\ Action(e) # "burn_continued" => next.lastContinuedAt = old.lastContinuedAt
  <2>1. next # None
    BY NextStateType DEF IInv, Open
  <2>2. /\ tx[e].prev = None => old.lastContinuedAt = 0
        /\ tx[e].prev # None => old.lastContinuedAt = tx[e].prev.lastContinuedAt
    BY DEF RowOf, NotBurning
  <2>3. /\ next.severity = tx[e].severity /\ next.isBreached = tx[e].isBreached
        /\ next.lastContinuedAt = CASE Action(e) = "burn_continued" -> now[e]
                                    [] tx[e].prev = None -> 0
                                    [] OTHER -> tx[e].prev.lastContinuedAt
    BY DEF NextState
  <2> HIDE DEF old, next
  <2>4. CASE Action(e) = "burn_continued"
    <3>1. tx[e].prev # None
      BY <2>4 DEF Action, DecideAction, Burning
    <3> QED
      BY <2>1, <2>3, <2>4, <3>1
  <2>5. CASE Action(e) # "burn_continued" /\ tx[e].prev = None
    BY <2>1, <2>2, <2>3, <2>5
  <2>6. CASE Action(e) # "burn_continued" /\ tx[e].prev # None
    BY <2>1, <2>2, <2>3, <2>6
  <2> QED
    BY <2>4, <2>5, <2>6
<1>4. Announces(e) => BurnRow(e) \in Event
  BY <1>1, ActionType DEF BurnRow, Event, Announces
<1>5. BreachRow(e) \in Event
  BY <1>1, ActionType DEF BreachRow, Event
<1>6. /\ Announces(e) =>
           /\ BurnRow(e).type = Action(e) /\ BurnRow(e).at = now[e]
           /\ BurnRow(e).severity = tx[e].severity
           /\ BurnRow(e).type \in BurnEvents \ BreachEvents
      /\ BreachRow(e).type = BreachEvent(e)
      /\ BreachRow(e).type \in BreachEvents \ BurnEvents
      /\ Transitions \subseteq BurnEvents
  BY ActionType
  DEF BurnRow, BreachRow, Announces, BreachEvent, BurnEvents, BreachEvents,
      Transitions
\* The decision, case by case.
<1>7. /\ Action(e) = "burn_started" => Burning(next) /\ ~Burning(old)
      /\ Action(e) = "burn_resolved" => ~Burning(next) /\ Burning(old)
      /\ Action(e) = "burn_continued" =>
           /\ Burning(next) /\ Burning(old)
           /\ Due(old, tx[e].severity, now[e])
      /\ ~Announces(e) => next.severity = old.severity
      /\ Action(e) \in {"nothing", "burn_started", "burn_resolved",
                        "burn_continued"}
  <2>1. /\ Burning(old) <=> old.severity # "none"
        /\ Burning(next) <=> tx[e].severity # "none"
    BY <1>1, <1>3, NoneAssumption DEF Burning
  <2>2. Action(e) = DecideAction(old, tx[e].severity, now[e])
    <3>1. CASE tx[e].prev = None
      BY <2>1, <3>1 DEF Action, DecideAction, Burning, RowOf, NotBurning
    <3>2. CASE tx[e].prev # None
      BY <3>2 DEF Action, RowOf
    <3> QED
      BY <3>1, <3>2
  <2> HIDE DEF old, next
  <2>3. CASE tx[e].severity # "none" /\ ~Burning(old)
    BY <2>1, <2>2, <2>3 DEF DecideAction, Announces
  <2>4. CASE tx[e].severity = "none" /\ Burning(old)
    BY <2>1, <2>2, <2>4 DEF DecideAction, Announces
  <2>5. CASE tx[e].severity # "none" /\ Burning(old)
    <3>1. CASE Due(old, tx[e].severity, now[e])
      BY <2>1, <2>2, <2>5, <3>1 DEF DecideAction, Announces
    <3>2. CASE ~Due(old, tx[e].severity, now[e])
      BY <1>3, <2>1, <2>2, <2>5, <3>2 DEF DecideAction, Announces, Due
    <3> QED
      BY <3>1, <3>2
  <2>6. CASE tx[e].severity = "none" /\ ~Burning(old)
    BY <1>3, <2>1, <2>2, <2>6 DEF DecideAction, Announces
  <2> QED
    BY <2>3, <2>4, <2>5, <2>6
<1>8. q1 \in Seq(Event)
  BY <1>1, <1>4, AppendFacts
<1> HIDE DEF q, next, old
\* After the burn event.
<1>9. Burning(next) <=> LastType(q1, "burn_started", Transitions)
  <2>1. Burning(old) <=> LastType(q, "burn_started", Transitions)
    BY DEF Agrees, q, old
  <2>2. CASE ~Announces(e)
    BY <1>3, <1>7, <2>1, <2>2, NoneAssumption, <1>1 DEF Burning
  <2>3. CASE Announces(e)
    <3>1. LastType(q1, "burn_started", Transitions)
            <=> IF BurnRow(e).type \in Transitions
                THEN BurnRow(e).type = "burn_started"
                ELSE LastType(q, "burn_started", Transitions)
      BY <1>1, <1>4, <2>3, LastTypeAppend
    <3> QED
      BY <1>6, <1>7, <2>1, <2>3, <3>1 DEF Transitions, Announces
  <2> QED
    BY <2>2, <2>3
<1>10. Breached(old) <=> LastType(q1, "error_budget_exhausted", BreachEvents)
  <2>1. Breached(old) <=> LastType(q, "error_budget_exhausted", BreachEvents)
    BY DEF Agrees, q, old
  <2>2. CASE ~Announces(e)
    BY <2>1, <2>2
  <2>3. CASE Announces(e)
    BY <1>1, <1>4, <1>6, <2>1, <2>3, LastTypeAppend
  <2> QED
    BY <2>2, <2>3
<1>11. Burning(next) => LastSeverity(q1, next.severity)
  <2>1. Burning(old) => LastSeverity(q, old.severity)
    BY DEF Agrees, q, old
  <2>2. CASE ~Announces(e)
    BY <1>1, <1>7, <2>1, <2>2, NoneAssumption DEF Burning
  <2>3. CASE Announces(e)
    BY <1>1, <1>3, <1>4, <1>6, <2>3, LastSeverityAppend
  <2> QED
    BY <2>2, <2>3
<1>12. LastContinue(q1, next.severity, next.lastContinuedAt)
  <2>1. LastContinue(q, old.severity, old.lastContinuedAt)
    BY DEF Agrees, q, old
  <2>2. CASE ~Announces(e)
    BY <1>3, <1>7, <2>1, <2>2 DEF Announces
  <2>3. CASE Announces(e)
    BY <1>1, <1>3, <1>4, <1>6, <2>3, LastContinueAppend
  <2> QED
    BY <2>2, <2>3
<1>13. Spaced(q1)
  <2>1. Spaced(q) /\ LastContinue(q, old.severity, old.lastContinuedAt)
    BY DEF Agrees, q, old
  <2>2. CASE ~Announces(e)
    BY <2>1, <2>2
  <2>3. CASE Announces(e)
    <3>1. ASSUME BurnRow(e).type = "burn_continued", NEW i \in DOMAIN q,
                 LastAt(q, i, BurnEvents), q[i].type = "burn_continued",
                 q[i].severity = BurnRow(e).severity
          PROVE  BurnRow(e).at - q[i].at >= ContinueInterval
      <4>1. /\ q[i].severity = old.severity /\ q[i].at = old.lastContinuedAt
            /\ BurnRow(e).at = now[e] /\ BurnRow(e).severity = tx[e].severity
            /\ Due(old, tx[e].severity, now[e])
        BY <1>6, <1>7, <2>1, <2>3, <3>1 DEF LastContinue
      <4>2. q[i].at # 0
        <5>1. q[i] \in Event
          BY <1>1, <3>1
        <5> QED
          BY <5>1 DEF Event
      <4> QED
        BY <3>1, <4>1, <4>2 DEF Due
    <3> QED
      BY <1>1, <1>4, <2>1, <2>3, <3>1, SpacedAppend
  <2> QED
    BY <2>2, <2>3
\* After the breach event.
<1> HIDE DEF q1
<1>14. /\ Burning(next) <=> LastType(q2, "burn_started", Transitions)
       /\ Burning(next) => LastSeverity(q2, next.severity)
       /\ LastContinue(q2, next.severity, next.lastContinuedAt)
  <2>1. CASE ~Crosses(e)
    BY <1>9, <1>11, <1>12, <2>1
  <2>2. CASE Crosses(e)
    BY <1>5, <1>6, <1>8, <1>9, <1>11, <1>12, <2>2,
       LastTypeAppend, LastSeverityAppend, LastContinueAppend
  <2> QED
    BY <2>1, <2>2
<1>15. Breached(next) <=> LastType(q2, "error_budget_exhausted", BreachEvents)
  <2>1. CASE ~Crosses(e)
    BY <1>3, <1>10, <2>1, NoneAssumption
    DEF Crosses, Breached, old, RowOf, NotBurning, BurnState, Severity
  <2>2. CASE Crosses(e)
    <3>1. LastType(q2, "error_budget_exhausted", BreachEvents)
            <=> BreachEvent(e) = "error_budget_exhausted"
      BY <1>5, <1>6, <1>8, <2>2, LastTypeAppend
    <3> QED
      BY <1>3, <3>1 DEF BreachEvent, Breached
  <2> QED
    BY <2>1, <2>2
<1>16. Spaced(q2)
  <2>1. CASE ~Crosses(e)
    BY <1>13, <2>1
  <2>2. CASE Crosses(e)
    <3>1. BreachRow(e).type # "burn_continued"
      BY <1>6 DEF BurnEvents
    <3> QED
      BY <1>5, <1>8, <1>13, <2>2, <3>1, SpacedAppend
  <2> QED
    BY <2>1, <2>2
<1>17. q2 = log[tx[e].slo] \o tx[e].rows
  BY AppendRows DEF q, q1
<1> HIDE DEF q2
<1> QED
  BY <1>14, <1>15, <1>16, <1>17 DEF Agrees, next

LEMMA AgreeInit == Init => AgreeInv
BY NoneAssumption
DEF Init, AgreeInv, Agrees, RowOf, Burning, Breached, NotBurning, LastType,
    LastSeverity, LastContinue, Spaced

LEMMA AgreeStep ==
  ASSUME IInv, RowInv, RowsInv, AgreeInv, [Next]_vars
  PROVE  AgreeInv'
<1>1. ASSUME NEW s \in Slos, DeleteSLO(s) PROVE AgreeInv'
  BY <1>1 DEF DeleteSLO, IInv, TypeOK, AgreeInv
<1>2. ASSUME NEW e \in Evaluators, Commit(e) PROVE AgreeInv'
  <2> DEFINE s == tx[e].slo
  <2>1. /\ pc[e] = "upserted" /\ s \in Slos /\ s \in slos
        /\ tx[e].prev = state[s]
    BY <1>2, OpenTx DEF Commit, IInv, ForeignKeyInv, RowInv, Open
  <2>2. /\ state' = [state EXCEPT ![s] = NextState(e)]
        /\ log' = [log EXCEPT ![s] = @ \o tx[e].rows]
        /\ UNCHANGED slos
    BY <1>2 DEF Commit
  <2>3. /\ Agrees(log[s] \o tx[e].rows, NextState(e))
        /\ Spaced(log[s] \o tx[e].rows)
    BY <2>1, CommitAgrees DEF AgreeInv
  <2>4. /\ RowOf(state'[s]) = NextState(e) /\ log'[s] = log[s] \o tx[e].rows
        /\ \A r \in Slos \ {s} : state'[r] = state[r] /\ log'[r] = log[r]
        /\ state[s] = tx[e].prev
    BY <1>2, <2>1, <2>2, NextStateType DEF IInv, TypeOK, Commit, Open, RowOf
  <2>5. slos \subseteq Slos
    BY DEF IInv, TypeOK
  <2> HIDE DEF s
  <2>6. \A r \in slos' : Agrees(log'[r], RowOf(state'[r]))
    BY <2>1, <2>2, <2>3, <2>4, <2>5 DEF AgreeInv
  <2>7. \A r \in Slos : Spaced(log'[r])
    BY <2>3, <2>4 DEF AgreeInv
  <2> QED
    BY <2>6, <2>7 DEF AgreeInv
<1>3. CASE UNCHANGED tables
  BY <1>3 DEF tables, AgreeInv
<1> QED
  BY <1>1, <1>2, <1>3, StateStep

-----------------------------------------------------------------------------
(* The theorems.                                                           *)

LEMMA Agreement ==
  ASSUME Serial
  PROVE  Spec => []AgreeInv
<1>1. Init => RowInv
  BY RowInit
<1>2. Init => RowsInv /\ AgreeInv
  BY AgreeInit DEF Init, RowsInv
<1>3. IInv /\ IInv' /\ RowInv /\ [Next]_vars => RowInv'
  BY RowStep
<1>4. IInv /\ RowsInv /\ [Next]_vars => RowsInv'
  BY RowsStep
<1>5. IInv /\ RowInv /\ RowsInv /\ AgreeInv /\ [Next]_vars => AgreeInv'
  BY AgreeStep
<1> QED
  BY <1>1, <1>2, <1>3, <1>4, <1>5, Invariance, PTL DEF Spec

\* What the outbox has announced of an SLO is what slo_burn_state says, with
\* any number of evaluators, overlapping passes, failures and deletions, if
\* each SLO has been evaluated before; with one evaluator, from the very first
\* evaluation.
THEOREM AnnouncedIsStored ==
  ASSUME Serial
  PROVE  Spec => []LogMatchesState
<1>1. AgreeInv => LogMatchesState
  BY DEF AgreeInv, Agrees, LogMatchesState, LastType, LastAt, LastIs, IsLast,
         Transitions, RowOf, NotBurning, Burning, Breached
<1> QED
  BY <1>1, Agreement, PTL

\* The last burn event of a burning SLO has its current severity: a change of
\* severity is announced by the evaluation that finds it.
THEOREM SeverityIsCurrent ==
  ASSUME Serial
  PROVE  Spec => []SeverityIsAnnounced
<1>1. AgreeInv => SeverityIsAnnounced
  BY DEF AgreeInv, Agrees, SeverityIsAnnounced, LastSeverity, LastAt, IsLast,
         RowOf, Burning
<1> QED
  BY <1>1, Agreement, PTL

\* Repeated announcements of one severity are an interval apart, although each
\* is dated with the time its pass began.
THEOREM AnnouncementsAreSpaced ==
  ASSUME Serial
  PROVE  Spec => []ContinuesAreSpaced
<1>1. AgreeInv => ContinuesAreSpaced
  BY DEF AgreeInv, ContinuesAreSpaced, Spaced
<1> QED
  BY <1>1, Agreement, PTL
=============================================================================
