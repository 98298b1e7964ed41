--------------------------- MODULE AlertReconciler ---------------------------
(***************************************************************************)
(* The alert reconcilers, one in each control-plane process.  A pass lists *)
(* the SLOs with their OpenSLO documents, puts the rules each asks for     *)
(* into Grafana, notes the outcome in slo_alert_state, and in the end      *)
(* deletes the managed rules in Grafana that it has not asked for.         *)
(*                                                                         *)
(* A pass is split at every call to Grafana or Postgres: the API changes   *)
(* the SLOs in between, other replicas are somewhere else in theirs, calls *)
(* fail one by one and the process may stop.  Only managed rules are       *)
(* modelled.  Not modelled: slo_alert_reconcile_attempts, an append-only   *)
(* log nothing reads.                                                      *)
(***************************************************************************)
EXTENDS Naturals, FiniteSets, Sequences

CONSTANTS
  Slos,         \* SLOs the API ever creates
  Reconcilers,  \* control-plane processes that have a Grafana URL
  Docs,         \* OpenSLO documents, each as the sequence of its AlertConditions
  Names,        \* names of AlertConditions
  Texts,        \* all else that goes into a rule
  Groups,       \* rule groups in Grafana
  Group,        \* buildGroupName: the group of an SLO
  BatchSize,    \* SLO_API_ALERT_RECONCILER_BATCH_SIZE
  MaxChanges,   \* bound: creations, updates and deletions of SLOs
  MaxFaults,    \* bound: failed calls and stops
  None          \* no row

Kind       == {"burn", "breach"}
Condition  == [kind : Kind, name : Names \cup {""}, text : Texts]
Rule       == [slo : Slos, kind : Kind, name : Names, text : Texts]
AlertState == [rule : Rule, status : {"synced", "error"}]

ASSUME NameAssumption  == "unnamed-condition" \in Names /\ "" \notin Names
ASSUME SloAssumption   == IsFiniteSet(Slos)
ASSUME DocAssumption   == Docs \subseteq Seq(Condition) /\ None \notin Docs
ASSUME GroupAssumption == Group \in [Slos -> Groups]
ASSUME BatchAssumption == BatchSize \in Nat \ {0}
ASSUME BoundAssumption == {MaxChanges, MaxFaults} \subseteq Nat

\* buildRuleUID, whose hash is taken to be injective.
UID(r) == <<r.slo, r.kind, r.name>>
Uids   == {UID(r) : r \in Rule}

ASSUME NoneAssumption == None \notin AlertState \cup Uids

VARIABLES
  doc,         \* slos.openslo_yaml, None where there is no row
  age,         \* order of slos.created_at, 0 before the SLO is created
  alertState,  \* rows of slo_alert_state by SLO and kind
  grafana,     \* the rules in each group
  pc,          \* where each reconciler is in ReconcileOnce
  inputs,      \* the documents as its pass has listed them
  todo,        \* SLOs of its batch it has not come to
  keep,        \* desiredRuleUIDs
  noting,      \* rules of applySLO whose outcome is not noted yet
  applied,     \* whether UpsertRuleGroup succeeded
  garbage,     \* UIDs it has yet to delete
  cur,         \* the UID it has just deleted
  changes,     \* changes of SLOs so far
  faults       \* failed calls and stops so far

apiVars  == <<doc, age, changes>>
passVars == <<pc, inputs, todo, keep, noting, applied, garbage, cur>>
vars == <<apiVars, alertState, grafana, passVars, faults>>

TypeOK ==
  /\ doc \in [Slos -> Docs \cup {None}]
  /\ age \in [Slos -> Nat]
  /\ alertState \in [Slos -> [Kind -> AlertState \cup {None}]]
  /\ grafana \in [Groups -> SUBSET Rule]
  /\ pc \in [Reconcilers -> {"idle", "applying", "noting", "collecting", "forgetting"}]
  /\ inputs \in [Reconcilers -> [Slos -> Docs \cup {None}]]
  /\ todo \in [Reconcilers -> SUBSET Slos]
  /\ keep \in [Reconcilers -> SUBSET Uids]
  /\ noting \in [Reconcilers -> SUBSET Rule]
  /\ applied \in [Reconcilers -> BOOLEAN]
  /\ garbage \in [Reconcilers -> SUBSET Uids]
  /\ cur \in [Reconcilers -> Uids \cup {None}]
  /\ changes \in 0..MaxChanges
  /\ faults \in 0..MaxFaults

NoRow == [s \in Slos |-> None]

Init ==
  /\ doc = NoRow
  /\ age = [s \in Slos |-> 0]
  /\ alertState = [s \in Slos |-> [k \in Kind |-> None]]
  /\ grafana = [g \in Groups |-> {}]
  /\ pc = [w \in Reconcilers |-> "idle"]
  /\ inputs = [w \in Reconcilers |-> NoRow]
  /\ todo = [w \in Reconcilers |-> {}]
  /\ keep = [w \in Reconcilers |-> {}]
  /\ noting = [w \in Reconcilers |-> {}]
  /\ applied = [w \in Reconcilers |-> FALSE]
  /\ garbage = [w \in Reconcilers |-> {}]
  /\ cur = [w \in Reconcilers |-> None]
  /\ changes = 0
  /\ faults = 0

-----------------------------------------------------------------------------
(* What a document asks for.                                               *)

\* Mutant of Chosen: every condition becomes a rule.
ChosenAll(d) == DOMAIN d

\* alertsFromOpenSLO takes the first condition of each kind.
Chosen(d) == {i \in DOMAIN d : \A j \in 1..(i - 1) : d[j].kind # d[i].kind}

\* Mutant of RuleName: the name as it is.
RuleNameRaw(c) == c.name

RuleName(c) == IF c.name = "" THEN "unnamed-condition" ELSE c.name

RuleOf(s, c) == [slo |-> s, kind |-> c.kind, name |-> RuleName(c), text |-> c.text]

\* None where the SLO is not listed.  A document of before OpenSLO, which no
\* longer parses, is skipped like one without conditions: it is <<>> here.
BuildDesiredRules(s, d) ==
  IF d = None THEN {} ELSE {RuleOf(s, d[i]) : i \in Chosen(d)}

Desired(docs) == UNION {BuildDesiredRules(s, docs[s]) : s \in Slos}

InGrafana == UNION {grafana[g] : g \in Groups}

-----------------------------------------------------------------------------
(* The API.                                                                *)

Change == changes < MaxChanges /\ changes' = changes + 1

CreateSLO(s, d) ==
  /\ Change
  /\ age[s] = 0
  /\ doc' = [doc EXCEPT ![s] = d]
  /\ age' = [age EXCEPT ![s] = Cardinality({r \in Slos : age[r] > 0}) + 1]
  /\ UNCHANGED <<alertState, grafana, passVars, faults>>

UpdateSLO(s, d) ==
  /\ Change
  /\ doc[s] # None
  /\ doc' = [doc EXCEPT ![s] = d]
  /\ UNCHANGED <<age, alertState, grafana, passVars, faults>>

\* The deletion cascades to slo_alert_state.
DeleteSLO(s) ==
  /\ Change
  /\ doc[s] # None
  /\ doc' = [doc EXCEPT ![s] = None]
  /\ alertState' = [alertState EXCEPT ![s] = [k \in Kind |-> None]]
  /\ UNCHANGED <<age, grafana, passVars, faults>>

-----------------------------------------------------------------------------
(* ReconcileOnce.                                                          *)

Fault == faults < MaxFaults /\ faults' = faults + 1

\* ORDER BY created_at DESC, and no more than a batch.
Batch ==
  LET live == {s \in Slos : doc[s] # None}
  IN  {s \in live : Cardinality({r \in live : age[r] > age[s]}) < BatchSize}

ListInputs(w) ==
  /\ pc[w] = "idle"
  /\ pc' = [pc EXCEPT ![w] = "applying"]
  /\ inputs' = [inputs EXCEPT ![w] = doc]
  /\ todo' = [todo EXCEPT ![w] = Batch]
  /\ keep' = [keep EXCEPT ![w] = {}]
  /\ UNCHANGED <<apiVars, alertState, grafana, noting, applied, garbage, cur, faults>>

IsNext(w, s) == s \in todo[w] /\ \A r \in todo[w] : age[r] <= age[s]

Specs(w, s) == BuildDesiredRules(s, inputs[w][s])

\* No rule is asked for: what is in Grafana is left to the collection.
SkipSLO(w) ==
  /\ pc[w] = "applying"
  /\ \E s \in todo[w] : /\ IsNext(w, s)
                        /\ Specs(w, s) = {}
                        /\ todo' = [todo EXCEPT ![w] = @ \ {s}]
  /\ UNCHANGED <<apiVars, alertState, grafana, pc, inputs, keep, noting,
                 applied, garbage, cur, faults>>

\* The group holds these rules and no other.
PutGroup(s, rules) == grafana' = [grafana EXCEPT ![Group[s]] = rules]

\* Mutant of Kept: only what has been applied is kept.
KeptIfApplied(w, rules) == IF applied'[w] THEN {UID(r) : r \in rules} ELSE {}

Kept(w, rules) == {UID(r) : r \in rules}

\* UpsertRuleGroup.  One that fails may have taken effect.
ApplySLO(w) ==
  /\ pc[w] = "applying"
  /\ \E s \in todo[w] :
       /\ IsNext(w, s)
       /\ Specs(w, s) # {}
       /\ \/ /\ PutGroup(s, Specs(w, s))
             /\ applied' = [applied EXCEPT ![w] = TRUE]
             /\ UNCHANGED faults
          \/ /\ Fault
             /\ PutGroup(s, Specs(w, s)) \/ UNCHANGED grafana
             /\ applied' = [applied EXCEPT ![w] = FALSE]
       /\ keep' = [keep EXCEPT ![w] = @ \cup Kept(w, Specs(w, s))]
       /\ noting' = [noting EXCEPT ![w] = Specs(w, s)]
       /\ todo' = [todo EXCEPT ![w] = @ \ {s}]
  /\ pc' = [pc EXCEPT ![w] = "noting"]
  /\ UNCHANGED <<apiVars, alertState, inputs, garbage, cur>>

UpsertAlertState(w, r) ==
  alertState' = [alertState EXCEPT ![r.slo][r.kind] =
    [rule |-> r, status |-> IF applied[w] THEN "synced" ELSE "error"]]

\* The burn alert first.  The foreign key refuses the row of a deleted SLO.
UpsertState(w) ==
  /\ pc[w] = "noting"
  /\ \E r \in noting[w] :
       /\ r.kind = "breach" => \A q \in noting[w] : q.kind = "breach"
       /\ \/ /\ doc[r.slo] # None
             /\ UpsertAlertState(w, r)
             /\ UNCHANGED faults
          \/ /\ doc[r.slo] = None
             /\ UNCHANGED <<alertState, faults>>
          \/ /\ Fault
             /\ UNCHANGED alertState
       /\ noting' = [noting EXCEPT ![w] = @ \ {r}]
  /\ pc' = [pc EXCEPT ![w] = IF noting'[w] = {} THEN "applying" ELSE "noting"]
  /\ UNCHANGED <<apiVars, grafana, inputs, todo, keep, applied, garbage, cur>>

Reset(w) ==
  /\ pc' = [pc EXCEPT ![w] = "idle"]
  /\ inputs' = [inputs EXCEPT ![w] = NoRow]
  /\ todo' = [todo EXCEPT ![w] = {}]
  /\ keep' = [keep EXCEPT ![w] = {}]
  /\ noting' = [noting EXCEPT ![w] = {}]
  /\ applied' = [applied EXCEPT ![w] = FALSE]
  /\ garbage' = [garbage EXCEPT ![w] = {}]
  /\ cur' = [cur EXCEPT ![w] = None]

-----------------------------------------------------------------------------
(* garbageCollect.                                                         *)

\* Mutant of Orphans: nothing is collected.
OrphansNever(w) == {}

\* ListRules, less what is kept.
Orphans(w) == {UID(r) : r \in InGrafana} \ keep[w]

ListRules(w) ==
  /\ pc[w] = "applying"
  /\ todo[w] = {}
  /\ \/ /\ pc' = [pc EXCEPT ![w] = "collecting"]
        /\ garbage' = [garbage EXCEPT ![w] = Orphans(w)]
        /\ UNCHANGED <<inputs, todo, keep, noting, applied, cur, faults>>
     \/ /\ Fault
        /\ Reset(w)
  /\ UNCHANGED <<apiVars, alertState, grafana>>

RemoveRule(uid) ==
  grafana' = [g \in Groups |-> {r \in grafana[g] : UID(r) # uid}]

\* A deletion that fails may have taken effect; the row of the rule stays.
DeleteRule(w) ==
  /\ pc[w] = "collecting"
  /\ \E uid \in garbage[w] :
       \/ /\ RemoveRule(uid)
          /\ pc' = [pc EXCEPT ![w] = "forgetting"]
          /\ garbage' = [garbage EXCEPT ![w] = @ \ {uid}]
          /\ cur' = [cur EXCEPT ![w] = uid]
          /\ UNCHANGED faults
       \/ /\ Fault
          /\ RemoveRule(uid) \/ UNCHANGED grafana
          /\ garbage' = [garbage EXCEPT ![w] = @ \ {uid}]
          /\ UNCHANGED <<pc, cur>>
  /\ UNCHANGED <<apiVars, alertState, inputs, todo, keep, noting, applied>>

EndPass(w) ==
  /\ pc[w] = "collecting"
  /\ garbage[w] = {}
  /\ Reset(w)
  /\ UNCHANGED <<apiVars, alertState, grafana, faults>>

\* DeleteAlertStateByRuleUID, whose error is dropped.
ForgetRule(w) ==
  /\ pc[w] = "forgetting"
  /\ \/ /\ alertState' =
             [s \in Slos |-> [k \in Kind |->
               IF alertState[s][k] # None /\ UID(alertState[s][k].rule) = cur[w]
               THEN None ELSE alertState[s][k]]]
        /\ UNCHANGED faults
     \/ Fault /\ UNCHANGED alertState
  /\ pc' = [pc EXCEPT ![w] = "collecting"]
  /\ cur' = [cur EXCEPT ![w] = None]
  /\ UNCHANGED <<apiVars, grafana, inputs, todo, keep, noting, applied, garbage>>

\* The process is killed, or drains on SIGTERM and fails all that is left.
Stop(w) ==
  /\ pc[w] # "idle"
  /\ Fault
  /\ Reset(w)
  /\ UNCHANGED <<apiVars, alertState, grafana>>

-----------------------------------------------------------------------------

ChangeSLOs ==
  \E s \in Slos : \/ \E d \in Docs : CreateSLO(s, d) \/ UpdateSLO(s, d)
                  \/ DeleteSLO(s)

Pass(w) ==
  \/ ListInputs(w)
  \/ SkipSLO(w)
  \/ ApplySLO(w)
  \/ UpsertState(w)
  \/ ListRules(w)
  \/ DeleteRule(w)
  \/ ForgetRule(w)
  \/ EndPass(w)

Next == ChangeSLOs \/ \E w \in Reconcilers : Pass(w) \/ Stop(w)

Spec == Init /\ [][Next]_vars

\* The ticker of every process fires, and a pass goes on to its end.
FairSpec == Spec /\ \A w \in Reconcilers : WF_vars(Pass(w))

-----------------------------------------------------------------------------
(* Properties.                                                             *)

\* Grafana never has two rules for one kind of alert of one SLO, through
\* renamed conditions, competing replicas and calls that half succeed.
OneRulePerAlert ==
  \A q, r \in InGrafana : q.slo = r.slo /\ q.kind = r.kind => q = r

\* A pass removes no rule that the documents it has listed ask for
\* (worker.go:176, "delete orphaned grafana rule").
OnlyOrphansDeleted ==
  [][\A w \in Reconcilers : Pass(w) =>
       (InGrafana \ InGrafana') \cap Desired(inputs[w]) = {}]_vars

\* What slo_alert_state says of an alert of an SLO.
Noted(r) == [rule |-> r, status |-> "synced"]

Converged ==
  /\ InGrafana = Desired(doc)
  /\ \A r \in Desired(doc) : alertState[r.slo][r.kind] = Noted(r)

\* Once the SLOs stop changing and calls stop failing, Grafana comes to hold
\* exactly the rules asked for, all noted as synced, and nothing changes that.
Converges == <>[]Converged

\* slo_alert_state comes to list the alerts there are, and no other
\* (openapi:306, "Alert reconciliation status for an SLO").
StatusSettles ==
  <>[](\A s \in Slos, k \in Kind :
         alertState[s][k] # None => alertState[s][k].rule \in InGrafana)
=============================================================================
