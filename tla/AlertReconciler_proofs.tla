----------------------- MODULE AlertReconciler_proofs -----------------------
(***************************************************************************)
(* Proofs about AlertReconciler, for every set of SLOs, documents, groups  *)
(* and replicas, every batch size and every bound on changes and faults.   *)
(***************************************************************************)
EXTENDS AlertReconciler, FiniteSetTheorems, TLAPS

(* The rules of a document.                                                *)

LEMMA RuleType ==
  ASSUME NEW s \in Slos, NEW c \in Condition
  PROVE  RuleOf(s, c) \in Rule /\ RuleOf(s, c).slo = s /\ RuleOf(s, c).kind = c.kind
BY NameAssumption DEF RuleOf, RuleName, Rule, Condition

LEMMA UidType == \A r \in Rule : UID(r) \in Uids
BY DEF Uids

\* An SLO gets rules of its own, one of a kind.
LEMMA DesiredRules ==
  ASSUME NEW s \in Slos, NEW d \in Docs \cup {None}
  PROVE  /\ BuildDesiredRules(s, d) \subseteq Rule
         /\ \A r \in BuildDesiredRules(s, d) : r.slo = s
         /\ \A q, r \in BuildDesiredRules(s, d) : q.kind = r.kind => q = r
         /\ d = None => BuildDesiredRules(s, d) = {}
<1>1. CASE d = None
  BY <1>1 DEF BuildDesiredRules
<1>2. CASE d # None
  <2>1. d \in Seq(Condition) /\ BuildDesiredRules(s, d) = {RuleOf(s, d[i]) : i \in Chosen(d)}
    BY <1>2, DocAssumption DEF BuildDesiredRules
  <2>2. \A i \in Chosen(d) : d[i] \in Condition
    BY <2>1 DEF Chosen
  <2>3. \A i, j \in Chosen(d) : d[i].kind = d[j].kind => i = j
    <3> SUFFICES ASSUME NEW i \in Chosen(d), NEW j \in Chosen(d),
                        d[i].kind = d[j].kind, i < j
                 PROVE  FALSE
      BY <2>1 DEF Chosen
    <3>1. i \in 1..(j - 1)
      BY <2>1 DEF Chosen
    <3> QED
      BY <3>1 DEF Chosen
  <2> QED
    BY <1>2, <2>1, <2>2, <2>3, RuleType
<1> QED
  BY <1>1, <1>2

-----------------------------------------------------------------------------
(* Type correctness, and what is in Grafana.                               *)

\* Each rule is in the group of its SLO, with no other of its kind.
GrafanaInv ==
  \A g \in Groups :
    /\ \A r \in grafana[g] : Group[r.slo] = g
    /\ \A q, r \in grafana[g] : q.slo = r.slo /\ q.kind = r.kind => q = r

IInv == TypeOK /\ GrafanaInv

LEMMA SpecsOf ==
  ASSUME TypeOK, NEW w \in Reconcilers, NEW s \in Slos
  PROVE  /\ Specs(w, s) \subseteq Rule
         /\ \A r \in Specs(w, s) : r.slo = s
         /\ \A q, r \in Specs(w, s) : q.kind = r.kind => q = r
         /\ Kept(w, Specs(w, s)) \subseteq Uids
<1>1. inputs[w][s] \in Docs \cup {None}
  BY DEF TypeOK
<1>2. /\ Specs(w, s) \subseteq Rule
      /\ \A r \in Specs(w, s) : r.slo = s
      /\ \A q, r \in Specs(w, s) : q.kind = r.kind => q = r
  BY <1>1, DesiredRules DEF Specs
<1> QED
  BY <1>2, UidType DEF Kept

LEMMA PutGroupInv ==
  ASSUME IInv, NEW w \in Reconcilers, NEW s \in Slos, PutGroup(s, Specs(w, s))
  PROVE  grafana' \in [Groups -> SUBSET Rule] /\ GrafanaInv'
<1>1. Group[s] \in Groups
  BY GroupAssumption
<1>2. grafana' = [grafana EXCEPT ![Group[s]] = Specs(w, s)]
  BY DEF PutGroup
<1>3. grafana' \in [Groups -> SUBSET Rule]
  BY <1>1, <1>2, SpecsOf DEF IInv, TypeOK
<1>4. /\ grafana'[Group[s]] = Specs(w, s)
      /\ \A g \in Groups : g # Group[s] => grafana'[g] = grafana[g]
  BY <1>1, <1>2 DEF IInv, TypeOK
<1>5. GrafanaInv'
  BY <1>4, SpecsOf DEF IInv, GrafanaInv
<1> QED
  BY <1>3, <1>5

LEMMA RemoveRuleInv ==
  ASSUME IInv, NEW uid, RemoveRule(uid)
  PROVE  grafana' \in [Groups -> SUBSET Rule] /\ GrafanaInv'
BY DEF IInv, TypeOK, GrafanaInv, RemoveRule

LEMMA ResetType ==
  ASSUME TypeOK, NEW w \in Reconcilers, Reset(w)
  PROVE  /\ pc' \in [Reconcilers -> {"idle", "applying", "noting", "collecting", "forgetting"}]
         /\ inputs' \in [Reconcilers -> [Slos -> Docs \cup {None}]]
         /\ todo' \in [Reconcilers -> SUBSET Slos]
         /\ keep' \in [Reconcilers -> SUBSET Uids]
         /\ noting' \in [Reconcilers -> SUBSET Rule]
         /\ applied' \in [Reconcilers -> BOOLEAN]
         /\ garbage' \in [Reconcilers -> SUBSET Uids]
         /\ cur' \in [Reconcilers -> Uids \cup {None}]
BY DEF TypeOK, Reset, NoRow

LEMMA FaultType == ASSUME TypeOK, Fault PROVE faults' \in 0..MaxFaults
BY BoundAssumption DEF TypeOK, Fault

LEMMA IInvInit == Init => IInv
BY BoundAssumption DEF Init, IInv, TypeOK, GrafanaInv, NoRow

LEMMA ChangeStep ==
  ASSUME IInv, ChangeSLOs
  PROVE  IInv'
<1> USE DEF IInv, TypeOK
<1>1. PICK s \in Slos : \/ \E d \in Docs : CreateSLO(s, d) \/ UpdateSLO(s, d)
                        \/ DeleteSLO(s)
  BY DEF ChangeSLOs
<1>2. changes' \in 0..MaxChanges
  <2>1. Change
    BY <1>1 DEF DeleteSLO, CreateSLO, UpdateSLO
  <2> QED
    BY <2>1, BoundAssumption DEF Change
<1>3. ASSUME NEW d \in Docs, CreateSLO(s, d) PROVE IInv'
  <2>1. age' \in [Slos -> Nat]
    <3>1. Cardinality({r \in Slos : age[r] > 0}) \in Nat
      BY SloAssumption, FS_Subset, FS_CardinalityType
    <3> QED
      BY <1>3, <3>1 DEF CreateSLO
  <2> QED
    BY <1>2, <1>3, <2>1 DEF CreateSLO, GrafanaInv, passVars
<1>4. ASSUME NEW d \in Docs, UpdateSLO(s, d) PROVE IInv'
  BY <1>2, <1>4 DEF UpdateSLO, GrafanaInv, passVars
<1>5. CASE DeleteSLO(s)
  BY <1>2, <1>5 DEF DeleteSLO, GrafanaInv, passVars
<1> QED
  BY <1>1, <1>3, <1>4, <1>5

LEMMA PassStep ==
  ASSUME IInv, NEW w \in Reconcilers, Pass(w) \/ Stop(w)
  PROVE  IInv'
<1> USE DEF IInv, TypeOK
<1>1. CASE ListInputs(w)
  <2>1. Batch \subseteq Slos
    BY DEF Batch
  <2> QED
    BY <1>1, <2>1 DEF ListInputs, GrafanaInv, apiVars
<1>2. CASE SkipSLO(w)
  BY <1>2 DEF SkipSLO, GrafanaInv, apiVars
<1>3. CASE ApplySLO(w)
  <2>1. PICK s \in todo[w] :
          /\ PutGroup(s, Specs(w, s)) \/ UNCHANGED grafana
          /\ applied' = [applied EXCEPT ![w] = TRUE] \/
             applied' = [applied EXCEPT ![w] = FALSE]
          /\ Fault \/ UNCHANGED faults
          /\ keep' = [keep EXCEPT ![w] = @ \cup Kept(w, Specs(w, s))]
          /\ noting' = [noting EXCEPT ![w] = Specs(w, s)]
          /\ todo' = [todo EXCEPT ![w] = @ \ {s}]
    BY <1>3 DEF ApplySLO
  <2>2. s \in Slos
    OBVIOUS
  <2>3. grafana' \in [Groups -> SUBSET Rule] /\ GrafanaInv'
    BY <2>1, <2>2, PutGroupInv DEF GrafanaInv
  <2>4. faults' \in 0..MaxFaults
    BY <2>1, FaultType
  <2>5. keep' \in [Reconcilers -> SUBSET Uids] /\ noting' \in [Reconcilers -> SUBSET Rule]
    BY <2>1, <2>2, SpecsOf
  <2> QED
    BY <1>3, <2>1, <2>3, <2>4, <2>5 DEF ApplySLO, apiVars
<1>4. CASE UpsertState(w)
  <2>1. PICK r \in noting[w] :
          /\ UpsertAlertState(w, r) \/ UNCHANGED alertState
          /\ Fault \/ UNCHANGED faults
          /\ noting' = [noting EXCEPT ![w] = @ \ {r}]
    BY <1>4 DEF UpsertState
  <2>2. /\ r \in Rule /\ r.slo \in Slos /\ r.kind \in Kind
        /\ [rule |-> r, status |-> IF applied[w] THEN "synced" ELSE "error"]
             \in AlertState
    BY DEF Rule, AlertState
  <2>3. alertState' \in [Slos -> [Kind -> AlertState \cup {None}]]
    <3> DEFINE row == [rule |-> r, status |-> IF applied[w] THEN "synced" ELSE "error"]
    <3>1. row \in AlertState
      BY <2>2
    <3>2. UpsertAlertState(w, r) =>
            alertState' = [alertState EXCEPT ![r.slo] = [@ EXCEPT ![r.kind] = row]]
      BY DEF UpsertAlertState
    <3> HIDE DEF row
    <3>3. [alertState[r.slo] EXCEPT ![r.kind] = row] \in [Kind -> AlertState \cup {None}]
      BY <2>2, <3>1
    <3> QED
      BY <2>1, <2>2, <3>2, <3>3
  <2>4. faults' \in 0..MaxFaults
    BY <2>1, FaultType
  <2> QED
    BY <1>4, <2>1, <2>3, <2>4 DEF UpsertState, GrafanaInv, apiVars
<1>5. CASE ListRules(w)
  <2>1. Orphans(w) \in SUBSET Uids
    BY UidType DEF Orphans, InGrafana
  <2>2. CASE Fault /\ Reset(w)
    BY <1>5, <2>2, FaultType, ResetType DEF ListRules, GrafanaInv, apiVars
  <2>3. CASE /\ pc' = [pc EXCEPT ![w] = "collecting"]
             /\ garbage' = [garbage EXCEPT ![w] = Orphans(w)]
             /\ UNCHANGED <<inputs, todo, keep, noting, applied, cur, faults>>
    BY <1>5, <2>1, <2>3 DEF ListRules, GrafanaInv, apiVars
  <2> QED
    BY <1>5, <2>2, <2>3 DEF ListRules
<1>6. CASE DeleteRule(w)
  <2>1. PICK uid \in garbage[w] :
          /\ RemoveRule(uid) \/ UNCHANGED grafana
          /\ Fault \/ UNCHANGED faults
          /\ garbage' = [garbage EXCEPT ![w] = @ \ {uid}]
          /\ \/ /\ pc' = [pc EXCEPT ![w] = "forgetting"]
                /\ cur' = [cur EXCEPT ![w] = uid]
             \/ UNCHANGED <<pc, cur>>
    BY <1>6 DEF DeleteRule
  <2>2. grafana' \in [Groups -> SUBSET Rule] /\ GrafanaInv'
    BY <2>1, RemoveRuleInv DEF GrafanaInv
  <2>3. faults' \in 0..MaxFaults
    BY <2>1, FaultType
  <2>4. /\ pc' \in [Reconcilers -> {"idle", "applying", "noting", "collecting", "forgetting"}]
        /\ cur' \in [Reconcilers -> Uids \cup {None}]
        /\ garbage' \in [Reconcilers -> SUBSET Uids]
    BY <2>1
  <2>5. UNCHANGED <<apiVars, alertState, inputs, todo, keep, noting, applied>>
    BY <1>6 DEF DeleteRule
  <2> QED
    BY <2>2, <2>3, <2>4, <2>5 DEF apiVars
<1>7. CASE ForgetRule(w)
  <2>1. alertState' \in [Slos -> [Kind -> AlertState \cup {None}]]
    <3> DEFINE kept(s, k) ==
          IF alertState[s][k] # None /\ UID(alertState[s][k].rule) = cur[w]
          THEN None ELSE alertState[s][k]
    <3>1. \A s \in Slos, k \in Kind : kept(s, k) \in AlertState \cup {None}
      OBVIOUS
    <3>2. \/ alertState' = [s \in Slos |-> [k \in Kind |-> kept(s, k)]]
          \/ UNCHANGED alertState
      BY <1>7 DEF ForgetRule
    <3> HIDE DEF kept
    <3> QED
      BY <3>1, <3>2
  <2>2. faults' \in 0..MaxFaults
    BY <1>7, FaultType DEF ForgetRule
  <2> QED
    BY <1>7, <2>1, <2>2 DEF ForgetRule, GrafanaInv, apiVars
<1>8. CASE EndPass(w)
  BY <1>8, ResetType DEF EndPass, GrafanaInv, apiVars
<1>9. CASE Stop(w)
  BY <1>9, FaultType, ResetType DEF Stop, GrafanaInv, apiVars
<1> QED
  BY <1>1, <1>2, <1>3, <1>4, <1>5, <1>6, <1>7, <1>8, <1>9 DEF Pass

THEOREM Invariance == Spec => []IInv
<1>1. IInv /\ UNCHANGED vars => IInv'
  BY DEF IInv, TypeOK, GrafanaInv, vars, apiVars, passVars
<1>2. IInv /\ [Next]_vars => IInv'
  BY <1>1, ChangeStep, PassStep DEF Next
<1> QED
  BY <1>2, IInvInit, PTL DEF Spec

\* Every variable keeps its type: in particular every rule in Grafana has one
\* of the names a document can give it.
THEOREM TypeCorrect == Spec => []TypeOK
<1>1. IInv => TypeOK
  BY DEF IInv
<1> QED
  BY <1>1, Invariance, PTL

\* No alert of an SLO has two rules, whatever the replicas, the renamings and
\* the failures, and even if two SLOs shared a group.
THEOREM OneRule == Spec => []OneRulePerAlert
<1>1. IInv => OneRulePerAlert
  BY DEF IInv, GrafanaInv, OneRulePerAlert, InGrafana
<1> QED
  BY <1>1, Invariance, PTL

-----------------------------------------------------------------------------
(* What a pass keeps.                                                      *)

\* With batches that hold every SLO: a pass keeps the rules of every SLO it has
\* come to, has come to all of them when it collects, and collects none of them.
KeepInv ==
  \A w \in Reconcilers :
    /\ pc[w] \in {"applying", "noting", "collecting", "forgetting"} =>
         \A s \in Slos \ todo[w] : Kept(w, Specs(w, s)) \subseteq keep[w]
    /\ pc[w] \in {"collecting", "forgetting"} =>
         todo[w] = {} /\ garbage[w] \cap keep[w] = {}

LEMMA WholeBatch ==
  ASSUME TypeOK, Cardinality(Slos) <= BatchSize, NEW s \in Slos, doc[s] # None
  PROVE  s \in Batch
<1> DEFINE newer == {r \in {t \in Slos : doc[t] # None} : age[r] > age[s]}
<1>1. /\ IsFiniteSet(Slos \ {s})
      /\ Cardinality(Slos \ {s}) = Cardinality(Slos) - 1
      /\ Cardinality(Slos) \in Nat
  BY SloAssumption, FS_RemoveElement, FS_CardinalityType
<1>2. newer \subseteq Slos \ {s}
  BY DEF TypeOK
<1>3. Cardinality(newer) \in Nat /\ Cardinality(newer) <= Cardinality(Slos \ {s})
  BY <1>1, <1>2, FS_Subset, FS_CardinalityType
<1>4. Cardinality(newer) < BatchSize
  BY <1>1, <1>3, BatchAssumption
<1> QED
  BY <1>4 DEF Batch

LEMMA KeepStep ==
  ASSUME Cardinality(Slos) <= BatchSize, IInv, IInv', KeepInv, [Next]_vars
  PROVE  KeepInv'
<1> USE DEF IInv, TypeOK
<1> DEFINE Inv(w) ==
      /\ pc[w] \in {"applying", "noting", "collecting", "forgetting"} =>
           \A s \in Slos \ todo[w] : Kept(w, Specs(w, s)) \subseteq keep[w]
      /\ pc[w] \in {"collecting", "forgetting"} =>
           todo[w] = {} /\ garbage[w] \cap keep[w] = {}
<1> SUFFICES ASSUME NEW w \in Reconcilers PROVE Inv(w)'
  BY DEF KeepInv
<1>1. Inv(w)
  BY DEF KeepInv
<1> DEFINE Same == /\ pc'[w] = pc[w] /\ inputs'[w] = inputs[w]
                   /\ todo'[w] = todo[w] /\ keep'[w] = keep[w]
                   /\ garbage'[w] = garbage[w]
<1>2. inputs'[w] = inputs[w] => \A s \in Slos : Specs(w, s)' = Specs(w, s)
  BY DEF Specs
<1>3. CASE Same
  BY <1>1, <1>2, <1>3 DEF Kept
<1>4. CASE ListInputs(w)
  <2>1. \A s \in Slos \ Batch : Specs(w, s)' = {}
    BY <1>4, WholeBatch, DesiredRules DEF ListInputs, Specs
  <2> QED
    BY <1>4, <2>1 DEF ListInputs, Kept
<1>5. CASE SkipSLO(w)
  <2>1. PICK s \in todo[w] : Specs(w, s) = {} /\ todo' = [todo EXCEPT ![w] = @ \ {s}]
    BY <1>5 DEF SkipSLO
  <2> QED
    BY <1>1, <1>2, <1>5, <2>1 DEF SkipSLO, Kept
<1>6. CASE ApplySLO(w)
  <2>1. PICK s \in todo[w] :
          /\ keep' = [keep EXCEPT ![w] = @ \cup Kept(w, Specs(w, s))]
          /\ todo' = [todo EXCEPT ![w] = @ \ {s}]
    BY <1>6 DEF ApplySLO
  <2> QED
    BY <1>1, <1>2, <1>6, <2>1 DEF ApplySLO, Kept
<1>7. CASE UpsertState(w)
  BY <1>1, <1>2, <1>7 DEF UpsertState, Kept
<1>8. CASE ListRules(w)
  <2>1. CASE Reset(w)
    BY <2>1 DEF Reset
  <2>2. CASE /\ pc' = [pc EXCEPT ![w] = "collecting"]
             /\ garbage' = [garbage EXCEPT ![w] = Orphans(w)]
             /\ UNCHANGED <<inputs, todo, keep>>
    BY <1>1, <1>2, <1>8, <2>2 DEF ListRules, Orphans, Kept
  <2> QED
    BY <1>8, <2>1, <2>2 DEF ListRules
<1>9. CASE DeleteRule(w)
  <2>1. /\ pc[w] = "collecting" /\ pc'[w] \in {"collecting", "forgetting"}
        /\ garbage'[w] \subseteq garbage[w]
        /\ UNCHANGED <<inputs, todo, keep>>
    BY <1>9 DEF DeleteRule
  <2> QED
    BY <1>1, <1>2, <2>1 DEF Kept
<1>10. CASE ForgetRule(w)
  BY <1>1, <1>2, <1>10 DEF ForgetRule, Kept
<1>11. CASE EndPass(w) \/ Stop(w)
  BY <1>11 DEF EndPass, Stop, Reset
<1>12. ASSUME NEW v \in Reconcilers \ {w}, Pass(v) \/ Stop(v)
       PROVE  Same
  BY <1>12
  DEF Pass, Stop, ListInputs, SkipSLO, ApplySLO, UpsertState, ListRules,
      DeleteRule, ForgetRule, EndPass, Reset
<1>13. CASE ChangeSLOs \/ UNCHANGED vars
  BY <1>3, <1>13 DEF ChangeSLOs, CreateSLO, UpdateSLO, DeleteSLO, vars, passVars
<1> HIDE DEF Inv
<1> QED
  BY <1>3, <1>4, <1>5, <1>6, <1>7, <1>8, <1>9, <1>10, <1>11, <1>12, <1>13
  DEF Next, Pass

\* With batches that hold every SLO and a group for each, no pass deletes or
\* overwrites a rule that the documents it has listed ask for, failed calls
\* included.  reconciler_batch shows that the first assumption is needed.
THEOREM OrphansOnly ==
  ASSUME Cardinality(Slos) <= BatchSize,
         \A s, t \in Slos : Group[s] = Group[t] => s = t
  PROVE  Spec => OnlyOrphansDeleted
<1>1. ASSUME IInv, KeepInv, NEW w \in Reconcilers, Pass(w)
      PROVE  (InGrafana \ InGrafana') \cap Desired(inputs[w]) = {}
  <2> USE <1>1 DEF IInv, TypeOK
  <2> SUFFICES ASSUME NEW r \in InGrafana, r \notin InGrafana',
                      r \in Desired(inputs[w])
               PROVE  FALSE
    OBVIOUS
  <2>1. PICK g \in Groups : r \in grafana[g]
    BY DEF InGrafana
  <2>2. r \in Rule /\ r.slo \in Slos /\ g = Group[r.slo] /\ r \notin grafana'[g]
    BY <2>1 DEF GrafanaInv, InGrafana, Rule
  <2>3. r \in Specs(w, r.slo)
    <3>1. PICK s \in Slos : r \in Specs(w, s)
      BY DEF Desired, Specs
    <3> QED
      BY <3>1, SpecsOf
  <2>4. CASE ApplySLO(w)
    <3>1. PICK s \in todo[w] : PutGroup(s, Specs(w, s)) \/ UNCHANGED grafana
      BY <2>4 DEF ApplySLO
    <3>2. s \in Slos /\ Group[s] \in Groups
      BY GroupAssumption
    <3>3. CASE Group[s] = g
      BY <2>2, <2>3, <3>1, <3>2, <3>3, <2>1 DEF PutGroup
    <3>4. CASE Group[s] # g
      BY <2>1, <2>2, <3>1, <3>2, <3>4 DEF PutGroup
    <3> QED
      BY <3>3, <3>4
  <2>5. CASE DeleteRule(w)
    <3>1. PICK uid \in garbage[w] : RemoveRule(uid) \/ UNCHANGED grafana
      BY <2>5 DEF DeleteRule
    <3>2. UID(r) = uid
      BY <2>1, <2>2, <3>1 DEF RemoveRule
    <3>3. /\ pc[w] = "collecting"
          /\ todo[w] = {} /\ garbage[w] \cap keep[w] = {}
          /\ Kept(w, Specs(w, r.slo)) \subseteq keep[w]
      BY <2>2, <2>5 DEF KeepInv, DeleteRule
    <3>4. UID(r) \in Kept(w, Specs(w, r.slo))
      BY <2>3 DEF Kept
    <3> QED
      BY <3>1, <3>2, <3>3, <3>4
  <2>6. CASE UNCHANGED grafana
    BY <2>1, <2>2, <2>6
  <2> QED
    BY <1>1, <2>4, <2>5, <2>6
    DEF Pass, ListInputs, SkipSLO, UpsertState, ListRules, ForgetRule, EndPass
<1>2. Init => KeepInv
  BY DEF Init, KeepInv
<1>3. IInv /\ IInv' /\ KeepInv /\ [Next]_vars => KeepInv'
  BY KeepStep
<1>4. IInv /\ KeepInv /\ [Next]_vars
        => [\A w \in Reconcilers : Pass(w) =>
              (InGrafana \ InGrafana') \cap Desired(inputs[w]) = {}]_vars
  BY <1>1
<1> QED
  BY <1>2, <1>3, <1>4, Invariance, PTL DEF Spec, OnlyOrphansDeleted
=============================================================================
