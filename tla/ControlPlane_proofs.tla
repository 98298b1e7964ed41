------------------------- MODULE ControlPlane_proofs -------------------------
(***************************************************************************)
(* What the tables of the control plane promise holds for every number of  *)
(* rows, every set of texts and every overlap of calls.                    *)
(*                                                                         *)
(* StoreIsSound alone is not inductive: that a new row has an id of its    *)
(* own needs that no id is above lastId, and that the objects of an SLO    *)
(* survive the deletion of another service needs that its id belongs to    *)
(* no other SLO.                                                           *)
(***************************************************************************)
EXTENDS ControlPlane, TLAPS

\* No row has an id that is still to be given.
IdsGiven == \A r \in teams \cup services \cup slos : r.id <= lastId

\* An id belongs to one SLO.
SlosDistinct == \A o, q \in slos : o.id = q.id => o = q

IInv == TablesOK /\ StoreIsSound /\ IdsGiven /\ SlosDistinct

LEMMA InitIInv == StoreInit => IInv
BY BoundAssumption
   DEF StoreInit, IInv, TablesOK, StoreIsSound, ReferencesHold, ObjectsFollowText,
       Distinct, IdsGiven, SlosDistinct, IdsOf

-----------------------------------------------------------------------------
(* Types.                                                                  *)

\* The objects of a text are typed.
LEMMA ObjectRowsTyped ==
  ASSUME NEW n \in Ids, NEW openslo \in Texts
  PROVE  ObjectRows(n, openslo) \subseteq
           UNION {ObjectRows(m, t) : m \in Ids, t \in Texts}
OBVIOUS

LEMMA NewIdTyped ==
  ASSUME TablesOK, CanCreate
  PROVE  NewId \in Ids /\ NewId \in 0 .. MaxId
BY BoundAssumption DEF TablesOK, CanCreate, NewId, Ids

LEMMA TypesKept ==
  ASSUME TablesOK, [StoreNext]_store
  PROVE  TablesOK'
<1> DEFINE Objects == UNION {ObjectRows(m, t) : m \in Ids, t \in Texts}
<1>0. /\ lastId \in 0 .. MaxId
      /\ teams \subseteq Team /\ services \subseteq Service /\ slos \subseteq SLO
      /\ objects \subseteq Objects /\ events \subseteq Burn
      /\ updates \subseteq [slo : Ids, openslo : Texts]
  BY DEF TablesOK
<1>o. ASSUME NEW n \in Ids, NEW openslo \in Texts
      PROVE  ObjectRows(n, openslo) \subseteq Objects
  BY <1>o, ObjectRowsTyped
<1> HIDE DEF Objects
<1>1. ASSUME NEW slug \in Slugs, CreateTeam(slug) PROVE TablesOK'
  <2>1. NewId \in Ids /\ NewId \in 0 .. MaxId BY <1>1, NewIdTyped DEF CreateTeam
  <2> QED BY <1>0, <1>1, <2>1 DEF CreateTeam, Team, TablesOK, Objects, ObjectRows
<1>2. ASSUME NEW slug \in Slugs, NEW n \in Ids, UpdateTeam(n, slug) PROVE TablesOK'
  BY <1>0, <1>2 DEF UpdateTeam, Team, TablesOK, Objects, ObjectRows
<1>3. ASSUME NEW slug \in Slugs, NEW owner \in Ids, CreateService(slug, owner)
      PROVE  TablesOK'
  <2>1. NewId \in Ids /\ NewId \in 0 .. MaxId BY <1>3, NewIdTyped DEF CreateService
  <2> QED BY <1>0, <1>3, <2>1 DEF CreateService, Service, TablesOK, Objects, ObjectRows
<1>4. ASSUME NEW slug \in Slugs, NEW n \in Ids, NEW owner \in Ids,
             UpdateService(n, slug, owner)
      PROVE  TablesOK'
  BY <1>0, <1>4 DEF UpdateService, Service, TablesOK, Objects, ObjectRows
<1>5. ASSUME NEW n \in Ids, DeleteTeam(n) \/ DeleteService(n) \/ DeleteSLO(n)
      PROVE  TablesOK'
  BY <1>0, <1>5
     DEF DeleteTeam, DeleteService, DeleteSLO, TablesOK, Objects, ObjectRows
<1>6. ASSUME NEW n \in Ids, NEW openslo \in Texts \cup Malformed, CreateSLO(n, openslo)
      PROVE  TablesOK'
  <2>1. NewId \in Ids /\ NewId \in 0 .. MaxId /\ openslo \in Texts
    BY <1>6, NewIdTyped DEF CreateSLO
  <2>2. slos' \subseteq SLO BY <1>0, <1>6, <2>1 DEF CreateSLO, SLO
  <2>3. objects' \subseteq Objects
    BY <1>0, <1>6, <1>o, <2>1 DEF CreateSLO, ReplaceSLOOpenSLOObjectsTx
  <2> QED BY <1>0, <1>6, <2>1, <2>2, <2>3 DEF CreateSLO, TablesOK, Objects, ObjectRows
<1>7. ASSUME NEW n \in Ids, NEW openslo \in Texts \cup Malformed,
             BeginUpdateSLO(n, openslo)
      PROVE  TablesOK'
  BY <1>0, <1>7 DEF BeginUpdateSLO, TablesOK, Objects, ObjectRows
<1>8. ASSUME NEW u \in updates, EndUpdateSLO(u) PROVE TablesOK'
  <2>1. u.slo \in Ids /\ u.openslo \in Texts BY <1>0
  <2>2. slos' \subseteq SLO BY <1>0, <1>8, <2>1 DEF EndUpdateSLO, SLO
  <2>3. objects' \subseteq Objects
    BY <1>0, <1>8, <1>o, <2>1 DEF EndUpdateSLO, ReplaceSLOOpenSLOObjectsTx
  <2> QED BY <1>0, <1>8, <2>2, <2>3 DEF EndUpdateSLO, TablesOK, Objects, ObjectRows
<1>9. ASSUME NEW n \in Ids, NEW type \in BurnTypes, NEW severity \in Severities,
             InsertBurnEventView(n, type, severity)
      PROVE  TablesOK'
  <2>1. NewId \in Ids /\ NewId \in 0 .. MaxId
    BY <1>9, NewIdTyped DEF InsertBurnEventView
  <2> QED BY <1>0, <1>9, <2>1 DEF InsertBurnEventView, Burn, TablesOK, Objects, ObjectRows
<1>10. CASE UNCHANGED store
  BY <1>0, <1>10 DEF store, TablesOK, Objects, ObjectRows
<1> QED
  BY <1>1, <1>2, <1>3, <1>4, <1>5, <1>6, <1>7, <1>8, <1>9, <1>10 DEF StoreNext

-----------------------------------------------------------------------------
(* References, texts and slugs.  Ids are numbers, and a new one is new.    *)

LEMMA NewIdIsNew ==
  ASSUME IInv, CanCreate
  PROVE  /\ NewId \in Nat /\ lastId \in Nat /\ lastId < NewId
         /\ NewId \notin IdsOf(teams) \cup IdsOf(services) \cup IdsOf(slos)
<1>1. lastId \in Nat BY BoundAssumption DEF IInv, TablesOK
<1>2. \A r \in teams \cup services \cup slos : r.id \in Nat /\ r.id <= lastId
  BY BoundAssumption DEF IInv, TablesOK, IdsGiven, Team, Service, SLO, Ids
<1> QED BY <1>1, <1>2 DEF NewId, IdsOf

\* A step that leaves the rows of teams, services, SLOs and objects alone.
LEMMA RowsUntouched ==
  ASSUME IInv, TablesOK', lastId' \in Nat, lastId \in Nat, lastId <= lastId',
         UNCHANGED <<teams, services, slos, objects>>
  PROVE  IInv'
<1>1. StoreIsSound' /\ SlosDistinct'
  BY DEF IInv, StoreIsSound, ReferencesHold, ObjectsFollowText, Distinct,
         SlosDistinct, IdsOf
<1>2. \A r \in teams \cup services \cup slos : r.id \in Nat /\ r.id <= lastId
  BY BoundAssumption DEF IInv, TablesOK, IdsGiven, Team, Service, SLO, Ids
<1>3. IdsGiven' BY <1>2 DEF IdsGiven
<1> QED BY <1>1, <1>3 DEF IInv

\* To replace a row by one of the same id keeps the ids.
LEMMA IdsReplaced ==
  ASSUME NEW rows, NEW n \in IdsOf(rows), NEW r, r.id = n
  PROVE  IdsOf((rows \ ById(rows, n)) \cup {r}) = IdsOf(rows)
<1>1. ASSUME NEW m \in IdsOf(rows) PROVE m \in IdsOf((rows \ ById(rows, n)) \cup {r})
  <2>1. PICK q \in rows : q.id = m BY DEF IdsOf
  <2>2. CASE m = n BY <2>2 DEF IdsOf
  <2>3. CASE m # n
    <3>1. q \in rows \ ById(rows, n) BY <2>1, <2>3 DEF ById
    <3> QED BY <2>1, <3>1 DEF IdsOf
  <2> QED BY <2>2, <2>3
<1>2. IdsOf((rows \ ById(rows, n)) \cup {r}) \subseteq IdsOf(rows) BY DEF IdsOf
<1> QED BY <1>1, <1>2

LEMMA TeamsKept ==
  ASSUME IInv, TablesOK', NEW slug \in Slugs, NEW n \in Ids,
         CreateTeam(slug) \/ UpdateTeam(n, slug)
  PROVE  IInv'
<1>0. /\ services' = services /\ slos' = slos /\ objects' = objects
      /\ ReferencesHold /\ ObjectsFollowText /\ Distinct(teams) /\ Distinct(services)
      /\ IdsGiven /\ SlosDistinct
  BY DEF IInv, StoreIsSound, CreateTeam, UpdateTeam
<1>i. /\ lastId \in Nat
      /\ \A r \in teams \cup services \cup slos : r.id \in Nat /\ r.id <= lastId
  BY BoundAssumption DEF IInv, TablesOK, IdsGiven, Team, Service, SLO, Ids
<1>1. CASE CreateTeam(slug)
  <2>0. NewId \in Nat /\ lastId < NewId /\ NewId \notin IdsOf(teams)
    BY <1>1, NewIdIsNew DEF CreateTeam
  <2>1. ReferencesHold' BY <1>0, <1>1 DEF CreateTeam, ReferencesHold, IdsOf
  <2>2. Distinct(teams)' BY <1>0, <1>1, <2>0 DEF CreateTeam, Distinct, IdsOf, SlugsOf
  <2>3. IdsGiven' BY <1>0, <1>1, <1>i, <2>0 DEF CreateTeam, IdsGiven
  <2> QED
    BY <1>0, <2>1, <2>2, <2>3
       DEF IInv, StoreIsSound, ObjectsFollowText, Distinct, SlosDistinct
<1>2. CASE UpdateTeam(n, slug)
  <2>1. IdsOf(teams') = IdsOf(teams) BY <1>2, IdsReplaced DEF UpdateTeam
  <2>2. ReferencesHold'
    <3>1. \A s \in services' : s.owner \in IdsOf(teams')
      BY <1>0, <2>1 DEF ReferencesHold
    <3>2. /\ \A o \in slos' : o.service \in IdsOf(services')
          /\ \A x \in objects' : x.slo \in IdsOf(slos')
      BY <1>0 DEF ReferencesHold
    <3> QED BY <3>1, <3>2 DEF ReferencesHold, IdsOf
  <2>3. Distinct(teams)' BY <1>0, <1>2 DEF UpdateTeam, Distinct, ById, SlugsOf
  <2>4. IdsGiven' BY <1>0, <1>2, <1>i DEF UpdateTeam, IdsGiven, IdsOf, ById
  <2> QED
    BY <1>0, <2>2, <2>3, <2>4
       DEF IInv, StoreIsSound, ObjectsFollowText, Distinct, SlosDistinct
<1> QED BY <1>1, <1>2

LEMMA DeleteTeamKeeps ==
  ASSUME IInv, TablesOK', NEW n, DeleteTeam(n)
  PROVE  IInv'
<1>0. /\ teams' = teams \ ById(teams, n) /\ Deletable(n)
      /\ UNCHANGED <<lastId, services, slos, objects>>
      /\ ReferencesHold /\ ObjectsFollowText /\ Distinct(teams) /\ Distinct(services)
      /\ IdsGiven /\ SlosDistinct
  BY DEF IInv, StoreIsSound, DeleteTeam
<1>1. ReferencesHold' BY <1>0 DEF Deletable, ReferencesHold, IdsOf, ById
<1>2. Distinct(teams)' BY <1>0 DEF Distinct, ById
<1>3. IdsGiven' BY <1>0 DEF IdsGiven, ById
<1> QED
  BY <1>0, <1>1, <1>2, <1>3
     DEF IInv, StoreIsSound, ObjectsFollowText, Distinct, SlosDistinct

LEMMA ServicesKept ==
  ASSUME IInv, TablesOK', NEW slug \in Slugs, NEW n \in Ids, NEW owner \in Ids,
         CreateService(slug, owner) \/ UpdateService(n, slug, owner)
  PROVE  IInv'
<1>0. /\ teams' = teams
      /\ ReferencesHold /\ ObjectsFollowText /\ Distinct(teams) /\ Distinct(services)
      /\ IdsGiven /\ SlosDistinct
  BY DEF IInv, StoreIsSound, CreateService, UpdateService
<1>i. /\ lastId \in Nat
      /\ \A r \in teams \cup services \cup slos : r.id \in Nat /\ r.id <= lastId
  BY BoundAssumption DEF IInv, TablesOK, IdsGiven, Team, Service, SLO, Ids
<1>1. CASE CreateService(slug, owner)
  <2>0. NewId \in Nat /\ lastId < NewId /\ NewId \notin IdsOf(services)
    BY <1>1, NewIdIsNew DEF CreateService
  <2>1. ReferencesHold' BY <1>0, <1>1 DEF CreateService, ReferencesHold, IdsOf
  <2>2. Distinct(services)'
    BY <1>0, <1>1, <2>0 DEF CreateService, Distinct, IdsOf, SlugsOf
  <2>3. IdsGiven' BY <1>0, <1>1, <1>i, <2>0 DEF CreateService, IdsGiven
  <2> QED
    BY <1>0, <1>1, <2>1, <2>2, <2>3
       DEF CreateService, IInv, StoreIsSound, ObjectsFollowText, Distinct, SlosDistinct
<1>2. CASE UpdateService(n, slug, owner)
  <2>1. IdsOf(services') = IdsOf(services) BY <1>2, IdsReplaced DEF UpdateService
  <2>2. ReferencesHold'
    <3>1. \A s \in services' : s.owner \in IdsOf(teams)
      BY <1>0, <1>2 DEF UpdateService, ReferencesHold
    <3>2. slos' = slos /\ objects' = objects BY <1>2 DEF UpdateService
    <3>3. /\ \A o \in slos' : o.service \in IdsOf(services')
          /\ \A x \in objects' : x.slo \in IdsOf(slos')
      BY <1>0, <2>1, <3>2 DEF ReferencesHold
    <3> QED BY <1>0, <3>1, <3>3 DEF ReferencesHold, IdsOf
  <2>3. Distinct(services)' BY <1>0, <1>2 DEF UpdateService, Distinct, ById, SlugsOf
  <2>4. IdsGiven' BY <1>0, <1>2, <1>i DEF UpdateService, IdsGiven, IdsOf, ById
  <2> QED
    BY <1>0, <1>2, <2>2, <2>3, <2>4
       DEF UpdateService, IInv, StoreIsSound, ObjectsFollowText, Distinct, SlosDistinct
<1> QED BY <1>1, <1>2

LEMMA DeleteServiceKeeps ==
  ASSUME IInv, TablesOK', NEW n, DeleteService(n)
  PROVE  IInv'
<1>0. /\ services' = services \ ById(services, n)
      /\ slos' = {o \in slos : o.service # n}
      /\ objects' = {x \in objects : \A o \in slos : o.id = x.slo => o.service # n}
      /\ teams' = teams /\ lastId' = lastId
      /\ ReferencesHold /\ ObjectsFollowText /\ Distinct(teams) /\ Distinct(services)
      /\ IdsGiven /\ SlosDistinct
  BY DEF IInv, StoreIsSound, DeleteService
<1>1. ReferencesHold' BY <1>0 DEF ReferencesHold, IdsOf, ById
<1>2. ObjectsFollowText'
  <2>1. ASSUME NEW o \in slos'
        PROVE  {x \in objects' : x.slo = o.id} = {x \in objects : x.slo = o.id}
    <3>1. \A q \in slos : q.id = o.id => q.service # n BY <1>0 DEF SlosDistinct
    <3> QED BY <1>0, <3>1
  <2> QED BY <1>0, <2>1 DEF ObjectsFollowText
<1>3. Distinct(services)' BY <1>0 DEF Distinct, ById
<1>4. IdsGiven' /\ SlosDistinct' BY <1>0 DEF IdsGiven, SlosDistinct, ById
<1> QED BY <1>0, <1>1, <1>2, <1>3, <1>4 DEF IInv, StoreIsSound, Distinct

\* The SLOs: what the objects of one are replaced by leaves the others alone.
LEMMA Replaced ==
  ASSUME NEW n, NEW openslo, ReplaceSLOOpenSLOObjectsTx(n, openslo)
  PROVE  /\ {x \in objects' : x.slo = n} = ObjectRows(n, openslo)
         /\ \A m : m # n => {x \in objects' : x.slo = m} = {x \in objects : x.slo = m}
         /\ \A x \in objects' : x \in objects \/ x.slo = n
BY DEF ReplaceSLOOpenSLOObjectsTx, ObjectRows

LEMMA CreateSLOKeeps ==
  ASSUME IInv, TablesOK', NEW n, NEW openslo, CreateSLO(n, openslo)
  PROVE  IInv'
<1>0. /\ teams' = teams /\ services' = services /\ lastId' = NewId
      /\ slos' = slos \cup {[id |-> NewId, service |-> n, openslo |-> openslo]}
      /\ n \in IdsOf(services)
      /\ ReplaceSLOOpenSLOObjectsTx(NewId, openslo)
      /\ ReferencesHold /\ ObjectsFollowText /\ Distinct(teams) /\ Distinct(services)
      /\ IdsGiven /\ SlosDistinct
  BY DEF IInv, StoreIsSound, CreateSLO
<1>i. /\ lastId \in Nat
      /\ \A r \in teams \cup services \cup slos : r.id \in Nat /\ r.id <= lastId
  BY BoundAssumption DEF IInv, TablesOK, IdsGiven, Team, Service, SLO, Ids
<1>1. NewId \in Nat /\ lastId < NewId /\ NewId \notin IdsOf(slos)
  BY NewIdIsNew DEF CreateSLO
<1>2. ReferencesHold'
  <2> DEFINE row == [id |-> NewId, service |-> n, openslo |-> openslo]
  <2>0. row.id = NewId OBVIOUS
  <2>r. slos' = slos \cup {row} BY <1>0
  <2> HIDE DEF row
  <2>1. NewId \in IdsOf(slos') /\ \A m \in IdsOf(slos) : m \in IdsOf(slos')
    BY <2>0, <2>r DEF IdsOf
  <2>2. \A x \in objects' : x.slo \in IdsOf(slos')
    BY <1>0, <2>1, Replaced DEF ReferencesHold
  <2>3. \A o \in slos' : o.service \in IdsOf(services') BY <1>0 DEF ReferencesHold
  <2>4. \A s \in services' : s.owner \in IdsOf(teams') BY <1>0 DEF ReferencesHold
  <2> QED BY <2>2, <2>3, <2>4 DEF ReferencesHold, IdsOf
<1>3. ObjectsFollowText'
  <2>1. ASSUME NEW o \in slos' PROVE {x \in objects' : x.slo = o.id} = ObjectRows(o.id, o.openslo)
    <3>1. CASE o \in slos
      <4>1. o.id # NewId BY <1>1, <3>1 DEF IdsOf
      <4> QED BY <1>0, <3>1, <4>1, Replaced DEF ObjectsFollowText
    <3>2. CASE o = [id |-> NewId, service |-> n, openslo |-> openslo]
      BY <1>0, <3>2, Replaced
    <3> QED BY <1>0, <3>1, <3>2
  <2> QED BY <2>1 DEF ObjectsFollowText, ObjectRows
<1>4. IdsGiven' BY <1>0, <1>i, <1>1 DEF IdsGiven
<1>5. SlosDistinct' BY <1>0, <1>1 DEF SlosDistinct, IdsOf
<1> QED BY <1>0, <1>2, <1>3, <1>4, <1>5 DEF IInv, StoreIsSound, Distinct

LEMMA EndUpdateSLOKeeps ==
  ASSUME IInv, TablesOK', NEW u \in updates, EndUpdateSLO(u)
  PROVE  IInv'
<1>0. /\ teams' = teams /\ services' = services /\ lastId' = lastId
      /\ ReferencesHold /\ ObjectsFollowText /\ Distinct(teams) /\ Distinct(services)
      /\ IdsGiven /\ SlosDistinct
  BY DEF IInv, StoreIsSound, EndUpdateSLO
<1>i. lastId \in Nat BY BoundAssumption DEF IInv, TablesOK
<1>1. CASE UNCHANGED <<slos, objects>>
  BY <1>0, <1>1, <1>i, RowsUntouched
<1>2. CASE /\ u.slo \in IdsOf(slos)
           /\ slos' = {IF o.id = u.slo THEN [o EXCEPT !.openslo = u.openslo] ELSE o :
                          o \in slos}
           /\ ReplaceSLOOpenSLOObjectsTx(u.slo, u.openslo)
  <2>1. slos \subseteq [id : Ids, service : Ids, openslo : Texts]
    BY DEF IInv, TablesOK, SLO
  <2>2. ASSUME NEW q \in slos'
        PROVE  \E o \in slos : /\ q.id = o.id /\ q.service = o.service
                               /\ o.id = u.slo => q.openslo = u.openslo
                               /\ o.id # u.slo => q = o
                               /\ q = IF o.id = u.slo THEN [o EXCEPT !.openslo = u.openslo] ELSE o
    <3>1. PICK o \in slos : q = IF o.id = u.slo THEN [o EXCEPT !.openslo = u.openslo] ELSE o
      BY <1>2
    <3> QED BY <2>1, <3>1
  <2>3. IdsOf(slos') = IdsOf(slos)
    <3>1. \A o \in slos : \E q \in slos' : q.id = o.id
      <4>1. TAKE o \in slos
      <4>2. (IF o.id = u.slo THEN [o EXCEPT !.openslo = u.openslo] ELSE o).id = o.id
        BY <2>1
      <4> QED BY <1>2, <4>2
    <3> QED BY <2>2, <3>1 DEF IdsOf
  <2>4. ReferencesHold'
    <3>1. \A q \in slos' : q.service \in IdsOf(services') BY <1>0, <2>2 DEF ReferencesHold
    <3>2. \A x \in objects' : x.slo \in IdsOf(slos')
      BY <1>0, <1>2, <2>3, Replaced DEF ReferencesHold
    <3>3. \A s \in services' : s.owner \in IdsOf(teams') BY <1>0 DEF ReferencesHold
    <3> QED BY <3>1, <3>2, <3>3 DEF ReferencesHold, IdsOf
  <2>5. ObjectsFollowText'
    <3>1. ASSUME NEW q \in slos'
          PROVE  {x \in objects' : x.slo = q.id} = ObjectRows(q.id, q.openslo)
      <4>1. PICK o \in slos : /\ q.id = o.id /\ q.service = o.service
                              /\ o.id = u.slo => q.openslo = u.openslo
                              /\ o.id # u.slo => q = o
        BY <2>2
      <4>2. CASE o.id = u.slo BY <1>2, <4>1, <4>2, Replaced
      <4>3. CASE o.id # u.slo BY <1>0, <1>2, <4>1, <4>3, Replaced DEF ObjectsFollowText
      <4> QED BY <4>2, <4>3
    <3> QED BY <3>1 DEF ObjectsFollowText, ObjectRows
  <2>6. SlosDistinct' BY <1>0, <2>2 DEF SlosDistinct
  <2>7. IdsGiven' BY <1>0, <2>2 DEF IdsGiven
  <2> QED BY <1>0, <2>4, <2>5, <2>6, <2>7 DEF IInv, StoreIsSound, Distinct
<1> QED BY <1>1, <1>2 DEF EndUpdateSLO

LEMMA DeleteSLOKeeps ==
  ASSUME IInv, TablesOK', NEW n, DeleteSLO(n)
  PROVE  IInv'
<1>0. /\ teams' = teams /\ services' = services /\ lastId' = lastId
      /\ slos' = slos \ ById(slos, n) /\ objects' = {x \in objects : x.slo # n}
      /\ ReferencesHold /\ ObjectsFollowText /\ Distinct(teams) /\ Distinct(services)
      /\ IdsGiven /\ SlosDistinct
  BY DEF IInv, StoreIsSound, DeleteSLO
<1>1. ReferencesHold' BY <1>0 DEF ReferencesHold, IdsOf, ById
<1>2. ObjectsFollowText'
  <2>1. ASSUME NEW o \in slos'
        PROVE  {x \in objects' : x.slo = o.id} = {x \in objects : x.slo = o.id}
    BY <1>0 DEF ById
  <2> QED BY <1>0, <2>1 DEF ObjectsFollowText
<1>3. SlosDistinct' /\ IdsGiven' BY <1>0 DEF SlosDistinct, IdsGiven
<1> QED BY <1>0, <1>1, <1>2, <1>3 DEF IInv, StoreIsSound, Distinct

-----------------------------------------------------------------------------
(* Every call keeps the invariant.                                         *)

LEMMA StepIInv == IInv /\ [StoreNext]_store => IInv'
<1> SUFFICES ASSUME IInv, [StoreNext]_store PROVE IInv'
  OBVIOUS
<1>t. TablesOK' BY TypesKept DEF IInv
<1>l. lastId \in Nat BY BoundAssumption DEF IInv, TablesOK
<1>1. ASSUME NEW slug \in Slugs, CreateTeam(slug) PROVE IInv'
  <2>1. NewId \in Ids BY <1>1, NewIdTyped DEF CreateTeam, IInv
  <2> QED BY <1>t, <1>1, <2>1, TeamsKept
<1>2. ASSUME NEW slug \in Slugs, NEW n \in Ids, UpdateTeam(n, slug) PROVE IInv'
  BY <1>t, <1>2, TeamsKept
<1>3. ASSUME NEW slug \in Slugs, NEW owner \in Ids, CreateService(slug, owner)
      PROVE  IInv'
  BY <1>t, <1>3, ServicesKept
<1>4. ASSUME NEW slug \in Slugs, NEW n \in Ids, NEW owner \in Ids,
             UpdateService(n, slug, owner)
      PROVE  IInv'
  BY <1>t, <1>4, ServicesKept
<1>5. ASSUME NEW n \in Ids, DeleteTeam(n) PROVE IInv'
  BY <1>t, <1>5, DeleteTeamKeeps
<1>6. ASSUME NEW n \in Ids, DeleteService(n) PROVE IInv'
  BY <1>t, <1>6, DeleteServiceKeeps
<1>7. ASSUME NEW n \in Ids, DeleteSLO(n) PROVE IInv'
  BY <1>t, <1>7, DeleteSLOKeeps
<1>8. ASSUME NEW n \in Ids, NEW openslo \in Texts \cup Malformed, CreateSLO(n, openslo)
      PROVE  IInv'
  BY <1>t, <1>8, CreateSLOKeeps
<1>9. ASSUME NEW n \in Ids, NEW openslo \in Texts \cup Malformed,
             BeginUpdateSLO(n, openslo)
      PROVE  IInv'
  BY <1>t, <1>l, <1>9, RowsUntouched DEF BeginUpdateSLO
<1>10. ASSUME NEW u \in updates, EndUpdateSLO(u) PROVE IInv'
  BY <1>t, <1>10, EndUpdateSLOKeeps
<1>11. ASSUME NEW n \in Ids, NEW type \in BurnTypes, NEW severity \in Severities,
              InsertBurnEventView(n, type, severity)
       PROVE  IInv'
  BY <1>t, <1>l, <1>11, RowsUntouched DEF InsertBurnEventView, NewId
<1>12. CASE UNCHANGED store
  BY <1>t, <1>l, <1>12, RowsUntouched DEF store
<1> QED
  BY <1>1, <1>2, <1>3, <1>4, <1>5, <1>6, <1>7, <1>8, <1>9, <1>10, <1>11, <1>12
     DEF StoreNext

\* The types of the tables.
THEOREM TablesTyped == StoreSpec => []TablesOK
<1>1. IInv => TablesOK BY DEF IInv
<1> QED BY InitIInv, StepIInv, <1>1, PTL DEF StoreSpec

\* Whichever calls race, no row refers to one that is gone (store.go:136
\* against :161), and the objects of an SLO are those of its text
\* (server.go:299-354).
THEOREM StoreSound == StoreSpec => []StoreIsSound
<1>1. IInv => StoreIsSound BY DEF IInv
<1> QED BY InitIInv, StepIInv, <1>1, PTL DEF StoreSpec
=============================================================================
