---------------------------- MODULE ControlPlane ----------------------------
(***************************************************************************)
(* The tables that people write through the HTTP API of the control plane: *)
(* teams, the services they own, the SLOs of a service with the objects of *)
(* their OpenSLO text, and the burn events the outbox worker delivers.     *)
(*                                                                         *)
(* A statement, and a transaction whose statements lock what they wrote,   *)
(* is one step: the foreign keys make an insert lock the row it refers to, *)
(* and a delete of that row wait for it.  UpdateSLO reads outside of its   *)
(* transaction, so it takes two steps.  Rows are created with growing ids, *)
(* which also stand for created_at and observed_at: two that are created   *)
(* at once may be listed in either order, and are numbered as listed.      *)
(***************************************************************************)
EXTENDS Naturals, FiniteSets

CONSTANTS
  Slugs,       \* slugs of teams and services
  Texts,       \* OpenSLO documents that parse
  Malformed,   \* those that do not
  ObjectsIn,   \* the OpenSLO objects each text that parses consists of
  BurnTypes,   \* types of burn events
  Severities,  \* what the source of a burn event ends with
  MaxId,       \* bound: rows created
  MaxUpdates   \* bound: updates of SLOs under way

ASSUME BoundAssumption == MaxId \in Nat

VARIABLES
  lastId,    \* the id of the row created last
  teams,     \* rows of teams
  services,  \* rows of services
  slos,      \* rows of slos
  objects,   \* rows of slo_openslo_objects
  events,    \* rows of burn_events_view
  updates    \* UpdateSLO handlers that have read their SLO

store == <<lastId, teams, services, slos, objects, events, updates>>

Ids     == 1 .. MaxId
Team    == [id : Ids, slug : Slugs]
Service == [id : Ids, slug : Slugs, owner : Ids]
SLO     == [id : Ids, service : Ids, openslo : Texts]
Burn    == [id : Ids, slo : Ids, type : BurnTypes, severity : Severities]

IdsOf(rows)   == {r.id : r \in rows}
SlugsOf(rows) == {r.slug : r \in rows}
ById(rows, n) == {r \in rows : r.id = n}

CanCreate == lastId < MaxId
NewId == lastId + 1

-----------------------------------------------------------------------------
(* Teams.                                                                  *)

\* slug is UNIQUE; a second team of the same slug is refused.
CreateTeam(slug) ==
  /\ CanCreate
  /\ slug \notin SlugsOf(teams)
  /\ lastId' = NewId
  /\ teams' = teams \cup {[id |-> NewId, slug |-> slug]}
  /\ UNCHANGED <<services, slos, objects, events, updates>>

UpdateTeam(n, slug) ==
  /\ n \in IdsOf(teams)
  /\ slug \notin SlugsOf(teams \ ById(teams, n))
  /\ teams' = (teams \ ById(teams, n)) \cup {[id |-> n, slug |-> slug]}
  /\ UNCHANGED <<lastId, services, slos, objects, events, updates>>

\* Mutant of Deletable: services.owner_team_id is not RESTRICT.
DeletableAlways(n) == TRUE

\* ON DELETE RESTRICT: a team that owns a service stays.
Deletable(n) == \A s \in services : s.owner # n

DeleteTeam(n) ==
  /\ n \in IdsOf(teams)
  /\ Deletable(n)
  /\ teams' = teams \ ById(teams, n)
  /\ UNCHANGED <<lastId, services, slos, objects, events, updates>>

-----------------------------------------------------------------------------
(* Services.                                                               *)

CreateService(slug, owner) ==
  /\ CanCreate
  /\ slug \notin SlugsOf(services)
  /\ owner \in IdsOf(teams)
  /\ lastId' = NewId
  /\ services' = services \cup {[id |-> NewId, slug |-> slug, owner |-> owner]}
  /\ UNCHANGED <<teams, slos, objects, events, updates>>

UpdateService(n, slug, owner) ==
  /\ n \in IdsOf(services)
  /\ slug \notin SlugsOf(services \ ById(services, n))
  /\ owner \in IdsOf(teams)
  /\ services' = (services \ ById(services, n))
                   \cup {[id |-> n, slug |-> slug, owner |-> owner]}
  /\ UNCHANGED <<lastId, teams, slos, objects, events, updates>>

\* ON DELETE CASCADE: its SLOs go with it, and their objects with them.  Burn
\* events refer to nothing and stay.
DeleteService(n) ==
  /\ n \in IdsOf(services)
  /\ services' = services \ ById(services, n)
  /\ slos' = {o \in slos : o.service # n}
  /\ objects' = {x \in objects : \A o \in slos : o.id = x.slo => o.service # n}
  /\ UNCHANGED <<lastId, teams, events, updates>>

-----------------------------------------------------------------------------
(* SLOs.                                                                   *)

\* The rows of slo_openslo_objects that stand for a text.
ObjectRows(n, openslo) == [slo : {n}, object : ObjectsIn[openslo]]

\* The objects of an SLO are deleted and those of its new text inserted.
ReplaceSLOOpenSLOObjectsTx(n, openslo) ==
  objects' = {x \in objects : x.slo # n} \cup ObjectRows(n, openslo)

\* The SLO and its objects are committed together.  A text that does not parse
\* and a service that does not exist are refused.
CreateSLO(service, openslo) ==
  /\ CanCreate
  /\ openslo \in Texts
  /\ service \in IdsOf(services)
  /\ lastId' = NewId
  /\ slos' = slos \cup {[id |-> NewId, service |-> service, openslo |-> openslo]}
  /\ ReplaceSLOOpenSLOObjectsTx(NewId, openslo)
  /\ UNCHANGED <<teams, services, events, updates>>

\* UpdateSLO parses the text and reads the SLO, with a connection of its own.
BeginUpdateSLO(n, openslo) ==
  /\ Cardinality(updates) < MaxUpdates
  /\ openslo \in Texts
  /\ n \in IdsOf(slos)
  /\ updates' = updates \cup {[slo |-> n, openslo |-> openslo]}
  /\ UNCHANGED <<lastId, teams, services, slos, objects, events>>

\* The transaction then writes every column but service_id from the text: what
\* was read is used for nothing but the id.  The SLO may be gone by then, and
\* the transaction rolled back.
EndUpdateSLO(u) ==
  /\ u \in updates
  /\ updates' = updates \ {u}
  /\ \/ /\ u.slo \in IdsOf(slos)
        /\ slos' = {IF o.id = u.slo THEN [o EXCEPT !.openslo = u.openslo] ELSE o :
                      o \in slos}
        /\ ReplaceSLOOpenSLOObjectsTx(u.slo, u.openslo)
     \/ UNCHANGED <<slos, objects>>
  /\ UNCHANGED <<lastId, teams, services, events>>

DeleteSLO(n) ==
  /\ n \in IdsOf(slos)
  /\ slos' = slos \ ById(slos, n)
  /\ objects' = {x \in objects : x.slo # n}
  /\ UNCHANGED <<lastId, teams, services, events, updates>>

-----------------------------------------------------------------------------
(* Burn events, and the lists.                                             *)

\* The outbox worker delivers an event, of an SLO that may be gone by now.
InsertBurnEventView(n, type, severity) ==
  /\ CanCreate
  /\ n <= lastId /\ n \notin IdsOf(teams) \cup IdsOf(services) \cup IdsOf(events)
  /\ lastId' = NewId
  /\ events' = events
       \cup {[id |-> NewId, slo |-> n, type |-> type, severity |-> severity]}
  /\ UNCHANGED <<teams, services, slos, objects, updates>>

\* Mutants of Newest: ascending order; no limit.
Oldest(rows, n)    == {r \in rows : Cardinality({q \in rows : q.id < r.id}) < n}
Unlimited(rows, n) == rows

\* ORDER BY created_at DESC, observed_at DESC of the events; LIMIT.
Newest(rows, n) == {r \in rows : Cardinality({q \in rows : q.id > r.id}) < n}

-----------------------------------------------------------------------------

StoreInit ==
  /\ lastId = 0
  /\ teams = {} /\ services = {} /\ slos = {} /\ objects = {} /\ events = {}
  /\ updates = {}

StoreNext ==
  \/ \E slug \in Slugs :
       \/ CreateTeam(slug)
       \/ \E n \in Ids : UpdateTeam(n, slug)
       \/ \E owner \in Ids : CreateService(slug, owner)
       \/ \E n, owner \in Ids : UpdateService(n, slug, owner)
  \/ \E n \in Ids : DeleteTeam(n) \/ DeleteService(n) \/ DeleteSLO(n)
  \/ \E n \in Ids, openslo \in Texts \cup Malformed :
       CreateSLO(n, openslo) \/ BeginUpdateSLO(n, openslo)
  \/ \E u \in updates : EndUpdateSLO(u)
  \/ \E n \in Ids, type \in BurnTypes, severity \in Severities :
       InsertBurnEventView(n, type, severity)

StoreSpec == StoreInit /\ [][StoreNext]_store

-----------------------------------------------------------------------------
(* Properties.                                                             *)

TablesOK ==
  /\ lastId \in 0 .. MaxId
  /\ teams \subseteq Team /\ services \subseteq Service /\ slos \subseteq SLO
  /\ objects \subseteq UNION {ObjectRows(n, openslo) : n \in Ids, openslo \in Texts}
  /\ events \subseteq Burn
  /\ updates \subseteq [slo : Ids, openslo : Texts]

\* No row refers to one that is gone, whichever calls race (store.go:136
\* against :161): a service has its owner, an SLO its service, an object its
\* SLO.
ReferencesHold ==
  /\ \A s \in services : s.owner \in IdsOf(teams)
  /\ \A o \in slos : o.service \in IdsOf(services)
  /\ \A x \in objects : x.slo \in IdsOf(slos)

\* The objects of an SLO are those of its text (server.go:299-354), also when
\* two updates of it, or an update and its deletion, overlap.
ObjectsFollowText ==
  \A o \in slos : {x \in objects : x.slo = o.id} = ObjectRows(o.id, o.openslo)

Distinct(rows) ==
  \A r, q \in rows : r.id = q.id \/ r.slug = q.slug => r = q

\* What the tables promise: references, unique slugs, and objects that follow
\* the texts.
StoreIsSound ==
  /\ ReferencesHold
  /\ ObjectsFollowText
  /\ Distinct(teams) /\ Distinct(services)
=============================================================================
