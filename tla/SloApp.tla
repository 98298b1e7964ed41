------------------------------- MODULE SloApp -------------------------------
(***************************************************************************)
(* The SLO application over the control plane: a person fills the form on  *)
(* Operations, the server creates what was asked for while other clients   *)
(* change the tables, and every created row is followed by a refresh of    *)
(* the four lists the pages are built from.                                *)
(*                                                                         *)
(* The lists of a refresh are read by four calls, each at a moment of its  *)
(* own, and refreshes overlap.  What a refresh sets is rendered later      *)
(* (`queued'), and the effect that depends on the lists runs later still.  *)
(* A render with another scene mounts its pages anew.                      *)
(***************************************************************************)
EXTENDS ControlPlane, SloPages

CONSTANTS
  PageSize,      \* rows of the first page of a list
  Runtime,       \* what a text says: its type, threshold and target
  Measured,      \* metrics by minute, for the properties
  Stores,        \* what the tables hold when a person comes, and how often
                 \* others have changed them so far
  MaxChanges,    \* bound: changes by other clients and by the outbox worker
  MaxRefreshes,  \* bound: refreshes under way
  MaxPosts       \* bound: answers to creations under way

VARIABLES
  lists,        \* the lists that are rendered
  scene,        \* the scene that is rendered
  queued,       \* set, and rendered next: [lists, scene, fresh]
  effect,       \* the effect on the rendered lists has yet to run
  definitions,  \* SLO_DEFINITIONS
  refreshes,    \* refreshes under way: [for, got]
  posts,        \* the rows created whose answers are under way
  changes       \* how often others changed the tables

app  == <<lists, scene, queued, effect, definitions, refreshes, posts>>
vars == <<store, app, changes>>

Names   == {"teams", "services", "slos", "events"}
NoLists == [name \in Names |-> {}]
Table   == [teams |-> teams, services |-> services, slos |-> slos, events |-> events]

\* The types of what a refresh reads and sets.
DefinitionIds == Ids \cup {DefaultIds[i] : i \in 1 .. 7}
Definition ==
  [ id : DefinitionIds, type : {"latency"}, target : 0 .. 1000,
    thresholdMs : Nat, thresholdRate : {Null} ]
    \cup [ id : DefinitionIds, type : {"error_rate"}, target : 0 .. 1000,
           thresholdMs : {Null}, thresholdRate : Nat ]
Lists ==
  [ teams : SUBSET Team, services : SUBSET Service, slos : SUBSET SLO,
    events : SUBSET Burn ]
Scenes ==
  [ teams : SUBSET Team, services : SUBSET Service, slos : SUBSET SLO,
    events : SUBSET Burn, definitions : SUBSET Definition ]
Queue == [lists : Lists, scene : Scenes, fresh : BOOLEAN]
Answers ==
  [ teams : (SUBSET Team) \cup {Null}, services : (SUBSET Service) \cup {Null},
    slos : (SUBSET SLO) \cup {Null}, events : (SUBSET Burn) \cup {Null} ]
Refreshes == [for : Ids \cup {Null}, got : Answers]

ASSUME NullAssumption == Null \notin Ids /\ Null \notin Queue
ASSUME PageAssumption == PageSize \in Nat

\* A text that parses has a target between 0 and 1 (parser.go:159).
ASSUME RuntimeAssumption ==
  Runtime \in [Texts -> [ type : {"latency", "error_rate"}, threshold : Nat,
                         target : 0 .. 1000 ]]
ASSUME MeasuredAssumption == Measured \subseteq Seq(Nat)

\* Every row has an id of its own, and one that was given.
Numbered(rows, last) ==
  /\ \A r \in rows : r.id <= last
  /\ \A r, q \in rows : r.id = q.id => r = q

\* What a person finds is what the calls of the control plane lead to.
ASSUME StoresAssumption ==
  \A st \in Stores :
    /\ st.lastId \in 0 .. MaxId
    /\ st.teams \subseteq Team /\ st.services \subseteq Service
    /\ st.slos \subseteq SLO /\ st.events \subseteq Burn
    /\ \A s \in st.services : s.owner \in IdsOf(st.teams)
    /\ \A o \in st.slos : o.service \in IdsOf(st.services)
    /\ st.objects = UNION {ObjectRows(o.id, o.openslo) : o \in st.slos}
    /\ Distinct(st.teams) /\ Distinct(st.services)
    /\ \A rows \in {st.teams, st.services, st.slos, st.events} :
         Numbered(rows, st.lastId)

-----------------------------------------------------------------------------
(* Refreshes.                                                              *)

Refresh(for) == [for |-> for, got |-> [name \in Names |-> Null]]

BeginRefresh(for) == refreshes' = refreshes \cup {Refresh(for)}

\* A call is answered with the first page, as the table is at that moment.
Answer(r, name) ==
  /\ r \in refreshes
  /\ r.got[name] = Null
  /\ refreshes' = (refreshes \ {r})
       \cup {[r EXCEPT !.got[name] = Newest(Table[name], PageSize)]}
  /\ UNCHANGED <<store, changes, lists, scene, queued, effect, definitions, posts>>

\* One call that fails fails the refresh: nothing is set.
FailRefresh(r) ==
  /\ r \in refreshes
  /\ refreshes' = refreshes \ {r}
  /\ UNCHANGED <<store, changes, lists, scene, queued, effect, definitions, posts>>

mapSLOToDefinition(o) ==
  LET runtime == Runtime[o.openslo]
  IN  IF runtime.type = "error_rate"
      THEN ErrorRateDefinition(o.id, runtime.threshold, runtime.target)
      ELSE LatencyDefinition(o.id, runtime.threshold, runtime.target)

DefinitionsOf(rows) == {mapSLOToDefinition(o) : o \in rows}

\* Mutant of Finish: the scene is built before the definitions are set.
FinishSwapped(r) ==
  /\ r \in refreshes
  /\ \A name \in Names : r.got[name] # Null
  /\ refreshes' = refreshes \ {r}
  /\ definitions' = DefinitionsOf(r.got.slos)
  /\ queued' = [lists |-> r.got, scene |-> Scene(r.got, definitions), fresh |-> TRUE]
  /\ UNCHANGED <<store, changes, lists, scene, effect, posts>>

\* All four are there: the definitions are set, then the scene is built.
Finish(r) ==
  /\ r \in refreshes
  /\ \A name \in Names : r.got[name] # Null
  /\ refreshes' = refreshes \ {r}
  /\ definitions' = DefinitionsOf(r.got.slos)
  /\ queued' = [lists |-> r.got, scene |-> Scene(r.got, definitions'), fresh |-> TRUE]
  /\ UNCHANGED <<store, changes, lists, scene, effect, posts>>

-----------------------------------------------------------------------------
(* Rendering.                                                              *)

\* The effects of a render run before the next one.
Render ==
  /\ queued # Null /\ ~effect
  /\ lists' = queued.lists
  /\ scene' = queued.scene
  /\ effect' = queued.fresh
  /\ queued' = Null
  /\ UNCHANGED <<store, changes, definitions, refreshes, posts>>

\* The effect builds the scene from the lists of its render and from the
\* definitions of now, in place of one that a refresh has set meanwhile.
RunEffect ==
  /\ effect
  /\ effect' = FALSE
  /\ LET built == Scene(lists, definitions)
     IN  queued' = IF queued = Null
                     THEN [lists |-> lists, scene |-> built, fresh |-> FALSE]
                     ELSE [queued EXCEPT !.scene = built]
  /\ UNCHANGED <<store, changes, lists, scene, definitions, refreshes, posts>>

-----------------------------------------------------------------------------
(* The form.  A render empties it, so what is chosen when it is submitted *)
(* was chosen from the rendered scene: any team, any of its services.      *)

teamOptions == IdsOf(scene.teams)

\* With a team chosen its services are offered, without one all of them; the
\* choice of another team takes back that of a service.
serviceOptions(team) ==
  IdsOf({s \in scene.services : team # Null => s.owner = team})

\* The fields go into the text as they were typed: it may not parse.
Generated == Texts \cup Malformed

\* Names and slugs are typed in freely.  The server creates the row, or
\* refuses; a request that is refused, or lost on its way, changes nothing.
AskForTeam    == \E slug \in Slugs : CreateTeam(slug)
AskForService == \E slug \in Slugs, owner \in teamOptions : CreateService(slug, owner)
AskForSLO ==
  \E team \in teamOptions \cup {Null} :
    \E service \in serviceOptions(team), openslo \in Generated :
      CreateSLO(service, openslo)

\* The button is never disabled: what is not answered yet can be asked again.
onCreate ==
  /\ Cardinality(posts) < MaxPosts
  /\ AskForTeam \/ AskForService \/ AskForSLO
  /\ posts' = posts \cup {lastId'}
  /\ UNCHANGED <<changes, lists, scene, queued, effect, definitions, refreshes>>

\* The answer is there: onCreate goes on and refreshes.
Reply(n) ==
  /\ n \in posts
  /\ Cardinality(refreshes) < MaxRefreshes
  /\ posts' = posts \ {n}
  /\ BeginRefresh(n)
  /\ UNCHANGED <<store, changes, lists, scene, queued, effect, definitions>>

\* The answer is lost: the row is there, but nothing refreshes.
Lose(n) ==
  /\ n \in posts
  /\ posts' = posts \ {n}
  /\ UNCHANGED <<store, changes, lists, scene, queued, effect, definitions, refreshes>>

-----------------------------------------------------------------------------

\* The application was opened, its first effects have run and refresh.
Init ==
  /\ \E st \in Stores :
       /\ lastId = st.lastId /\ teams = st.teams /\ services = st.services
       /\ slos = st.slos /\ objects = st.objects /\ events = st.events
       /\ changes = st.changes
  /\ updates = {}
  /\ lists = NoLists
  /\ definitions = Defaults
  /\ scene = Scene(NoLists, Defaults)
  /\ queued = Null /\ effect = FALSE
  /\ refreshes = {Refresh(Null)}
  /\ posts = {}

Refreshing ==
  \E r \in refreshes : FailRefresh(r) \/ Finish(r) \/ \E name \in Names : Answer(r, name)

Creating == onCreate \/ \E n \in posts : Reply(n) \/ Lose(n)

Others ==
  /\ UNCHANGED app
  /\ \/ changes < MaxChanges /\ changes' = changes + 1 /\ StoreNext
     \/ UNCHANGED changes /\ \E u \in updates : EndUpdateSLO(u)

Next == Refreshing \/ Render \/ RunEffect \/ Creating \/ Others

Spec == Init /\ [][Next]_vars

-----------------------------------------------------------------------------
(* Properties.                                                             *)

FitPages(ls) == \A name \in Names : Cardinality(ls[name]) <= PageSize

\* The types; what is rendered and queued are pages of the lists.
TypeOK ==
  /\ TablesOK
  /\ effect \in BOOLEAN
  /\ lists \in Lists /\ scene \in Scenes /\ queued \in Queue \cup {Null}
  /\ FitPages(lists) /\ FitPages(scene)
  /\ queued # Null => FitPages(queued.lists) /\ FitPages(queued.scene)
  /\ definitions \subseteq Definition
  /\ refreshes \subseteq Refreshes
  /\ posts \subseteq Ids

\* Once the pages show the lists, they agree: every button leads to a page,
\* two pages say the same of a team or a service, the colours of a drilldown
\* agree (App.tsx:98-139: definitions are a global that getSceneApp reads, lists are
\* read one by one, refreshes overlap, and the scene is built twice).
PagesAgree ==
  scene = Scene(lists, scene.definitions) =>
    /\ LinksLead(scene)
    /\ RisksAgree(scene)
    /\ ColoursAgree(scene, Measured)

\* The refresh that follows a creation shows the created row, as long as it is
\* stored and fits a page, although another row was created between the two or
\* while it read (App.tsx:98, CreateEntityPanel.tsx:92).
CreatedIsShown ==
  [][\A r \in refreshes, name \in Names :
       Finish(r) /\ r.for \in IdsOf(Table[name]) /\ lastId - r.for < PageSize
         => r.for \in IdsOf(queued'.lists[name])]_vars
=============================================================================
