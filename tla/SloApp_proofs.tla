---------------------------- MODULE SloApp_proofs ----------------------------
(***************************************************************************)
(* The SLO application over the control plane, for every size of a page,   *)
(* every number of rows, refreshes and creations, and every other client.  *)
(*                                                                         *)
(* The application uses the tables as any client does, so what they        *)
(* promise carries over.  What the pages show follows from what a refresh  *)
(* under way already knows: pages of the tables as they were, each of rows *)
(* with ids of their own, and among them the row it was begun for.         *)
(***************************************************************************)
EXTENDS SloApp, ControlPlane_proofs, FiniteSums, FiniteSetTheorems

-----------------------------------------------------------------------------
(* The inductive invariant.                                                *)

UniqueIds(rows) == \A r, q \in rows : r.id = q.id => r = q

PagesUnique(ls) == \A name \in Names : UniqueIds(ls[name])

\* Every table has rows with ids of their own.
TablesNumbered == \A name \in Names : Numbered(Table[name], lastId)

\* What a refresh has read so far.
RefreshKnows(r) ==
  /\ r.for # Null => r.for <= lastId
  /\ \A name \in Names : r.got[name] # Null =>
       /\ Cardinality(r.got[name]) <= PageSize
       /\ UniqueIds(r.got[name])
       /\ r.for \in IdsOf(Table[name]) /\ lastId - r.for < PageSize
            => r.for \in IdsOf(r.got[name])

\* An SLO of a list has a definition.
Covers(defs, rows) == \A o \in rows : \E d \in defs : d.id = o.id

Latest == IF queued = Null THEN lists ELSE queued.lists

\* The definitions are those of the lists set last.  A scene built from other
\* lists than are rendered with it may miss some.
DefinitionsFollow ==
  /\ Covers(definitions, Latest.slos)
  /\ scene.slos = lists.slos => Covers(scene.definitions, scene.slos)
  /\ queued # Null =>
       (queued.scene.slos = queued.lists.slos
          => Covers(queued.scene.definitions, queued.scene.slos))

AppInv ==
  /\ TypeOK
  /\ IInv
  /\ TablesNumbered
  /\ \A r \in refreshes : RefreshKnows(r)
  /\ \A n \in posts : n <= lastId
  /\ PagesUnique(lists) /\ PagesUnique(scene)
  /\ queued # Null => PagesUnique(queued.lists) /\ PagesUnique(queued.scene)
  /\ DefinitionsFollow

-----------------------------------------------------------------------------
(* The tables: every step of the application is a call any client can make *)
(* or leaves the tables alone.                                             *)

\* The owner and the service of a creation are ids whatever the person chose.
LEMMA CreationIsCall ==
  ASSUME TablesOK, AskForTeam \/ AskForService \/ AskForSLO
  PROVE  StoreNext
<1>1. CASE AskForTeam
  BY <1>1 DEF AskForTeam, StoreNext
<1>2. CASE AskForService
  <2>1. PICK slug \in Slugs, owner \in teamOptions : CreateService(slug, owner)
    BY <1>2 DEF AskForService
  <2>2. owner \in Ids
    BY <2>1 DEF CreateService, IdsOf, TablesOK, Team
  <2> QED
    BY <2>1, <2>2 DEF StoreNext
<1>3. CASE AskForSLO
  <2>1. PICK team \in teamOptions \cup {Null} :
          \E service \in serviceOptions(team), openslo \in Generated :
            CreateSLO(service, openslo)
    BY <1>3 DEF AskForSLO
  <2>2. PICK service \in serviceOptions(team), openslo \in Generated :
          CreateSLO(service, openslo)
    BY <2>1
  <2>3. service \in Ids
    BY <2>2 DEF CreateSLO, IdsOf, TablesOK, Service
  <2> QED
    BY <2>2, <2>3 DEF StoreNext, Generated
<1> QED
  BY <1>1, <1>2, <1>3

LEMMA StepIsCall ==
  ASSUME TablesOK, [Next]_vars
  PROVE  [StoreNext]_store
<1>1. CASE Refreshing
  BY <1>1 DEF Refreshing, FailRefresh, Finish, Answer
<1>2. CASE Render \/ RunEffect
  BY <1>2 DEF Render, RunEffect
<1>3. CASE onCreate
  BY <1>3, CreationIsCall DEF onCreate
<1>4. ASSUME NEW n \in posts, Reply(n) \/ Lose(n) PROVE UNCHANGED store
  BY <1>4 DEF Reply, Lose
<1>5. CASE Others
  BY <1>5 DEF Others, StoreNext
<1>6. CASE UNCHANGED vars
  BY <1>6 DEF vars
<1> QED
  BY <1>1, <1>2, <1>3, <1>4, <1>5, <1>6 DEF Next, Creating

\* What a person finds is sound.
LEMMA FoundIsSound == Init => IInv /\ TablesNumbered
<1> SUFFICES ASSUME Init PROVE IInv /\ TablesNumbered
  OBVIOUS
<1>1. PICK st \in Stores :
        /\ lastId = st.lastId /\ teams = st.teams /\ services = st.services
        /\ slos = st.slos /\ objects = st.objects /\ events = st.events
  BY DEF Init
<1>2. /\ lastId \in 0 .. MaxId
      /\ teams \subseteq Team /\ services \subseteq Service
      /\ slos \subseteq SLO /\ events \subseteq Burn
      /\ \A s \in services : s.owner \in IdsOf(teams)
      /\ \A o \in slos : o.service \in IdsOf(services)
      /\ objects = UNION {ObjectRows(o.id, o.openslo) : o \in slos}
      /\ Distinct(teams) /\ Distinct(services)
      /\ Numbered(teams, lastId) /\ Numbered(services, lastId)
      /\ Numbered(slos, lastId) /\ Numbered(events, lastId)
  BY <1>1, StoresAssumption
<1>3. updates = {}
  BY DEF Init
<1>4. \A o \in slos : o.id \in Ids /\ o.openslo \in Texts
  BY <1>2 DEF SLO
<1>5. objects \subseteq UNION {ObjectRows(n, openslo) : n \in Ids, openslo \in Texts}
  BY <1>2, <1>4
<1>6. TablesOK
  BY <1>2, <1>3, <1>5 DEF TablesOK
<1>7. \A x \in objects : \E o \in slos : x \in ObjectRows(o.id, o.openslo) /\ x.slo = o.id
  BY <1>2 DEF ObjectRows
<1>8. ReferencesHold
  <2>1. \A x \in objects : x.slo \in IdsOf(slos)
    BY <1>7 DEF IdsOf
  <2> QED
    BY <1>2, <2>1 DEF ReferencesHold
<1>9. ObjectsFollowText
  <2> SUFFICES ASSUME NEW o \in slos
               PROVE  {x \in objects : x.slo = o.id} = ObjectRows(o.id, o.openslo)
    BY DEF ObjectsFollowText
  <2>1. \A x \in ObjectRows(o.id, o.openslo) : x \in objects /\ x.slo = o.id
    BY <1>2 DEF ObjectRows
  <2>2. ASSUME NEW x \in objects, x.slo = o.id PROVE x \in ObjectRows(o.id, o.openslo)
    <3>1. PICK q \in slos : x \in ObjectRows(q.id, q.openslo) /\ x.slo = q.id
      BY <1>7
    <3>2. q = o
      BY <1>2, <2>2, <3>1 DEF Numbered
    <3> QED
      BY <3>1, <3>2
  <2> QED
    BY <2>1, <2>2
<1>10. IdsGiven /\ SlosDistinct
  BY <1>2 DEF IdsGiven, SlosDistinct, Numbered
<1>11. TablesNumbered
  BY <1>2 DEF TablesNumbered, Table, Names
<1> QED
  BY <1>2, <1>6, <1>8, <1>9, <1>10, <1>11 DEF IInv, StoreIsSound

-----------------------------------------------------------------------------
(* What a call does to the rows of a table: rows go, a row is added with   *)
(* the next id, or rows keep their ids.                                    *)

\* From rows to more, while the last id goes from n to m.
Succeeds(rows, more, n, m) ==
  /\ Numbered(more, m)
  /\ \A i \in IdsOf(more) : i \in IdsOf(rows) \/ i > n

LEMMA RowsRemoved ==
  ASSUME NEW rows, NEW more \in SUBSET rows, NEW n \in Nat, NEW m \in Nat, n <= m,
         Numbered(rows, n), \A r \in rows : r.id \in Nat
  PROVE  Succeeds(rows, more, n, m)
BY DEF Succeeds, Numbered, IdsOf

LEMMA RowAdded ==
  ASSUME NEW rows, NEW row, NEW n \in Nat, row.id = n + 1,
         Numbered(rows, n), \A r \in rows : r.id \in Nat
  PROVE  Succeeds(rows, rows \cup {row}, n, n + 1)
<1>1. \A r \in rows : r.id <= n /\ r.id # n + 1
  BY DEF Numbered
<1>2. Numbered(rows \cup {row}, n + 1)
  BY <1>1 DEF Numbered
<1>3. \A i \in IdsOf(rows \cup {row}) : i \in IdsOf(rows) \/ i > n
  BY DEF IdsOf
<1> QED
  BY <1>2, <1>3 DEF Succeeds

LEMMA RowReplaced ==
  ASSUME NEW rows, NEW k \in IdsOf(rows), NEW row, row.id = k, NEW n \in Nat,
         Numbered(rows, n)
  PROVE  Succeeds(rows, (rows \ ById(rows, k)) \cup {row}, n, n)
<1>1. PICK old \in rows : old.id = k
  BY DEF IdsOf
<1>2. \A r \in (rows \ ById(rows, k)) : r \in rows /\ r.id # k
  BY DEF ById
<1>3. Numbered((rows \ ById(rows, k)) \cup {row}, n)
  BY <1>1, <1>2 DEF Numbered
<1>4. \A i \in IdsOf((rows \ ById(rows, k)) \cup {row}) : i \in IdsOf(rows)
  BY IdsReplaced
<1> QED
  BY <1>3, <1>4 DEF Succeeds

\* An update gives an SLO another text.
LEMMA RowsRewritten ==
  ASSUME NEW rows \in SUBSET SLO, NEW u, NEW n \in Nat, Numbered(rows, n)
  PROVE  Succeeds(rows,
                  {IF o.id = u.slo THEN [o EXCEPT !.openslo = u.openslo] ELSE o : o \in rows},
                  n, n)
<1> DEFINE New(o) == IF o.id = u.slo THEN [o EXCEPT !.openslo = u.openslo] ELSE o
           more == {New(o) : o \in rows}
<1>1. \A o \in rows : New(o).id = o.id
  BY DEF SLO
<1> HIDE DEF New
<1>2. Numbered(more, n)
  BY <1>1 DEF Numbered
<1>3. \A i \in IdsOf(more) : i \in IdsOf(rows)
  BY <1>1 DEF IdsOf
<1>4. Succeeds(rows, more, n, n)
  BY <1>2, <1>3 DEF Succeeds
<1> QED
  BY <1>4 DEF New

LEMMA RowIdsAreNumbers ==
  ASSUME TablesOK, NEW name \in Names, NEW r \in Table[name]
  PROVE  r.id \in Ids /\ r.id \in Nat
BY BoundAssumption DEF TablesOK, Table, Names, Team, Service, SLO, Burn, Ids

\* No call brings an id back, or gives one twice.
LEMMA TablesStep ==
  ASSUME TablesOK, TablesNumbered, [StoreNext]_store
  PROVE  /\ lastId \in Nat /\ lastId' \in Nat /\ lastId <= lastId'
         /\ \A name \in Names : Succeeds(Table[name], Table'[name], lastId, lastId')
<1> DEFINE Step == \A name \in Names : Succeeds(Table[name], Table'[name], lastId, lastId')
<1>l. lastId \in Nat
  BY BoundAssumption DEF TablesOK
<1>m. lastId' = lastId \/ lastId' = lastId + 1
  BY DEF StoreNext, store, CreateTeam, UpdateTeam, CreateService, UpdateService,
         DeleteTeam, DeleteService, DeleteSLO, CreateSLO, BeginUpdateSLO,
         EndUpdateSLO, InsertBurnEventView, NewId
<1>n. \A name \in Names : /\ Numbered(Table[name], lastId)
                          /\ \A r \in Table[name] : r.id \in Nat
  BY RowIdsAreNumbers DEF TablesNumbered
<1>n1. /\ \A r \in teams : r.id \in Nat
       /\ \A r \in services : r.id \in Nat
       /\ \A r \in slos : r.id \in Nat
       /\ \A r \in events : r.id \in Nat
       /\ Numbered(teams, lastId) /\ Numbered(services, lastId)
       /\ Numbered(slos, lastId) /\ Numbered(events, lastId)
  BY <1>n DEF Table, Names
<1>s. ASSUME NEW rows, Numbered(rows, lastId), \A r \in rows : r.id \in Nat
      PROVE  Succeeds(rows, rows, lastId, lastId')
  BY <1>l, <1>m, <1>s, RowsRemoved
<1>s1. /\ Succeeds(teams, teams, lastId, lastId')
       /\ Succeeds(services, services, lastId, lastId')
       /\ Succeeds(slos, slos, lastId, lastId')
       /\ Succeeds(events, events, lastId, lastId')
  BY <1>n1, <1>s
<1>t. ASSUME Succeeds(teams, teams', lastId, lastId'),
             Succeeds(services, services', lastId, lastId'),
             Succeeds(slos, slos', lastId, lastId'),
             Succeeds(events, events', lastId, lastId')
      PROVE  Step
  BY <1>t DEF Table, Names
<1> HIDE DEF Step
<1>1. ASSUME NEW slug \in Slugs, CreateTeam(slug) PROVE Step
  <2>1. Succeeds(teams, teams', lastId, lastId')
    BY <1>1, <1>l, <1>n1, RowAdded DEF CreateTeam, NewId
  <2> QED
    BY <1>1, <1>s1, <1>t, <2>1 DEF CreateTeam
<1>2. ASSUME NEW slug \in Slugs, NEW n \in Ids, UpdateTeam(n, slug) PROVE Step
  <2>1. Succeeds(teams, teams', lastId, lastId')
    BY <1>2, <1>l, <1>n1, RowReplaced DEF UpdateTeam
  <2> QED
    BY <1>2, <1>s1, <1>t, <2>1 DEF UpdateTeam
<1>3. ASSUME NEW slug \in Slugs, NEW owner \in Ids, CreateService(slug, owner)
      PROVE  Step
  <2>1. Succeeds(services, services', lastId, lastId')
    BY <1>3, <1>l, <1>n1, RowAdded DEF CreateService, NewId
  <2> QED
    BY <1>3, <1>s1, <1>t, <2>1 DEF CreateService
<1>4. ASSUME NEW slug \in Slugs, NEW n \in Ids, NEW owner \in Ids,
             UpdateService(n, slug, owner)
      PROVE  Step
  <2>1. Succeeds(services, services', lastId, lastId')
    BY <1>4, <1>l, <1>n1, RowReplaced DEF UpdateService
  <2> QED
    BY <1>4, <1>s1, <1>t, <2>1 DEF UpdateService
<1>5. ASSUME NEW n \in Ids, DeleteTeam(n) \/ DeleteService(n) \/ DeleteSLO(n)
      PROVE  Step
  <2>1. /\ teams' \subseteq teams /\ services' \subseteq services
        /\ slos' \subseteq slos /\ events' \subseteq events
    BY <1>5 DEF DeleteTeam, DeleteService, DeleteSLO
  <2> QED
    BY <1>l, <1>m, <1>n1, <1>t, <2>1, RowsRemoved
<1>6. ASSUME NEW n \in Ids, NEW openslo \in Texts \cup Malformed, CreateSLO(n, openslo)
      PROVE  Step
  <2>1. Succeeds(slos, slos', lastId, lastId')
    BY <1>6, <1>l, <1>n1, RowAdded DEF CreateSLO, NewId
  <2> QED
    BY <1>6, <1>s1, <1>t, <2>1 DEF CreateSLO
<1>7. ASSUME NEW n \in Ids, NEW openslo \in Texts \cup Malformed,
             BeginUpdateSLO(n, openslo)
      PROVE  Step
  BY <1>7, <1>s1, <1>t DEF BeginUpdateSLO
<1>8. ASSUME NEW u \in updates, EndUpdateSLO(u) PROVE Step
  <2>1. slos \subseteq SLO
    BY DEF TablesOK
  <2>2. \/ slos' = slos
        \/ slos' = {IF o.id = u.slo THEN [o EXCEPT !.openslo = u.openslo] ELSE o :
                      o \in slos}
    BY <1>8 DEF EndUpdateSLO
  <2>3. UNCHANGED <<lastId, teams, services, events>>
    BY <1>8 DEF EndUpdateSLO
  <2>4. Succeeds(slos, slos', lastId, lastId')
    <3>1. CASE slos' = slos
      BY <1>s1, <3>1
    <3>2. CASE slos' = {IF o.id = u.slo THEN [o EXCEPT !.openslo = u.openslo] ELSE o :
                          o \in slos}
      BY <1>l, <1>n1, <2>1, <2>3, <3>2, RowsRewritten
    <3> QED
      BY <2>2, <3>1, <3>2
  <2> QED
    BY <1>s1, <1>t, <2>3, <2>4
<1>9. ASSUME NEW n \in Ids, NEW type \in BurnTypes, NEW severity \in Severities,
             InsertBurnEventView(n, type, severity)
      PROVE  Step
  <2>1. Succeeds(events, events', lastId, lastId')
    BY <1>9, <1>l, <1>n1, RowAdded DEF InsertBurnEventView, NewId
  <2> QED
    BY <1>9, <1>s1, <1>t, <2>1 DEF InsertBurnEventView
<1>10. ASSUME UNCHANGED store PROVE Step
  <2>1. UNCHANGED <<teams, services, slos, events>>
    BY <1>10 DEF store
  <2> QED
    BY <1>s1, <1>t, <2>1
<1>11. Step
  BY <1>1, <1>2, <1>3, <1>4, <1>5, <1>6, <1>7, <1>8, <1>9, <1>10 DEF StoreNext
<1> QED
  BY <1>l, <1>m, <1>11 DEF Step

-----------------------------------------------------------------------------
(* The newest rows of a table.                                             *)

\* No more rows than ids.
LEMMA RowsCounted ==
  ASSUME NEW rows, NEW a \in Nat, NEW b \in Nat, a <= b, UniqueIds(rows),
         \A r \in rows : r.id \in Nat /\ a < r.id /\ r.id <= b
  PROVE  IsFiniteSet(rows) /\ Cardinality(rows) <= b - a
<1> DEFINE f == [r \in rows |-> r.id]
<1>1. IsFiniteSet(a + 1 .. b) /\ Cardinality(a + 1 .. b) = b - a
  <2>1. a + 1 \in Int /\ b \in Int
    OBVIOUS
  <2>2. /\ IsFiniteSet(a + 1 .. b)
        /\ Cardinality(a + 1 .. b) = IF a + 1 > b THEN 0 ELSE b - (a + 1) + 1
    BY <2>1, FS_Interval
  <2> QED
    BY <2>2
<1>2. f \in Injection(rows, a + 1 .. b)
  BY DEF Injection, IsInjective, UniqueIds
<1> QED
  BY <1>1, <1>2, FS_Injection

\* The first page of a list has at most as many rows as it may have, and every
\* row that fewer ids were given after.
LEMMA NewestRows ==
  ASSUME NEW rows, NEW last \in Nat, Numbered(rows, last),
         \A r \in rows : r.id \in Nat \ {0}, NEW n \in Nat
  PROVE  /\ Newest(rows, n) \subseteq rows
         /\ Cardinality(Newest(rows, n)) <= n
         /\ UniqueIds(Newest(rows, n))
         /\ \A r \in rows : last - r.id < n => r \in Newest(rows, n)
<1> DEFINE page == Newest(rows, n)
           After(r) == {q \in rows : q.id > r.id}
<1>1. page \subseteq rows /\ \A r \in page : Cardinality(After(r)) < n
  BY DEF Newest
<1>2. UniqueIds(rows) /\ UniqueIds(page)
  BY <1>1 DEF UniqueIds, Numbered
<1>3. IsFiniteSet(rows)
  <2>1. \A r \in rows : r.id \in Nat /\ 0 < r.id /\ r.id <= last
    BY DEF Numbered
  <2> QED
    BY <1>2, <2>1, RowsCounted
<1>4. IsFiniteSet(page)
  BY <1>1, <1>3, FS_Subset
<1>5. ASSUME NEW r \in rows, last - r.id < n PROVE r \in page
  <2>1. r.id <= last /\ r.id \in Nat
    BY DEF Numbered
  <2>2. \A q \in After(r) : q.id \in Nat /\ r.id < q.id /\ q.id <= last
    BY DEF Numbered
  <2>3. UniqueIds(After(r))
    BY <1>2 DEF UniqueIds
  <2>4. IsFiniteSet(After(r)) /\ Cardinality(After(r)) <= last - r.id
    BY <2>1, <2>2, <2>3, RowsCounted
  <2>5. Cardinality(After(r)) \in Nat
    BY <2>4, FS_CardinalityType
  <2>6. Cardinality(After(r)) < n
    BY <1>5, <2>1, <2>4, <2>5
  <2> QED
    BY <2>6 DEF Newest
<1>6. Cardinality(page) <= n
  <2>1. CASE page = {}
    BY <2>1, FS_EmptySet
  <2>2. CASE page # {}
    <3>1. PICK m \in IdsOf(page) : \A k \in IdsOf(page) : m <= k
      <4>1. IdsOf(page) \in SUBSET Nat /\ IdsOf(page) # {}
        BY <1>1, <2>2 DEF IdsOf
      <4> QED
        BY <4>1, LeastOf
    <3>2. PICK r \in page : r.id = m
      BY DEF IdsOf
    <3>3. \A q \in page \ {r} : q \in After(r)
      <4>1. SUFFICES ASSUME NEW q \in page, q # r PROVE q.id > r.id
        BY <1>1
      <4>2. q.id >= r.id
        BY <3>1, <3>2 DEF IdsOf
      <4>3. q.id # r.id
        BY <1>2, <4>1 DEF UniqueIds
      <4> QED
        BY <1>1, <4>2, <4>3
    <3>4. IsFiniteSet(After(r))
      BY <1>3, FS_Subset
    <3>5. Cardinality(page \ {r}) <= Cardinality(After(r))
      BY <3>3, <3>4, FS_Subset
    <3>6. Cardinality(page \ {r}) = Cardinality(page) - 1
      BY <1>4, FS_RemoveElement
    <3>7. Cardinality(After(r)) < n /\ Cardinality(After(r)) \in Nat
          /\ Cardinality(page) \in Nat
      BY <1>1, <1>4, <3>4, FS_CardinalityType
    <3> QED
      BY <3>5, <3>6, <3>7
  <2> QED
    BY <2>1, <2>2
<1> QED
  BY <1>1, <1>2, <1>5, <1>6

-----------------------------------------------------------------------------
(* The steps of the invariant: first what the tables do to it.             *)

LEMMA TablesKept ==
  ASSUME AppInv, [Next]_vars
  PROVE  /\ IInv' /\ TablesOK' /\ TablesNumbered'
         /\ lastId \in Nat /\ lastId' \in Nat /\ lastId <= lastId'
         /\ \A name \in Names : Succeeds(Table[name], Table'[name], lastId, lastId')
<1>1. TablesOK /\ IInv /\ TablesNumbered
  BY DEF AppInv, IInv
<1>2. [StoreNext]_store
  BY <1>1, StepIsCall
<1>3. IInv'
  BY <1>1, <1>2, StepIInv
<1>4. /\ lastId \in Nat /\ lastId' \in Nat /\ lastId <= lastId'
      /\ \A name \in Names : Succeeds(Table[name], Table'[name], lastId, lastId')
  BY <1>1, <1>2, TablesStep
<1>5. TablesNumbered'
  BY <1>4 DEF Succeeds, TablesNumbered
<1>6. TablesOK'
  BY <1>3 DEF IInv
<1> QED
  BY <1>3, <1>4, <1>5, <1>6

\* What a refresh has read stays right, whatever happens to the tables: the
\* row it is for does not come back, and no fewer rows are newer.
LEMMA KnownStays ==
  ASSUME AppInv, [Next]_vars, NEW r \in refreshes
  PROVE  RefreshKnows(r)'
<1>1. RefreshKnows(r) /\ r \in Refreshes
  BY DEF AppInv, TypeOK
<1>2. /\ lastId \in Nat /\ lastId' \in Nat /\ lastId <= lastId'
      /\ \A name \in Names : Succeeds(Table[name], Table'[name], lastId, lastId')
  BY TablesKept
<1>3. r.for # Null => r.for \in Nat /\ r.for <= lastId /\ r.for <= lastId'
  BY <1>1, <1>2, BoundAssumption DEF RefreshKnows, Refreshes, Ids
<1>4. ASSUME NEW name \in Names, r.for \in IdsOf(Table'[name]), lastId' - r.for < PageSize
      PROVE  r.for \in IdsOf(Table[name]) /\ lastId - r.for < PageSize
  <2>1. r.for # Null
    <3>1. TablesOK'
      BY TablesKept
    <3>2. \A q \in Table'[name] : q.id \in Ids
      BY <3>1 DEF TablesOK, Table, Names, Team, Service, SLO, Burn
    <3> QED
      BY <1>4, <3>2, NullAssumption DEF IdsOf
  <2>2. r.for \in IdsOf(Table[name])
    BY <1>2, <1>3, <1>4, <2>1 DEF Succeeds
  <2> QED
    BY <1>2, <1>3, <1>4, <2>1, <2>2, PageAssumption
<1>5. ASSUME NEW name \in Names, r.got[name] # Null
      PROVE  /\ Cardinality(r.got[name]) <= PageSize
             /\ UniqueIds(r.got[name])
             /\ r.for \in IdsOf(Table'[name]) /\ lastId' - r.for < PageSize
                  => r.for \in IdsOf(r.got[name])
  BY <1>1, <1>4, <1>5 DEF RefreshKnows
<1> QED
  BY <1>3, <1>5 DEF RefreshKnows, UniqueIds, IdsOf

-----------------------------------------------------------------------------
(* Types of what is built.                                                 *)

LEMMA ListFields ==
  \A ls \in Lists :
    /\ ls.teams \subseteq Team /\ ls.services \subseteq Service
    /\ ls.slos \subseteq SLO /\ ls.events \subseteq Burn
BY DEF Lists

LEMMA SceneTyped ==
  ASSUME NEW ls \in Lists, NEW defs \in SUBSET Definition
  PROVE  /\ Scene(ls, defs) \in Scenes
         /\ FitPages(ls) => FitPages(Scene(ls, defs))
         /\ PagesUnique(ls) => PagesUnique(Scene(ls, defs))
BY DEF Scene, Lists, Scenes, FitPages, PagesUnique, UniqueIds, Names

LEMMA DefinitionsTyped ==
  ASSUME NEW rows \in SUBSET SLO
  PROVE  DefinitionsOf(rows) \subseteq Definition /\ Covers(DefinitionsOf(rows), rows)
<1>1. \A o \in rows : mapSLOToDefinition(o) \in Definition /\ mapSLOToDefinition(o).id = o.id
  BY RuntimeAssumption
  DEF mapSLOToDefinition, LatencyDefinition, ErrorRateDefinition, Definition,
      DefinitionIds, SLO
<1> QED
  BY <1>1 DEF DefinitionsOf, Covers

LEMMA DefaultsTyped == Defaults \subseteq Definition
BY DEF Defaults, LatencyDefinition, ErrorRateDefinition, Definition, DefinitionIds

LEMMA NoListsTyped ==
  /\ NoLists \in Lists
  /\ FitPages(NoLists) /\ PagesUnique(NoLists)
  /\ NoLists.slos = {}
BY FS_EmptySet, PageAssumption DEF NoLists, Lists, FitPages, PagesUnique, UniqueIds, Names

LEMMA BegunTyped ==
  ASSUME NEW n \in Ids \cup {Null}
  PROVE  /\ Refresh(n) \in Refreshes
         /\ Refresh(n).for = n
         /\ \A name \in Names : Refresh(n).got[name] = Null
<1> DEFINE nothing == [name \in Names |-> Null]
<1>1. nothing \in Answers
  BY DEF Answers, Names
<1>2. \A name \in Names : nothing[name] = Null
  OBVIOUS
<1>3. Refresh(n) = [for |-> n, got |-> nothing]
  BY DEF Refresh
<1> HIDE DEF nothing
<1> QED
  BY <1>1, <1>2, <1>3 DEF Refreshes

LEMMA AppInit == Init => AppInv
<1> SUFFICES ASSUME Init PROVE AppInv
  OBVIOUS
<1>1. IInv /\ TablesNumbered
  BY FoundIsSound
<1>2. /\ lists = NoLists /\ definitions = Defaults /\ scene = Scene(NoLists, Defaults)
      /\ queued = Null /\ effect = FALSE /\ refreshes = {Refresh(Null)} /\ posts = {}
  BY DEF Init
<1>3. scene \in Scenes /\ FitPages(scene) /\ PagesUnique(scene)
  BY <1>2, SceneTyped, DefaultsTyped, NoListsTyped
<1>4. TypeOK
  BY <1>1, <1>2, <1>3, DefaultsTyped, NoListsTyped, BegunTyped DEF TypeOK, IInv
<1>5. \A r \in refreshes : RefreshKnows(r)
  BY <1>2, BegunTyped DEF RefreshKnows
<1>6. DefinitionsFollow
  BY <1>2, NoListsTyped DEF DefinitionsFollow, Latest, Covers, Scene
<1> QED
  BY <1>1, <1>2, <1>3, <1>4, <1>5, <1>6, NoListsTyped DEF AppInv

-----------------------------------------------------------------------------
(* The steps of the invariant, one action at a time.                       *)

\* What a step does not touch of the application stays as it was.
LEMMA AppUntouched ==
  ASSUME AppInv, [Next]_vars, UNCHANGED <<lists, scene, queued, effect, definitions>>,
         refreshes' \subseteq Refreshes, posts' \subseteq Ids,
         \A r \in refreshes' : RefreshKnows(r)',
         \A n \in posts' : n <= lastId'
  PROVE  AppInv'
<1>1. IInv' /\ TablesOK' /\ TablesNumbered'
  BY TablesKept
<1>2. TypeOK'
  BY <1>1 DEF AppInv, TypeOK, FitPages
<1>3. DefinitionsFollow'
  BY DEF AppInv, DefinitionsFollow, Latest, Covers
<1>4. /\ PagesUnique(lists)' /\ PagesUnique(scene)'
      /\ queued' # Null => PagesUnique(queued.lists)' /\ PagesUnique(queued.scene)'
  BY DEF AppInv, PagesUnique, UniqueIds
<1> QED
  BY <1>1, <1>2, <1>3, <1>4 DEF AppInv

LEMMA PostsStay ==
  ASSUME AppInv, [Next]_vars
  PROVE  posts \subseteq Ids /\ \A n \in posts : n \in Nat /\ n <= lastId'
<1>1. \A n \in posts : n \in Ids /\ n <= lastId
  BY DEF AppInv, TypeOK
<1> QED
  BY <1>1, TablesKept, BoundAssumption DEF Ids

\* An answer is a page of a table, and has the row the refresh is for.
LEMMA AnswerStep ==
  ASSUME AppInv, [Next]_vars, NEW r \in refreshes, NEW name \in Names, Answer(r, name)
  PROVE  AppInv'
<1>p. PICK page : page = Newest(Table[name], PageSize)
  OBVIOUS
<1>s. PICK s : s = [r EXCEPT !.got[name] = page]
  OBVIOUS
<1>1. /\ refreshes' = (refreshes \ {r}) \cup {s}
      /\ UNCHANGED <<store, lists, scene, queued, effect, definitions, posts>>
  BY <1>p, <1>s DEF Answer
<1>2. r \in Refreshes /\ refreshes \subseteq Refreshes /\ RefreshKnows(r)
  BY DEF AppInv, TypeOK
<1>3. /\ lastId \in Nat /\ Numbered(Table[name], lastId)
      /\ \A q \in Table[name] : q.id \in Nat \ {0}
  <2>1. TablesOK /\ TablesNumbered
    BY DEF AppInv, TypeOK
  <2> QED
    BY <2>1, RowIdsAreNumbers, BoundAssumption DEF TablesOK, TablesNumbered, Ids
<1>4. /\ page \subseteq Table[name]
      /\ Cardinality(page) <= PageSize
      /\ UniqueIds(page)
      /\ \A q \in Table[name] : lastId - q.id < PageSize => q \in page
  BY <1>p, <1>3, NewestRows, PageAssumption
<1>5. /\ s.for = r.for
      /\ s.got[name] = page
      /\ \A other \in Names : other # name => s.got[other] = r.got[other]
  BY <1>s, <1>2 DEF Refreshes, Answers, Names
<1>6. s \in Refreshes
  <2>1. CASE name = "teams"
    <3>1. page \subseteq Team
      BY <1>4, <2>1 DEF Table, AppInv, TypeOK, TablesOK
    <3> QED
      BY <1>s, <1>2, <2>1, <3>1 DEF Refreshes, Answers
  <2>2. CASE name = "services"
    <3>1. page \subseteq Service
      BY <1>4, <2>2 DEF Table, AppInv, TypeOK, TablesOK
    <3> QED
      BY <1>s, <1>2, <2>2, <3>1 DEF Refreshes, Answers
  <2>3. CASE name = "slos"
    <3>1. page \subseteq SLO
      BY <1>4, <2>3 DEF Table, AppInv, TypeOK, TablesOK
    <3> QED
      BY <1>s, <1>2, <2>3, <3>1 DEF Refreshes, Answers
  <2>4. CASE name = "events"
    <3>1. page \subseteq Burn
      BY <1>4, <2>4 DEF Table, AppInv, TypeOK, TablesOK
    <3> QED
      BY <1>s, <1>2, <2>4, <3>1 DEF Refreshes, Answers
  <2> QED
    BY <2>1, <2>2, <2>3, <2>4 DEF Names
<1>7. s.for \in IdsOf(Table[name]) /\ lastId - s.for < PageSize => s.for \in IdsOf(page)
  BY <1>4 DEF IdsOf
<1>8. RefreshKnows(s)
  BY <1>2, <1>4, <1>5, <1>7 DEF RefreshKnows
<1>9. RefreshKnows(s)'
  <2>1. Table' = Table /\ lastId' = lastId
    BY <1>1 DEF store, Table
  <2> QED
    BY <1>8, <2>1 DEF RefreshKnows, UniqueIds, IdsOf
<1>10. \A q \in refreshes' : RefreshKnows(q)'
  BY <1>1, <1>9, KnownStays
<1> QED
  BY <1>1, <1>2, <1>6, <1>10, AppUntouched, PostsStay

LEMMA EndedStep ==
  ASSUME AppInv, [Next]_vars, NEW r \in refreshes, FailRefresh(r)
  PROVE  AppInv'
<1>1. /\ refreshes' \subseteq refreshes
      /\ UNCHANGED <<lists, scene, queued, effect, definitions, posts>>
  BY DEF FailRefresh
<1>2. refreshes' \subseteq Refreshes
  BY <1>1 DEF AppInv, TypeOK
<1> QED
  BY <1>1, <1>2, AppUntouched, PostsStay, KnownStays

\* All four lists are there: they are typed pages.
LEMMA GotIsLists ==
  ASSUME AppInv, NEW r \in refreshes, \A name \in Names : r.got[name] # Null
  PROVE  r.got \in Lists /\ FitPages(r.got) /\ PagesUnique(r.got)
<1>1. r \in Refreshes /\ RefreshKnows(r)
  BY DEF AppInv, TypeOK
<1>2. r.got \in Lists
  BY <1>1 DEF Refreshes, Answers, Lists, Names
<1> QED
  BY <1>1, <1>2 DEF RefreshKnows, FitPages, PagesUnique

\* What is queued is something.
LEMMA QueueTyped ==
  ASSUME NEW ls \in Lists, NEW sc \in Scenes,
         NEW q \in [lists : {ls}, scene : {sc}, fresh : BOOLEAN]
  PROVE  q \in Queue /\ q # Null /\ q.lists = ls /\ q.scene = sc
BY NullAssumption DEF Queue

LEMMA FinishStep ==
  ASSUME AppInv, [Next]_vars, NEW r \in refreshes, Finish(r)
  PROVE  AppInv'
<1>1. /\ \A name \in Names : r.got[name] # Null
      /\ refreshes' \subseteq refreshes
      /\ definitions' = DefinitionsOf(r.got.slos)
      /\ queued' = [lists |-> r.got, scene |-> Scene(r.got, definitions'), fresh |-> TRUE]
      /\ UNCHANGED <<lists, scene, effect, posts>>
  BY DEF Finish
<1>2. r.got \in Lists /\ FitPages(r.got) /\ PagesUnique(r.got)
  BY <1>1, GotIsLists
<1>3. definitions' \subseteq Definition /\ Covers(definitions', r.got.slos)
  BY <1>1, <1>2, DefinitionsTyped, ListFields
<1>4. PICK ls : ls = r.got
  OBVIOUS
<1>5. PICK sc : sc = Scene(r.got, definitions')
  OBVIOUS
<1>6. /\ sc \in Scenes /\ FitPages(sc) /\ PagesUnique(sc)
      /\ sc.slos = ls.slos /\ sc.definitions = definitions'
  BY <1>2, <1>3, <1>4, <1>5, SceneTyped DEF Scene
<1>7. queued' \in Queue /\ queued' # Null /\ queued'.lists = ls /\ queued'.scene = sc
  <2>1. queued' \in [lists : {ls}, scene : {sc}, fresh : BOOLEAN]
    BY <1>1, <1>4, <1>5
  <2>2. ls \in Lists
    BY <1>2, <1>4
  <2> QED
    BY <1>6, <2>1, <2>2, QueueTyped
<1>8. IInv' /\ TablesOK' /\ TablesNumbered'
  BY TablesKept
<1>9. TypeOK'
  BY <1>1, <1>2, <1>3, <1>4, <1>6, <1>7, <1>8 DEF AppInv, TypeOK, FitPages
<1>10. DefinitionsFollow'
  BY <1>1, <1>3, <1>4, <1>6, <1>7 DEF AppInv, DefinitionsFollow, Latest, Covers
<1>11. /\ PagesUnique(lists)' /\ PagesUnique(scene)'
       /\ PagesUnique(queued.lists)' /\ PagesUnique(queued.scene)'
  BY <1>1, <1>2, <1>4, <1>6, <1>7 DEF AppInv, PagesUnique, UniqueIds
<1>12. \A q \in refreshes' : RefreshKnows(q)'
  BY <1>1, KnownStays
<1> QED
  BY <1>1, <1>8, <1>9, <1>10, <1>11, <1>12, PostsStay DEF AppInv

LEMMA RenderStep ==
  ASSUME AppInv, [Next]_vars, Render
  PROVE  AppInv'
<1>1. /\ queued # Null /\ lists' = queued.lists /\ scene' = queued.scene
      /\ effect' = queued.fresh /\ queued' = Null
      /\ UNCHANGED <<definitions, refreshes, posts>>
  BY DEF Render
<1>2. /\ queued.lists \in Lists /\ queued.scene \in Scenes /\ queued.fresh \in BOOLEAN
      /\ FitPages(queued.lists) /\ FitPages(queued.scene)
      /\ PagesUnique(queued.lists) /\ PagesUnique(queued.scene)
  BY <1>1 DEF AppInv, TypeOK, Queue
<1>3. IInv' /\ TablesOK' /\ TablesNumbered'
  BY TablesKept
<1>4. TypeOK'
  BY <1>1, <1>2, <1>3 DEF AppInv, TypeOK, FitPages
<1>5. DefinitionsFollow'
  BY <1>1 DEF AppInv, DefinitionsFollow, Latest, Covers
<1>6. PagesUnique(lists)' /\ PagesUnique(scene)'
  BY <1>1, <1>2 DEF PagesUnique, UniqueIds
<1>7. \A q \in refreshes' : RefreshKnows(q)'
  BY <1>1, KnownStays
<1> QED
  BY <1>1, <1>3, <1>4, <1>5, <1>6, <1>7, PostsStay DEF AppInv

\* The effect may put a scene of the lists of before beside newer ones; then
\* the two differ, or the definitions follow both.
LEMMA EffectStep ==
  ASSUME AppInv, [Next]_vars, RunEffect
  PROVE  AppInv'
<1>1. /\ effect' = FALSE
      /\ queued' = IF queued = Null
                     THEN [ lists |-> lists, scene |-> Scene(lists, definitions),
                            fresh |-> FALSE ]
                     ELSE [queued EXCEPT !.scene = Scene(lists, definitions)]
      /\ UNCHANGED <<lists, scene, definitions, refreshes, posts>>
  BY DEF RunEffect
<1>2. /\ lists \in Lists /\ FitPages(lists) /\ PagesUnique(lists)
      /\ definitions \subseteq Definition
  BY DEF AppInv, TypeOK
<1>3. PICK sc : sc = Scene(lists, definitions)
  OBVIOUS
<1>4. PICK ls : ls = Latest
  OBVIOUS
<1>5. /\ sc \in Scenes /\ FitPages(sc) /\ PagesUnique(sc)
      /\ sc.slos = lists.slos /\ sc.definitions = definitions
  BY <1>2, <1>3, SceneTyped DEF Scene
<1>6. ls \in Lists /\ FitPages(ls) /\ PagesUnique(ls)
  BY <1>2, <1>4 DEF AppInv, TypeOK, Latest, Queue
<1>7. queued' \in Queue /\ queued' # Null /\ queued'.lists = ls /\ queued'.scene = sc
  <2>1. CASE queued = Null
    <3>1. queued' \in [lists : {ls}, scene : {sc}, fresh : BOOLEAN]
      BY <1>1, <1>3, <1>4, <2>1 DEF Latest
    <3> QED
      BY <3>1, <1>5, <1>6, QueueTyped
  <2>2. CASE queued # Null
    <3>1. queued \in Queue
      BY <2>2 DEF AppInv, TypeOK
    <3>2. queued' \in [lists : {ls}, scene : {sc}, fresh : BOOLEAN]
      BY <1>1, <1>3, <1>4, <2>2, <3>1 DEF Latest, Queue
    <3> QED
      BY <3>2, <1>5, <1>6, QueueTyped
  <2> QED
    BY <2>1, <2>2
<1>8. IInv' /\ TablesOK' /\ TablesNumbered'
  BY TablesKept
<1>9. TypeOK'
  BY <1>1, <1>5, <1>6, <1>7, <1>8 DEF AppInv, TypeOK, FitPages
<1>10. DefinitionsFollow'
  <2>1. Covers(definitions, ls.slos)
    BY <1>4 DEF AppInv, DefinitionsFollow
  <2> QED
    BY <1>1, <1>5, <1>7, <2>1 DEF AppInv, DefinitionsFollow, Latest, Covers
<1>11. /\ PagesUnique(lists)' /\ PagesUnique(scene)'
       /\ PagesUnique(queued.lists)' /\ PagesUnique(queued.scene)'
  BY <1>1, <1>5, <1>6, <1>7 DEF AppInv, PagesUnique, UniqueIds
<1>12. \A q \in refreshes' : RefreshKnows(q)'
  BY <1>1, KnownStays
<1> QED
  BY <1>1, <1>8, <1>9, <1>10, <1>11, <1>12, PostsStay DEF AppInv

\* The person, and everyone else.
LEMMA CreatingStep ==
  ASSUME AppInv, [Next]_vars, Creating
  PROVE  AppInv'
<1>1. /\ refreshes \subseteq Refreshes
      /\ \A r \in refreshes : RefreshKnows(r)'
  BY KnownStays DEF AppInv, TypeOK
<1>2. lastId' \in Nat /\ TablesOK'
  BY TablesKept
<1>3. CASE onCreate
  <2>1. /\ posts' = posts \cup {lastId'}
        /\ UNCHANGED <<lists, scene, queued, effect, definitions, refreshes>>
    BY <1>3 DEF onCreate
  <2>2. lastId' = lastId + 1
    BY <1>3 DEF onCreate, AskForTeam, AskForService, AskForSLO, CreateTeam,
                CreateService, CreateSLO, NewId
  <2>3. lastId' \in Ids
    BY <1>2, <2>2, TablesKept, BoundAssumption DEF TablesOK, Ids
  <2>4. posts' \subseteq Ids /\ \A n \in posts' : n <= lastId'
    BY <1>2, <2>1, <2>3, PostsStay
  <2> QED
    BY <1>1, <2>1, <2>4, AppUntouched
<1>4. ASSUME NEW n \in posts, Reply(n) PROVE AppInv'
  <2>1. /\ refreshes' = refreshes \cup {Refresh(n)}
        /\ posts' \subseteq posts
        /\ UNCHANGED <<lists, scene, queued, effect, definitions>>
    BY <1>4 DEF Reply, BeginRefresh
  <2>2. n \in Ids /\ n <= lastId'
    BY PostsStay
  <2>3. PICK s : s = Refresh(n)
    OBVIOUS
  <2>4. s \in Refreshes /\ s.for = n /\ \A name \in Names : s.got[name] = Null
    BY <2>2, <2>3, BegunTyped
  <2>5. RefreshKnows(s)'
    BY <2>2, <2>4 DEF RefreshKnows
  <2>6. refreshes' \subseteq Refreshes /\ \A r \in refreshes' : RefreshKnows(r)'
    BY <1>1, <2>1, <2>3, <2>4, <2>5
  <2> QED
    BY <2>1, <2>6, AppUntouched, PostsStay
<1>5. ASSUME NEW n \in posts, Lose(n) PROVE AppInv'
  <2>1. /\ posts' \subseteq posts
        /\ UNCHANGED <<lists, scene, queued, effect, definitions, refreshes>>
    BY <1>5 DEF Lose
  <2> QED
    BY <1>1, <2>1, AppUntouched, PostsStay
<1> QED
  BY <1>3, <1>4, <1>5 DEF Creating

LEMMA OthersStep ==
  ASSUME AppInv, [Next]_vars, UNCHANGED app
  PROVE  AppInv'
<1>1. UNCHANGED <<lists, scene, queued, effect, definitions, refreshes, posts>>
  BY DEF app
<1>2. refreshes' \subseteq Refreshes /\ \A r \in refreshes' : RefreshKnows(r)'
  BY <1>1, KnownStays DEF AppInv, TypeOK
<1> QED
  BY <1>1, <1>2, AppUntouched, PostsStay

LEMMA AppStep == AppInv /\ [Next]_vars => AppInv'
<1> SUFFICES ASSUME AppInv, [Next]_vars PROVE AppInv'
  OBVIOUS
<1>1. CASE Refreshing
  BY <1>1, EndedStep, FinishStep, AnswerStep DEF Refreshing
<1>2. CASE Render \/ RunEffect \/ Creating
  BY <1>2, RenderStep, EffectStep, CreatingStep
<1>3. CASE Others \/ UNCHANGED vars
  BY <1>3, OthersStep DEF Others, vars
<1> QED
  BY <1>1, <1>2, <1>3 DEF Next

-----------------------------------------------------------------------------
(* Where the pages lead to.                                                *)

Leads(sc, l) ==
  \/ l \in PageRoutes(sc)
  \/ l.page = "slo" /\ \A o \in sc.slos : o.id # l.id

\* An SLO that has a definition has a page; one that is not listed needs none.
LEMMA SloLeads ==
  ASSUME NEW sc, Covers(sc.definitions, sc.slos), NEW n
  PROVE  Leads(sc, SloRoute(n))
<1>1. CASE \E o \in sc.slos : o.id = n
  <2>1. PICK d \in sc.definitions : d.id = n
    BY <1>1 DEF Covers
  <2> QED
    BY <2>1 DEF Leads, PageRoutes
<1>2. CASE \A o \in sc.slos : o.id # n
  BY <1>2 DEF Leads, SloRoute, Route
<1> QED
  BY <1>1, <1>2

LEMMA ListedLeads ==
  ASSUME NEW sc
  PROVE  /\ \A s \in sc.services : Leads(sc, ServiceRoute(s.id))
         /\ \A t \in sc.teams : Leads(sc, TeamRoute(t.id))
BY DEF Leads, PageRoutes

LEMMA LinksOfSloLead ==
  ASSUME NEW sc, Covers(sc.definitions, sc.slos), NEW n, NEW l \in LinksOfSlo(sc, n)
  PROVE  Leads(sc, l)
BY SloLeads, ListedLeads DEF LinksOfSlo, ServicesOfSlo, OwnersOfSlo

LEMMA CoveredLinksLead ==
  ASSUME NEW sc, Covers(sc.definitions, sc.slos)
  PROVE  LinksLead(sc)
<1> SUFFICES ASSUME NEW l \in Links(sc) PROVE Leads(sc, l)
  BY DEF LinksLead, Leads
<1>1. CASE l \in InvestigationsLinks(sc) \cup CatalogLinks(sc)
  BY <1>1, LinksOfSloLead DEF InvestigationsLinks, CatalogLinks
<1>2. CASE l \in OwnershipLinks(sc)
  BY <1>2, ListedLeads DEF OwnershipLinks, ServicesOfTeam
<1>3. CASE l \in OperationsLinks(sc)
  BY <1>3, SloLeads, ListedLeads DEF OperationsLinks
<1>4. ASSUME NEW t \in sc.teams, l \in TeamLinks(sc, t) PROVE Leads(sc, l)
  BY <1>4, SloLeads, ListedLeads DEF TeamLinks, ServicesOfTeam
<1>5. ASSUME NEW s \in sc.services, l \in ServiceLinks(sc, s) PROVE Leads(sc, l)
  BY <1>5, SloLeads, ListedLeads DEF ServiceLinks, ServicePage
<1> QED
  BY <1>1, <1>2, <1>3, <1>4, <1>5 DEF Links

-----------------------------------------------------------------------------
(* The colours of a drilldown.                                             *)

LEMMA ShareOfTarget ==
  ASSUME NEW target \in 0 .. 1000, NEW n \in Nat
  PROVE  target * n \in Int /\ target * n <= 1000 * n
<1>1. (1000 - target) * n >= 0
  OBVIOUS
<1>2. (1000 - target) * n = 1000 * n - target * n
  OBVIOUS
<1> QED
  BY <1>1, <1>2

LEMMA ColoursOfDefinition ==
  ASSUME NEW d \in Definition, NEW minutes \in Seq(Nat)
  PROVE  LET shown == Drilldown(d, minutes)
         IN  /\ shown.stat = "green" <=> shown.gauge = "green"
             /\ (\A i \in DOMAIN minutes : minutes[i] <= shown.line)
                  => shown.gauge = "green"
<1> DEFINE limit == IF d.type = "latency" THEN d.thresholdMs ELSE d.thresholdRate
           bad == Bad(minutes, limit)
           n == Len(minutes)
           good == n - Cardinality(bad)
           all == IF minutes = <<>> THEN 1 ELSE n
           kept == IF minutes = <<>> THEN 1 ELSE good
<1>1. limit \in Nat /\ d.target \in 0 .. 1000
  BY DEF Definition
<1>2. n \in Nat /\ DOMAIN minutes = 1 .. n /\ \A i \in 1 .. n : minutes[i] \in Nat
  OBVIOUS
<1>3. bad \subseteq 1 .. n
  BY <1>2 DEF Bad
<1>4. IsFiniteSet(bad) /\ Cardinality(bad) \in Nat
  <2>1. IsFiniteSet(1 .. n)
    BY <1>2, FS_Interval
  <2> QED
    BY <1>3, <2>1, FS_Subset, FS_CardinalityType
<1>5. minutes = <<>> => bad = {} /\ n = 0 /\ good = 1 - 1
  BY <1>2, FS_EmptySet DEF Bad
<1>6. Compliance(d, minutes) = <<kept, all>>
  BY DEF Compliance
<1>7. ErrorBudget(d, minutes) = 1000 * (all - Cardinality(bad)) - d.target * all
  BY DEF ErrorBudget
<1>8. all - Cardinality(bad) = kept /\ kept \in Int /\ all \in Nat
  BY <1>2, <1>4, <1>5, FS_EmptySet
<1>t. d.target * all \in Int /\ d.target * all <= 1000 * all
  <2>1. PICK target \in 0 .. 1000 : target = d.target
    BY <1>1
  <2>2. PICK m \in Nat : m = all
    BY <1>8
  <2>3. target * m \in Int /\ target * m <= 1000 * m
    BY ShareOfTarget
  <2> QED
    BY <2>1, <2>2, <2>3
<1> DEFINE reached == 1000 * kept >= d.target * all
<1>9. /\ Drilldown(d, minutes).stat = "green" <=> reached
      /\ Drilldown(d, minutes).line = limit
  BY <1>6 DEF Drilldown
<1>10. Drilldown(d, minutes).gauge = "green" <=> reached
  <2>1. ErrorBudget(d, minutes) >= 0 <=> reached
    <3> HIDE DEF kept, all
    <3> QED
      BY <1>7, <1>8, <1>t
  <2> QED
    BY <2>1 DEF Drilldown
<1>11. ASSUME \A i \in DOMAIN minutes : minutes[i] <= limit PROVE reached
  <2>1. bad = {}
    BY <1>1, <1>2, <1>11 DEF Bad
  <2>2. kept = all
    <3>1. Cardinality(bad) = 0
      BY <2>1, FS_EmptySet
    <3> QED
      BY <1>2, <1>8, <3>1
  <2> QED
    BY <1>t, <2>2
<1> QED
  BY <1>9, <1>10, <1>11

-----------------------------------------------------------------------------
(* Risks.  The three sums of the pages fold the equation of Sums.          *)

LEMMA WeightsFold ==
  ASSUME NEW S, NEW w, \A b \in S : w[b] = Weight(b), \E h : Sums(w, S, h)
  PROVE  \E g : Sums(w, S, g) /\ MapThenSumSet(Weight, S) = g[S]
<1>1. PICK h : Sums(w, S, h)
  OBVIOUS
<1>2. h = [s \in SUBSET S |-> IF s = {} THEN 0 ELSE Weight(Pick(s)) + h[s \ {Pick(s)}]]
  BY <1>1, PickIsElement DEF Sums
<1>3. PICK g : /\ g = [s \in SUBSET S |->
                         IF s = {} THEN 0 ELSE Weight(Pick(s)) + g[s \ {Pick(s)}]]
               /\ MapThenSumSet(Weight, S) = g[S]
  BY <1>2 DEF MapThenSumSet, MapThenFoldSet, Pick
<1>4. Sums(w, S, g)
  BY <1>3, PickIsElement DEF Sums
<1> QED
  BY <1>3, <1>4

LEMMA RisksFold ==
  ASSUME NEW sc, NEW S, NEW w, \A o \in S : w[o] = ActiveRisk(sc, o.id),
         \E h : Sums(w, S, h)
  PROVE  \E g : Sums(w, S, g) /\ RiskOf(sc, S) = g[S]
<1>1. PICK h : Sums(w, S, h)
  OBVIOUS
<1>2. h = [s \in SUBSET S |->
             IF s = {} THEN 0 ELSE ActiveRisk(sc, Pick(s).id) + h[s \ {Pick(s)}]]
  BY <1>1, PickIsElement DEF Sums
<1>3. PICK g : /\ g = [s \in SUBSET S |->
                         IF s = {} THEN 0
                         ELSE ActiveRisk(sc, Pick(s).id) + g[s \ {Pick(s)}]]
               /\ RiskOf(sc, S) = g[S]
  BY <1>2 DEF RiskOf, MapThenSumSet, MapThenFoldSet, Pick
<1>4. Sums(w, S, g)
  BY <1>3, PickIsElement DEF Sums
<1> QED
  BY <1>3, <1>4

RiskOfServices(sc, rows) == MapThenSumSet(LAMBDA s : ServicePage(sc, s).risk, rows)

LEMMA ServicesFold ==
  ASSUME NEW sc, NEW S, NEW w, \A s \in S : w[s] = ServicePage(sc, s).risk,
         \E h : Sums(w, S, h)
  PROVE  \E g : Sums(w, S, g) /\ RiskOfServices(sc, S) = g[S]
<1>1. PICK h : Sums(w, S, h)
  OBVIOUS
<1>2. h = [s \in SUBSET S |->
             IF s = {} THEN 0 ELSE ServicePage(sc, Pick(s)).risk + h[s \ {Pick(s)}]]
  BY <1>1, PickIsElement DEF Sums
<1>3. PICK g : /\ g = [s \in SUBSET S |->
                         IF s = {} THEN 0
                         ELSE ServicePage(sc, Pick(s)).risk + g[s \ {Pick(s)}]]
               /\ RiskOfServices(sc, S) = g[S]
  BY <1>2 DEF RiskOfServices, MapThenSumSet, MapThenFoldSet, Pick
<1>4. Sums(w, S, g)
  BY <1>3, PickIsElement DEF Sums
<1> QED
  BY <1>3, <1>4

LEMMA ActiveRiskIsNumber ==
  ASSUME NEW sc, IsFiniteSet(sc.events), NEW n
  PROVE  ActiveRisk(sc, n) \in Nat
<1> DEFINE S == {b \in Active(sc) : b.slo = n}
           w == [b \in S |-> Weight(b)]
<1>1. IsFiniteSet(S)
  BY FS_Subset DEF Active
<1>2. w \in [S -> Nat] /\ \A b \in S : w[b] = Weight(b)
  BY DEF Weight, SeverityWeight
<1>3. S \in SUBSET S
  OBVIOUS
<1>4. ActiveRisk(sc, n) = MapThenSumSet(Weight, S)
  BY DEF ActiveRisk
<1> HIDE DEF S, w
<1>5. \E h : Sums(w, S, h)
  BY <1>1, <1>2, <1>3, TotalsFold
<1>6. PICK g : Sums(w, S, g) /\ MapThenSumSet(Weight, S) = g[S]
  BY <1>2, <1>5, WeightsFold
<1>7. g[S] = Total(w, S)
  BY <1>1, <1>2, <1>3, <1>6, FoldIsTotal
<1>8. Total(w, S) \in Nat
  BY <1>1, <1>2, <1>3, UnitsFinite, FS_CardinalityType DEF Total
<1> QED
  BY <1>4, <1>6, <1>7, <1>8

LEMMA RiskIsTotal ==
  ASSUME NEW sc, NEW w \in [sc.slos -> Nat], \A o \in sc.slos : w[o] = ActiveRisk(sc, o.id),
         NEW rows \in SUBSET sc.slos, IsFiniteSet(rows)
  PROVE  RiskOf(sc, rows) = Total(w, rows)
<1>1. \E h : Sums(w, rows, h)
  BY TotalsFold
<1>2. PICK g : Sums(w, rows, g) /\ RiskOf(sc, rows) = g[rows]
  BY <1>1, RisksFold
<1> QED
  BY <1>2, FoldIsTotal

\* The SLOs of a team are those of its services, as every id leads to one
\* service only.
LEMMA SlosOfTeam ==
  ASSUME NEW sc, UniqueIds(sc.services), NEW t, NEW o \in sc.slos
  PROVE  o \in TeamPage(sc, t).slos <=> \E s \in ServicesOfTeam(sc, t) : o.service = s.id
<1>1. ASSUME NEW s \in sc.services
      PROVE  (CHOOSE q \in sc.services : q.id = s.id) = s
  BY DEF UniqueIds
<1>2. \A s \in sc.services :
        [n \in {q.id : q \in sc.services} |->
           (CHOOSE q \in sc.services : q.id = n).owner][s.id] = s.owner
  BY <1>1
<1>3. o \in TeamPage(sc, t).slos <=>
        /\ o.service \in {q.id : q \in sc.services}
        /\ [n \in {q.id : q \in sc.services} |->
              (CHOOSE q \in sc.services : q.id = n).owner][o.service] = t.id
  BY DEF TeamPage
<1> QED
  BY <1>2, <1>3 DEF ServicesOfTeam

LEMMA TeamPageSlos ==
  ASSUME NEW sc, UniqueIds(sc.services), NEW t
  PROVE  TeamPage(sc, t).slos =
           UNION {SlosOfService(sc, s) : s \in ServicesOfTeam(sc, t)}
<1>1. TeamPage(sc, t).slos \subseteq sc.slos
  BY DEF TeamPage
<1>2. \A o : o \in UNION {SlosOfService(sc, s) : s \in ServicesOfTeam(sc, t)} <=>
             o \in sc.slos /\ \E s \in ServicesOfTeam(sc, t) : o.service = s.id
  BY DEF SlosOfService
<1> QED
  BY <1>1, <1>2, SlosOfTeam

LEMMA OwnershipAgrees ==
  ASSUME NEW sc, UniqueIds(sc.services), NEW t
  PROVE  OwnershipCard(sc, t) = TeamPage(sc, t)
<1>1. PICK own : own = TeamPage(sc, t).slos
  OBVIOUS
<1>2. TeamPage(sc, t) =
        [risk |-> RiskOf(sc, own), services |-> ServicesOfTeam(sc, t), slos |-> own]
  BY <1>1 DEF TeamPage
<1>3. own = UNION {SlosOfService(sc, s) : s \in ServicesOfTeam(sc, t)}
  BY <1>1, TeamPageSlos, Zenon
<1>4. OwnershipCard(sc, t) =
        [risk |-> RiskOf(sc, own), services |-> ServicesOfTeam(sc, t), slos |-> own]
  BY <1>3, Zenon DEF OwnershipCard
<1> QED
  BY <1>2, <1>4

LEMMA CardsAgree ==
  ASSUME NEW sc, UniqueIds(sc.services), NEW t, NEW s \in ServicesOfTeam(sc, t)
  PROVE  /\ ServiceCard(sc, s).risk = ServicePage(sc, s).risk
         /\ ServiceCard(sc, s).slos = ServicePage(sc, s).slos
<1>1. PICK owner : owner = [id |-> s.owner]
  OBVIOUS
<1>2. s \in ServicesOfTeam(sc, owner)
  BY <1>1 DEF ServicesOfTeam
<1>3. PICK own : own = {o \in TeamPage(sc, owner).slos : o.service = s.id}
  OBVIOUS
<1>4. own = SlosOfService(sc, s)
  <2>1. TeamPage(sc, owner).slos \subseteq sc.slos
    BY DEF TeamPage
  <2>2. \A o \in sc.slos : o.service = s.id => o \in TeamPage(sc, owner).slos
    BY <1>2, SlosOfTeam
  <2> QED
    BY <1>3, <2>1, <2>2 DEF SlosOfService
<1>5. ServiceCard(sc, s) = [risk |-> RiskOf(sc, own), slos |-> own]
  BY <1>1, <1>3, Zenon DEF ServiceCard
<1>6. /\ ServicePage(sc, s).risk = RiskOf(sc, own)
      /\ ServicePage(sc, s).slos = own
  <2>1. /\ ServicePage(sc, s).risk = RiskOf(sc, SlosOfService(sc, s))
        /\ ServicePage(sc, s).slos = SlosOfService(sc, s)
    BY DEF ServicePage
  <2> QED
    BY <1>4, <2>1, Zenon
<1> QED
  BY <1>5, <1>6

\* An SLO counts for one service only, so nothing is counted twice.
LEMMA TeamRiskAddsUp ==
  ASSUME NEW sc, UniqueIds(sc.services), NEW t,
         IsFiniteSet(sc.services), IsFiniteSet(sc.slos), IsFiniteSet(sc.events)
  PROVE  TeamPage(sc, t).risk = RiskOfServices(sc, ServicesOfTeam(sc, t))
<1> DEFINE S == ServicesOfTeam(sc, t)
           Slos(T) == UNION {SlosOfService(sc, s) : s \in T}
           w == [o \in sc.slos |-> ActiveRisk(sc, o.id)]
           v == [s \in sc.services |-> Total(w, SlosOfService(sc, s))]
           h == [T \in SUBSET S |-> Total(w, Slos(T))]
<1>1. w \in [sc.slos -> Nat] /\ \A o \in sc.slos : w[o] = ActiveRisk(sc, o.id)
  BY ActiveRiskIsNumber
<1>2. S \in SUBSET sc.services /\ IsFiniteSet(S)
  BY FS_Subset DEF ServicesOfTeam
<1>3. \A T \in SUBSET S : Slos(T) \in SUBSET sc.slos /\ IsFiniteSet(Slos(T))
  <2>1. \A T \in SUBSET S : Slos(T) \in SUBSET sc.slos
    BY DEF SlosOfService
  <2> HIDE DEF Slos
  <2> QED
    BY <2>1, FS_Subset
<1>4. \A s : SlosOfService(sc, s) \in SUBSET sc.slos /\ IsFiniteSet(SlosOfService(sc, s))
  <2>1. \A s : SlosOfService(sc, s) \in SUBSET sc.slos
    BY DEF SlosOfService
  <2> QED
    BY <2>1, FS_Subset
<1>5. ASSUME NEW T \in SUBSET S, NEW s \in T
      PROVE  /\ Slos(T) = SlosOfService(sc, s) \cup Slos(T \ {s})
             /\ SlosOfService(sc, s) \cap Slos(T \ {s}) = {}
  BY <1>2 DEF SlosOfService, UniqueIds
<1>6. Slos({}) = {}
  OBVIOUS
<1>7. TeamPage(sc, t).risk = Total(w, Slos(S))
  <2>1. TeamPage(sc, t).risk = RiskOf(sc, TeamPage(sc, t).slos)
    BY DEF TeamPage
  <2>2. TeamPage(sc, t).slos = Slos(S)
    BY TeamPageSlos, Zenon
  <2>3. S \in SUBSET S
    OBVIOUS
  <2> HIDE DEF Slos, S, w
  <2>4. RiskOf(sc, Slos(S)) = Total(w, Slos(S))
    BY <1>1, <1>3, <2>3, RiskIsTotal
  <2> QED
    BY <2>1, <2>2, <2>4, Zenon
<1>8. v \in [sc.services -> Nat] /\ \A s \in sc.services : v[s] = ServicePage(sc, s).risk
  <2>1. ASSUME NEW s \in sc.services
        PROVE  /\ Total(w, SlosOfService(sc, s)) \in Nat
               /\ Total(w, SlosOfService(sc, s)) = ServicePage(sc, s).risk
    <3> HIDE DEF w
    <3>1. RiskOf(sc, SlosOfService(sc, s)) = Total(w, SlosOfService(sc, s))
      BY <1>1, <1>4, RiskIsTotal
    <3>2. Total(w, SlosOfService(sc, s)) \in Nat
      BY <1>1, <1>4, UnitsFinite, FS_CardinalityType DEF Total
    <3>3. ServicePage(sc, s).risk = RiskOf(sc, SlosOfService(sc, s))
      BY DEF ServicePage
    <3> QED
      BY <3>1, <3>2, <3>3
  <2> HIDE DEF w
  <2> QED
    BY <2>1
<1>9. ASSUME NEW T \in SUBSET S, NEW s \in T
      PROVE  Total(w, Slos(T)) = v[s] + Total(w, Slos(T \ {s}))
  <2>1. PICK R \in SUBSET S : R = T \ {s}
    OBVIOUS
  <2>2. v[s] = Total(w, SlosOfService(sc, s))
    BY <1>2
  <2> HIDE DEF w, v, S
  <2>3. /\ Slos(T) = SlosOfService(sc, s) \cup Slos(R)
        /\ SlosOfService(sc, s) \cap Slos(R) = {}
    BY <1>5, <2>1
  <2> HIDE DEF Slos
  <2>4. Total(w, SlosOfService(sc, s) \cup Slos(R))
          = Total(w, SlosOfService(sc, s)) + Total(w, Slos(R))
    BY <1>1, <1>3, <1>4, <2>3, TotalOfBoth
  <2>5. Total(w, Slos(T)) = Total(w, SlosOfService(sc, s) \cup Slos(R))
    BY <2>3, Zenon
  <2> QED
    BY <2>1, <2>2, <2>4, <2>5
<1>10. h[S] = Total(v, S)
  <2>1. h[{}] = 0
    BY <1>6, TotalOfNone
  <2>2. ASSUME NEW T \in SUBSET S, T # {}
        PROVE  \E s \in T : h[T] = v[s] + h[T \ {s}]
    <3>1. PICK s \in T : TRUE
      BY <2>2
    <3>2. h[T] = Total(w, Slos(T)) /\ h[T \ {s}] = Total(w, Slos(T \ {s}))
      OBVIOUS
    <3> HIDE DEF h, w, v, Slos, S
    <3> QED
      BY <1>9, <3>2
  <2>3. v \in [sc.services -> Nat]
    BY <1>8
  <2> HIDE DEF h, w, v, Slos, S
  <2>4. TakesAll(v, S, h)
    BY <2>1, <2>2 DEF TakesAll
  <2> QED
    BY <1>2, <2>3, <2>4, OnlyTotal
<1>11. h[S] = Total(w, Slos(S))
  OBVIOUS
<1> HIDE DEF h, w, v, Slos
<1>12. RiskOfServices(sc, S) = Total(v, S)
  <2> HIDE DEF S
  <2>1. \E g : Sums(v, S, g)
    BY <1>2, <1>8, TotalsFold
  <2>2. PICK g : Sums(v, S, g) /\ RiskOfServices(sc, S) = g[S]
    BY <1>2, <1>8, <2>1, ServicesFold
  <2>3. g[S] = Total(v, S)
    BY <1>2, <1>8, <2>2, FoldIsTotal
  <2> QED
    BY <2>2, <2>3
<1> QED
  BY <1>7, <1>10, <1>11, <1>12

-----------------------------------------------------------------------------
(* The pages that are rendered.                                            *)

\* A page of rows with ids of their own is finite.
LEMMA PagesFinite ==
  ASSUME NEW sc \in Scenes, PagesUnique(sc)
  PROVE  IsFiniteSet(sc.services) /\ IsFiniteSet(sc.slos) /\ IsFiniteSet(sc.events)
<1>1. ASSUME NEW rows, UniqueIds(rows), \A r \in rows : r.id \in Ids
      PROVE  IsFiniteSet(rows)
  <2>1. \A r \in rows : r.id \in Nat /\ 0 < r.id /\ r.id <= MaxId
    BY <1>1, BoundAssumption DEF Ids
  <2> QED
    BY <1>1, <2>1, BoundAssumption, RowsCounted
<1>2. UniqueIds(sc.services) /\ UniqueIds(sc.slos) /\ UniqueIds(sc.events)
  BY DEF PagesUnique, Names
<1>3. /\ \A r \in sc.services : r.id \in Ids
      /\ \A r \in sc.slos : r.id \in Ids
      /\ \A r \in sc.events : r.id \in Ids
  BY DEF Scenes, Service, SLO, Burn
<1> QED
  BY <1>1, <1>2, <1>3

LEMMA UniquePagesAgree ==
  ASSUME NEW sc \in Scenes, PagesUnique(sc)
  PROVE  RisksAgree(sc)
<1>1. UniqueIds(sc.services)
  BY DEF PagesUnique, Names
<1>2. IsFiniteSet(sc.services) /\ IsFiniteSet(sc.slos) /\ IsFiniteSet(sc.events)
  BY PagesFinite
<1>3. ASSUME NEW t \in sc.teams
      PROVE  /\ OwnershipCard(sc, t) = TeamPage(sc, t)
             /\ \A s \in ServicesOfTeam(sc, t) :
                  /\ ServiceCard(sc, s).risk = ServicePage(sc, s).risk
                  /\ ServiceCard(sc, s).slos = ServicePage(sc, s).slos
             /\ TeamPage(sc, t).risk =
                  MapThenSumSet(LAMBDA s : ServicePage(sc, s).risk, ServicesOfTeam(sc, t))
  BY <1>1, <1>2, OwnershipAgrees, CardsAgree, TeamRiskAddsUp DEF RiskOfServices
<1> QED
  BY <1>3, Zenon DEF RisksAgree

-----------------------------------------------------------------------------
(* The theorems.                                                           *)

THEOREM AppInvariance == Spec => []AppInv
BY AppInit, AppStep, PTL DEF Spec

\* To the tables the application is one client more: each of its steps is a
\* call of the control plane, or none.
THEOREM AppIsClient == Spec => [][StoreNext]_store
<1>1. AppInv /\ [Next]_vars => [StoreNext]_store
  BY StepIsCall DEF AppInv, TypeOK
<1> QED
  BY <1>1, AppInvariance, PTL DEF Spec

\* References hold and objects follow their texts while the application is used.
THEOREM TablesSoundInUse == Spec => []StoreIsSound
<1>1. AppInv => StoreIsSound
  BY DEF AppInv, IInv
<1> QED
  BY <1>1, AppInvariance, PTL

\* Whatever refreshes overlap, what is rendered and queued are typed pages, and
\* none has more rows than a page.
THEOREM AppTyped == Spec => []TypeOK
<1>1. AppInv => TypeOK
  BY DEF AppInv
<1> QED
  BY <1>1, AppInvariance, PTL

\* While the rendered scene is that of the rendered lists, every button leads to
\* a page, pages say the same of a team or a service, and the colours of every
\* drilldown agree, however refreshes overlapped and effects ran late.
THEOREM PagesAgreeAlways == Spec => []PagesAgree
<1>1. AppInv => PagesAgree
  <2> SUFFICES ASSUME AppInv, scene = Scene(lists, scene.definitions)
               PROVE  /\ LinksLead(scene)
                      /\ RisksAgree(scene)
                      /\ ColoursAgree(scene, Measured)
    BY DEF PagesAgree
  <2>1. scene \in Scenes /\ PagesUnique(scene)
    BY DEF AppInv, TypeOK
  <2>2. scene.slos = lists.slos
    BY DEF Scene
  <2>3. Covers(scene.definitions, scene.slos)
    BY <2>2 DEF AppInv, DefinitionsFollow
  <2>4. scene.definitions \subseteq Definition
    BY <2>1 DEF Scenes
  <2>5. ColoursAgree(scene, Measured)
    BY <2>4, MeasuredAssumption, ColoursOfDefinition DEF ColoursAgree
  <2> QED
    BY <2>1, <2>3, <2>5, CoveredLinksLead, UniquePagesAgree
<1> QED
  BY <1>1, AppInvariance, PTL

\* The refresh that follows a creation has the created row in the page it sets,
\* however the calls of others fall between its own.
THEOREM CreatedShows == Spec => CreatedIsShown
<1> DEFINE Shown ==
      \A r \in refreshes, name \in Names :
        Finish(r) /\ r.for \in IdsOf(Table[name]) /\ lastId - r.for < PageSize
          => r.for \in IdsOf(queued'.lists[name])
<1>1. AppInv /\ [Next]_vars => Shown
  <2> SUFFICES ASSUME AppInv, NEW r \in refreshes, NEW name \in Names,
                      Finish(r), r.for \in IdsOf(Table[name]), lastId - r.for < PageSize
               PROVE  r.for \in IdsOf(queued'.lists[name])
    OBVIOUS
  <2>1. queued'.lists = r.got /\ r.got[name] # Null
    BY DEF Finish
  <2>2. RefreshKnows(r)
    BY DEF AppInv
  <2>3. r.for \in IdsOf(r.got[name])
    BY <2>1, <2>2 DEF RefreshKnows
  <2> QED
    BY <2>1, <2>3
<1> QED
  BY <1>1, AppInvariance, PTL DEF Spec, CreatedIsShown

=============================================================================
