# Verification of Event Deltas

Event Deltas is a set of Grafana plugins and one Go service, the SLO control
plane (`services/slo-control-plane`). In the service, evaluators decide when an
SLO burns its error budget, an outbox carries their events to ClickHouse, and a
reconciler turns OpenSLO documents into Grafana alert rules, all over one Postgres
database and with any number of processes. In the browser, a person selects a
region of a heatmap and panels compare it with the rest of the window, over
queries whose answers come in any order; an application shows teams, services and
SLOs from lists it reads one by one. This directory holds TLA+ models of both
halves, the TLC configurations that check them and proofs that TLAPS checks.

`PROJECT.json` is the index: components, runs, mutants, the source lines behind
each definition (`map`), hazards, findings and theorems. Paths below are relative
to `services/slo-control-plane/internal` unless they start with `packages/`,
`plugins/`, `eval/` or `docs/`.

## The system

| Component | State | Operations | Talks to |
|---|---|---|---|
| Evaluator (`evaluator/`, `cmd/slo-evaluator`) | `slo_burn_state`, time of the pass | `EvaluateOnce` for all SLOs, `persistEvaluation` for one | ClickHouse traces; Postgres, one transaction per SLO |
| Outbox (`store/outbox.go`, `outbox/worker.go`, `burn/sink.go`) | `outbox_events`, `burn_event_delivery_attempts`, `burn_events_view`, ClickHouse `slo_burn_events` | claim, insert, mark delivered, mark for retry | evaluator (producer), alert queries and API (readers) |
| Alert reconciler (`reconciler/`, `alerts/spec/`, `grafana/`, `store/alert_state.go`) | `slo_alert_state`, `slo_alert_reconcile_attempts`, Grafana rule groups | `ReconcileOnce`: apply each SLO, collect garbage | Grafana HTTP API |
| Store and HTTP API (`store/store.go`, `http/server.go`) | `teams`, `services`, `slos`, `slo_openslo_objects` | create, read, update, delete | all of the above through Postgres |
| Migrations (`store/migrate.go`) | `schema_migrations` | check, apply and record, at the start of each process | Postgres |
| OpenSLO parser (`openslo/`) | none | `ParseBundle`, `compileRuntime` | API, reconciler |
| Panels (`packages/shared-comparison`, `plugins/heatmap-panel`, `plugins/timeseries-selection-panel`, `plugins/heatmap-app`) | the selection, the results shown | select, clear, run the queries of a selection | each other through events; data sources asynchronously |
| SLO application (`plugins/slo-app`) | four lists, the scene built from them, SLO definitions, a drilldown | refresh, create, navigate | HTTP API; data sources |
| Evaluation harness (`eval/`) | conversation, verdicts | run a cell, judge it | language model, data sources |

Hard behaviours, by component (each is listed with its line under `hazards`):

* *Outbox.* Workers of several replicas claim at once; a process stops between a
  claim and a mark; a commit or an insert takes effect although it reports an
  error; errors of the marks and of the view insert are dropped.
* *Evaluator.* Evaluators overlap (loop, CronJob, rolling deployment) on a row
  that may not exist yet; `now` is taken once per pass; keys collide within a
  minute and roll an evaluation back; the API deletes the SLO in between.
* *Reconciler.* The garbage collection keeps only what this pass has seen, and
  the pass stops after a batch; steps towards Grafana and Postgres fail
  separately.
* *Store.* Foreign keys that restrict or cascade, read-modify-write updates.
* *Panels.* Answers arrive after the selection they belong to is gone; each
  subscription of a scene names by hand whom it tells; data refreshes under a drag;
  limits on ids, values and cards decide what a comparison sees.
* *SLO application.* Four lists of one refresh are read at four moments, refreshes
  overlap, and the definitions of SLOs are a global that two writers race on.

What makes each correct: every event reaches ClickHouse and is never claimed
twice (outbox); state and announced events agree, each transition once
(evaluator); Grafana holds exactly the rules the SLOs ask for (reconciler);
references resolve and objects follow their text (store); what is shown belongs to
the current selection and is true of the spans in it (panels); pages agree with
each other and show what was created (SLO application).

## Modules

| Module | Models | Runs |
|---|---|---|
| `BurnDelivery` | what the outbox promises: at-least-once, final once acknowledged | refined in `outbox_safety` |
| `BurnOutbox` | outbox table, workers, ClickHouse table, view | `outbox_safety`, `outbox_live`, `outbox_stop` |
| `BurnOutbox_proofs` | theorems about `BurnOutbox` | TLAPS |
| `BurnEvaluator` | evaluators, `slo_burn_state`, committed outbox rows, deletion of SLOs | `evaluator_pair`, `evaluator_race` |
| `BurnEvaluator_proofs` | types, foreign key, burns and breaches, agreement of state and announced events | TLAPS |
| `AlertReconciler` | reconcilers, Grafana rule groups, `slo_alert_state`, the API's changes of SLOs | `reconciler_live`, `reconciler_batch`, `reconciler_status` |
| `AlertReconciler_proofs` | theorems about `AlertReconciler` | TLAPS |
| `CurrentAnswers` | what a comparison panel promises: outcomes of the question it was last asked | refined in `scene` |
| `InvestigationScene` | explorer and drilldown: variables, subscriptions, the three panels and their queries in flight | `scene` |
| `InvestigationScene_proofs` | theorems about `InvestigationScene` | TLAPS |
| `SelectionAxes` | pixels, times and durations of the two selection panels | (used below) |
| `SelectionPanels` | drags, boxes, menus and published selections, under refreshing data | (used below) |
| `SpanComparison` | rows, scores and cards of a comparison; saturation | (used below) |
| `SelectionAnalysis` | composes the three: from a drag to the cards that explain it | `selection`, `selection_nano` |
| `Selection_proofs` | theorems about the four | TLAPS |
| `ControlPlane` | tables of teams, services, SLOs, objects, burn events; the calls of the API | (used below) |
| `ControlPlane_proofs` | types and soundness of the tables | TLAPS |
| `SloPages` | the pages of the SLO application as functions of a scene | (used below) |
| `SloApp` | composes the two: forms, refreshes, renders and the global definitions | `sloapp` |
| `SloApp_proofs` | theorems about `SloApp` and its pages | TLAPS |
| `FiniteSums` | least, greatest and best of finite sets, sums over them | TLAPS |
| `MC*` | instances for TLC | |

`BurnOutbox` and `InvestigationScene` instantiate what they refine through a
mapping. The modules of the service meet in the tables they share: the evaluator's
`Commit` is what the outbox calls `Enqueue`, `DeleteSLO` is an action of evaluator,
reconciler and store, and `InsertBurnEventView` of the outbox fills the table whose
rows `ControlPlane` calls `events`.

### BurnOutbox

State and code correspond one to one: `status`, `retryCount`, `wait` (seconds
until `next_attempt_at`) and `born` (`created_at`) are columns of
`outbox_events`; `attempts` is `burn_event_delivery_attempts`; `copies` counts
the rows of an event in `slo_burn_events`; `view` is `burn_events_view`, and
`missed` is history: the events whose insert into the view failed. A worker
is a `pc` in `flushOnce` with the rows its open transaction has locked, the
events it has claimed and not finished, and the one in hand.

`flushOnce` is split wherever another process can act or a call can fail.
`ClaimSelect` is the statement of `ClaimPendingOutbox` with its row locks (SKIP
LOCKED, oldest first, at most `BatchSize`); `ClaimCommit`, `ClaimRollback` and
`ClaimAckLost` are its three ends. `InsertOK` and `InsertError` are the ClickHouse
insert; a failed one may have stored the row, which stays because `observed_at`
is part of the sorting key. `MarkOutboxRetry`, `InsertBurnEventView` and
`MarkOutboxDelivered` are the calls of these names, `MarkFails` an error of a mark
that `flushOnce` drops. `Stop` covers a kill and a SIGTERM: the cancelled context
fails every remaining call of the batch, the retry included.

`created_at` is when a transaction began, so a transaction that commits late may
be older than rows that are already there: `Enqueue` chooses any time up to now.

Mutants stand before the operator they replace and are used by no action.

### BurnEvaluator

One action per statement of `persistEvaluation`, since READ COMMITTED
transactions interleave between statements: `Begin` (the queries, the
classification and `GetBurnStateForUpdate`), `EnqueueBurnEvent`,
`EnqueueBreachEvent`, `UpsertBurnState`, `Commit`. Waiting for a lock is a
disabled action: on the row of `slo_burn_state` (`Locks`), on an idempotency key
another transaction has inserted (`Pending`), and for `DeleteSLO` on the
evaluator's row. A committed key and a missing SLO roll the evaluation back;
`Fail` stands for every other error, a deadlock victim's included. `log` is what
an SLO's committed outbox rows say, in the order they were committed.

Compliances are integers in units of 1/`Scale`, burn rates tenths, so
`BurnsAt` and `IsBreached` are the inequalities of the code multiplied out. The
code computes in floating point; values at the exact threshold are outside of
what the model says.

### AlertReconciler

`doc` and `age` are the rows of `slos` (`openslo_yaml`, the order of
`created_at`), `alertState` is `slo_alert_state` by its unique key (SLO and kind)
and `grafana` holds the managed rules of each rule group. A reconciler is a `pc`
in `ReconcileOnce` with what the pass has in its local variables: the documents it
has listed (`inputs`), the SLOs of its batch it has not come to (`todo`),
`desiredRuleUIDs` (`keep`), the rules whose outcome it has yet to note (`noting`,
`applied`) and what is left to delete (`garbage`, `cur`).

A pass has one action per call. `ListInputs` is the query; `SkipSLO` and
`ApplySLO` are the two ways through the loop, `UpsertState` is one `upsertState`,
`ListRules`, `DeleteRule` and `ForgetRule` are the calls of `garbageCollect`, and
`EndPass` is its return. Every call may fail, and a failed call to Grafana may
have taken effect. The code goes on after each failure but that of `ListRules`,
and so does the model. `Stop` is a kill or the SIGTERM that fails all that is
left of the pass.

A document is the sequence of its alert conditions, of which `alertsFromOpenSLO`
takes the first of each kind (`Chosen`) and names it (`RuleName`). Documents of
before OpenSLO no longer parse and are skipped without ever having had rules:
they are the empty sequence. The UID of a rule is a hash of SLO, kind and name,
taken to be injective. Query text, labels and annotations are one value
(`Texts`).

### InvestigationScene

A `setState` and the subscriptions it fires run in one turn of the browser's event
loop and are one action: `Select`, `ClearSelection`, `ToggleFilter`, `AddFilter`,
`FilterToPod`, `ChangeService`, `FocusService`, `ViewSignals`, `ChangeMode`,
`ChangeSamples`. Only the `await` of a query ends a turn, so `Answer(p)` gives one
panel the answer of any query it has in flight, or its error, between any two of
them. A query is the set of clauses of its WHERE (`Clause`: filter, service, route, status),
with the selection it is about or, for the heatmap, its limit and shading.

`ScopesAgree` has two parts. By `UpToDate` every query on the screen is the one the
variables ask for now. By `OneScope` the panels compare spans of the heatmap: in the
explorer those with the clauses of the heatmap and, in the errors mode, failed ones
only, which the heatmap shades and does not select. The drilldown is an exception,
stated as it is: its heatmap selects route and service of the SLO
(`detailScene.ts:33-37`), of which its panels are told nothing
(`detailScene.ts:179-180`), so they compare the selection over all routes and
services. `plugins/slo-app/README.md:3-6` speaks of what "the burning requests have in
common"; whether the panels should have the clauses is for its authors to say.

`heatmapSql`, `stripSql` and `detail` are the queries the scene rewrites,
`panel[p]` the state of `AttributeComparisonPanel`, `RepresentativeTracesPanel` and
`SaturationPanel` with the queries they wait for. Only the last keeps a
`requestId`, and drops answers of older queries. `View` is what a panel draws.
`question` and `overlap` are history, which no action reads.

### SelectionAxes, SelectionPanels, SpanComparison, SelectionAnalysis

`SelectionPanels` is `HeatmapPanel` and `TimeseriesPanel` from mouse to event: one
action per handler and menu item, and `Refresh`, `ResetWindow` for what the
dashboard does to a panel at any time. `drag`, `box` and `menu` are its refs and
state in pixels; `published` is the last event. `SelectionAxes` has their scales,
computed in fractions that stay exact; the logarithm is a table (`Log10`) of which
only monotony is assumed. `SpanComparison` has the predicate of a selection, the
rows of the comparison query with its limits, the scores and the ranking, and
p95-based saturation. A box is drawn over durations as the panel reads
them (`ReadLevel`) and compared with the column as it is stored (`StoredLevel`), which
differs for nanoseconds taken for milliseconds. `SelectionAnalysis` joins them: what is published is compared
in the same step, and its properties relate the cards to the stored spans, not to
the rows that were read. `shown` is the comparison on the screen, or none. Ties at
a limit are a choice: `Comparisons` are the answers a question can have, and its
rows are folded together attribute by attribute (`RowAnswers`). Shares are rounded to
thousandths where the code has floating point.

### ControlPlane, SloPages, SloApp

`ControlPlane` has one action per call of the API that writes. A statement or a
transaction is one step: foreign keys make it lock what it refers to. `UpdateSLO`
reads outside its transaction and is `BeginUpdateSLO` and `EndUpdateSLO`, with
other calls between the two. Ids stand for creation time.

In `SloApp` a refresh reads each list in a step of its own (`Answer`), and sets
all four with the definitions in one (`Finish`). What it sets is `queued` until
`Render`, and the effect on the lists (`RunEffect`), which builds the scene a second
time from the global `definitions`, comes after the render. `onCreate` is the click
and the handling of the request: a request that is refused or lost before it is
handled changes nothing. `Reply` begins the refresh of a creation, `Lose` loses the
answer of one that was stored. A failed refresh changes nothing. The form offers
what the rendered scene has. `SloPages` says what each page states and where its
buttons lead: risks, colours of compliance and budget, routes.

## Runs

| Run | Question | Bounds |
|---|---|---|
| `outbox_safety` | claims exclusive and current, attempts complete, duplicates paid for by retries, nothing falsely delivered, what is delivered is visible unless its own insert into the view failed, losses bounded, delivered is final, refinement | 3 events, 2 workers, batches of 2, every fault, 2 faults that cost a claim, 1 refusal per event |
| `outbox_live` | every enqueued event is delivered | 2 events, 2 workers, claims rolled back and inserts into the view failing at will, 2 refusals per event |
| `outbox_stop` | the same with one stop: **violated** | one stop |
| `evaluator_pair` | state and announcements agree, severity changes announced at once, announcements spaced, nothing after deletion | 2 evaluators, an SLO already evaluated, 3 ticks (2 to a minute), interval 2 |
| `evaluator_race` | the same from the first evaluation: **violated** | 2 evaluators, 3 ticks |
| `reconciler_live` | one rule per alert, only orphans deleted, Grafana and `slo_alert_state` come to agree with the documents | 2 SLOs, 2 replicas, batches of 2, 2 changes of SLOs, 1 fault |
| `reconciler_batch` | only orphans deleted, with more SLOs than a batch holds: **violated** | 1 replica, batches of 1, 2 changes, no fault |
| `reconciler_status` | `slo_alert_state` comes to list the alerts there are: **violated** | 1 replica, 2 changes, no fault |
| `scene` | heatmap and panels ask about one scope, but for the clauses of its SLO that the drilldown does not hand to its panels; nothing stale is shown but after overlapping queries, and by the numbered panel never; no panel loads for ever; refinement | both scenes, 3 actions of the person, begun with at most 1 query in flight |
| `selection` | box and band select what they cover; cards are true, complete, and keep traces whole; a cleared box is announced | both panels and axes, 2 presses, 10 points on a 40 x 40 plot, limits of 2 and 3 |
| `selection_nano` | longer spans are drawn higher, in a column of nanoseconds: **violated** | the same |
| `sloapp` | tables sound, pages agree, what was created is shown | two stores: one with full pages, 2 changes by others and 1 creation; a smaller one with 2 creations; pages of 2 rows; 2 refreshes, 1 answer and 1 update under way |

Why the bounds suffice. Two workers and batches of two of three events give a
full batch, a partial one, a row left behind and a competitor; a second fault
lets one fault follow another's recovery. In the evaluator, ticks 2 and 3 fall
into one minute, so keys collide; two ticks are the continue interval, so
announcements fall due; evaluators can hold the time of an earlier tick. The four
compliances give the four outcomes of a measurement with the default rates: no
burn, an exhausted budget without a burn, a slow burn, a fast burn.

For the reconciler, three documents (no alert; one; both, with an unnamed
condition and one too many) give every change that matters: an alert added,
dropped, renamed, and a document left without any. Two changes create an SLO and
change or delete it, or create two SLOs, during the passes of two replicas; the
one fault may hit any call of either replica.

In a scene, three actions are a selection and two changes of what the panels are
asked about, each begun with at most one query left unanswered, in any order of the
answers: a superseded query,
a clear with an answer outstanding, a filter set from a card of an older answer.
The theorems hold for any number of actions and queries.

On the selection panels, two presses let a drag follow a box, a menu or a zoom.
The ten points are the corners of the plot, points in its middle and on its edges,
and one in the margin; drags between them go in every direction, or nowhere. The
stored spans and the limits are chosen together: with `MaxInlineIds` 2,
`ValuesPerKey` 2, `MaxValues` 3, `MaxBars` 2 and `MaxCards` 2 (5000, 20, 200, 10
and 10 in the code), a selection goes by its ids or, with too many, by the box,
values are cut off, and one attribute has too many values for a card. The
thresholds of 5 occurrences and 20 rows are those of the code, with spans that
stand for several.

In the SLO application, a page holds two rows (50 in the code) and the queue and
tables of the pages one (20, 8 and 10), so each limit is passed. In the first
store a third team pushes the first off its page, and the two changes of others
are an update overtaken by a deletion, a row and what refers to it, or an event and
a change of its SLO, before, between and after the four readings of a refresh. In
the second, what is created last arrives while the refresh of the row before it
reads. Two refreshes are under way at once, in either order of their ends.

Events, workers and evaluators are symmetric and `outbox_safety` and
`evaluator_pair` use that; the other runs, those with liveness among them, use no
symmetry. `CHECK_DEADLOCK FALSE` is said
of the evaluator, whose behaviours end at `MaxClock`, and of the browser runs,
where a person may leave the page alone.

Fairness (`FairSpec` of `BurnOutbox`): time passes, the ticker of a running
worker fires, a running worker finishes what it has begun and a stopped one is
started again, each weakly fair. The commit of a claim is strongly fair: Postgres
may roll back any number of claims but not all of them. Delivery is weakly fair
and an event is refused at most `MaxRetry` times, which bounds the environment,
not the worker. Nothing obliges an evaluator to enqueue.

`FairSpec` of `AlertReconciler` makes the pass of each replica weakly fair: its
ticker fires and a pass goes on to its end. The bounds on changes and faults are
what "once the SLOs stop changing and calls stop failing" means. A pass that
`Stop` has cut short is followed by another, as the process is restarted.

`FairSpec` of `InvestigationScene` makes the answers of each panel weakly fair: a
request of a browser, and of the proxy behind it, ends in an answer or an error,
and a panel takes each of them in a turn of its own. Fairness is by panel, so it
does not say in which order answers come. Nothing obliges the person to act.

Findings:

* `outbox_stop`: a worker that stops between its claim and its mark leaves its
  batch in `processing`, which nothing ever claims again
  (`store/outbox.go:36,42`); `docs/slo-control-plane.md:20` has every claimed row
  marked or retried.
* `evaluator_race`: `FOR UPDATE` locks nothing where there is no row, so the
  first evaluations of an SLO by two evaluators can leave an announced burn that
  the state does not know, and no `burn_resolved` follows
  (`evaluator/evaluator.go:156`, `docs/slo-control-plane.md:17`).
* `reconciler_batch`: the loop stops after `BatchSize` SLOs, newest first, and the
  garbage collection takes the rules of all others for orphans
  (`reconciler/worker.go:78,176`). Beyond a batch the oldest SLOs have no alerts.
* `reconciler_status`: a document that drops one of its two alerts leaves that
  alert's row in `slo_alert_state`, since the rule group is replaced and garbage
  collection never sees the rule (`reconciler/worker.go:171`,
  `api/openapi/slo-control-plane.openapi.yaml:306`).
* `selection_nano`: durations above 1e9 are taken for nanoseconds and all others for
  milliseconds, whatever the column is called, so in a `durationNano` column a span
  of half a second is drawn far above one of two seconds
  (`plugins/heatmap-panel/src/components/HeatmapPanel.tsx:130`,
  `plugins/heatmap-panel/README.md:16`).

## Proofs

`BurnOutbox_proofs` proves, for every set of events and workers, batch size,
choice of faults and bounds: type correctness, the six safety invariants and the
action property of `outbox_safety`, the refinement of `BurnDelivery`, and that what
is delivered is visible unless its own insert into the view failed
(`ViewFollowsDelivery`), which `missed` remembers.

Assumptions: those `BurnOutbox` names, all of which TLC evaluates. The bounds
are natural numbers, `BatchSize` is positive, `None` is no claimed event, and
powers of two are natural numbers (`PowerAssumption`; the provers have no theory
of exponentiation).

The argument. None of the invariants is inductive alone. `IInv` adds what each
place of `flushOnce` has in hand (`ControlInv`), that only pending rows are
locked and by one worker (`LockInv`), that no event is in two batches
(`BatchInv`), and that an event's writes exceed its recorded retries only while
its worker has not recorded the outcome (`CountInv`). Exclusive claims rest on
`LockInv` before the commit and on the status after it; current claims on the
fact that only the holder of a row rewrites it (`OneHolder`, `CurrentRow`); the
bound on duplicates on `CountInv`. The steps are proved one conjunct at a time.
`LossesBounded` counts: `LossInv` says that what a worker holds is never more than a
batch and that orphans are no more than a batch for each fault, so that a stop,
which orphans all its worker holds, and a failed mark, which orphans one event, each
pay for what they lose, and no other step moves an event from held to orphaned. It
also says that finitely many events are queued, as `Events` may be infinite.
The refinement maps an insert to `Write`, the mark to `Acknowledge` and
everything but `Enqueue` to a stutter.

`BurnEvaluator_proofs` proves, for every set of SLOs and evaluators, target,
threshold, interval and clock: type correctness, that nothing is announced once
an SLO is deleted (`Silence`), and that an SLO that burns is breached
(`BurnsAreBreaches`), the last for thresholds of at least one: a rate below one
is no loss of budget. The strengthening is that a transaction is open exactly
inside `persistEvaluation` (`ControlInv`) and that the foreign key holds of the
rows and of the row a transaction has written (`ForeignKeyInv`): the commit of
any event needs its SLO.

It also proves the agreement of `slo_burn_state` and the
announced events (`AnnouncedIsStored`), of the severity (`SeverityIsCurrent`) and
the spacing (`AnnouncementsAreSpaced`) under `Serial`: every SLO has been evaluated
before, whatever the number of evaluators, or there is but one evaluator.
`evaluator_race` shows that two evaluators need the former. `RowInv` is the place
that needs it: a transaction has read the row that is still there, and no other
transaction has. `RowsInv` says what
the rows of a transaction announce at each place of `persistEvaluation`;
`AgreeInv` joins log and state for every SLO, and only `Commit` disturbs it.

`AlertReconciler_proofs` proves type correctness and `OneRule` for every set of
SLOs, documents, groups and replicas, and `OrphansOnly` for batches that hold
every SLO and groups of their own. `reconciler_batch` shows that the first is
needed; the second fails only where two ids share their first eight characters.
`GrafanaInv` says that a rule is in the group of its SLO, with no other of its
kind, which replacing a group and deleting a rule both keep. `KeepInv` follows a
pass: what its documents ask for is in `keep` or still in `todo`, and never in
`garbage`.

`InvestigationScene_proofs` proves, for every set of selections, services, filters
and samples and any number of actions and queries in flight: type correctness,
`ScopesAgree`, `LoadingIsAwaited`, `NeverStale`, `StaleOnlyByOverlap` and the refinement
of `CurrentAnswers`. That the scopes agree needs `DrilldownInv`: nothing in a drilldown
changes the service or the mode, so that its panels ask with the filters alone. It assumes that `None` is no selection, question or answer.
The methods of a panel are operators on its state, so what each keeps is a lemma
about one panel (`RunQueryLemma`, `SetSelectionLemma`, `SettledLemma`), and an
action's step follows from them for all panels. `LastInv` ties the numbered panel's
`loading` to the one query in flight that carries its `requestId`, so that an answer
with another number cannot matter; `LoneInv` says of the others that an answer
meets another question only when queries overlapped. In the refinement an answer
that is dropped is a stutter, a repeated question another `Ask`.

`ControlPlane_proofs` proves the types (`TablesTyped`) and the soundness
(`StoreSound`) of the tables for any number of rows and updates under way: every
reference resolves, slugs are unique, and the objects of an SLO are those of its
text. `IdsGiven` makes the id of a new row new, `SlosDistinct` gives an id one SLO, so
that deleting a service removes just its SLOs' objects. An `UpdateSLO` whose SLO
was deleted meanwhile changes no row, which is why what it has read needs no
invariant.

`SloApp_proofs` joins the store to its user. Every step of the application is a call
of the control plane or leaves the tables alone (`AppIsClient`), so the invariant of
`ControlPlane_proofs` holds of the tables in use (`TablesSoundInUse`). `AppInv` adds
what the application relies on. A refresh under way knows (`RefreshKnows`) a page of
each table it has read, of rows with ids of their own, and among them the row it was
begun for, unless that is gone or too old for a page: `CreatedShows` is what this
says when the refresh ends. And the definitions are those of the lists set last, so
that a scene built from the lists it is rendered with has them all
(`DefinitionsFollow`). `PagesAgreeAlways` then is a fact about scenes. That the risk
of a team is the sum over its services rests on the sums of `FiniteSums`: the fold
of the code is shown to be the number of units counted, whatever the order, by
taking the smallest set on which they could differ. That the colours of compliance
and of budget agree is arithmetic on what the two queries round.

`Selection_proofs` is about every plot, number of rows, table of logarithms, answer,
point of the mouse, population of spans, set of attributes and samples. Types and
what a gesture announces (`SelectionTyped`, `ClearsAnnounced`) go action by action.
`BandsAreRanges` and `BoxesSelectWhatTheyCover` are facts about the scales.
`CellOfPlace` is the one for an axis: a box that covers a cell covers what is counted
in it, and one that selects a value touches its cell, the last column included, which
also takes what rounds up to the edge. It serves for both axes. The proof found an
exception that the instances of TLC never reached: when all spans of the panel are
below 0.1 ms the axis ends below where it begins (`HeatmapPanel.tsx:159`), and
where a span is drawn says nothing of where a box is read. The property names it.

What the panels show is at every moment an answer to its own question
(`AnswersAreShown`), so the properties of cards are facts about a comparison.
`CardsTrue` follows the winner of a card back through the score, the rows kept, and
the totals to the spans. Its centre is `ScoreBelowEffect`: the difference shown is never
below the score, although shares and square root are rounded, because the spread
that is taken off, 1.96 times the error plus one, exceeds what moving both shares
towards a half and rounding them has added. `SeparatorsShown` needs the reverse: at
five spans against two the score of a complete separation is positive
(`SeparatorScores`), and its row survives the cut of the query, as no other row of the
attribute has a span inside. Winners, bars and kept rows are choices: they exist
because a finite set ordered by a strict order has a best element, and a best set of
each size (`HasBest`, `HasTop`). `SaturationFollows` needs that the order of scores
is transitive, with zero as a denominator of the counters, and that p95 lies between
the least and the greatest sample.

Assumptions on constants, each named in the module that declares it and evaluated by
TLC: times are integers, counts natural numbers, answers finite and durations in the
table of logarithms; `Log10` rises, and passes -1 at 0.1 ms as the logarithm does;
the axis options offered are the two of the panel; `Null` is no value; the target
of a text that parses is between 0 and 1 (`openslo/parser.go:159`); the tables a person
finds are such as calls lead to. A resource has at most 20 samples, since
`P95` stands for the percentile of so many only.

Only model-checked: all liveness under fairness (`EveryEventDelivered`, `Converges`,
`LoadingEnds`), out of the provers' reach. Every safety and action property of a
passing run is a theorem; `AnnouncedIsStored` and its two companions, `OrphansOnly` and
`BurnsAreBreaches` under the conditions above.

## Not modelled

Wording, logging, tracing, configuration parsing, rendering; the text of
ClickHouse queries; generated code; the trace generator; deployment files.
Postgres and ClickHouse are modelled by what the code relies on: row locks,
unique keys, foreign keys, READ COMMITTED, and inserts whose outcome may be
unknown.

* *Evaluation harness* (`eval/`): it runs offline, its outcome is the language
  model's, and it shares no state with the rest.
* *Migrations*: run once per start; processes that start together collide in an
  insert at worst.
* *OpenSLO parser and migration command*: one document in, objects out; a command
  that runs alone. Texts that parse and texts that do not are told apart.
* *Panels*: the trace page, the saturation strip's own query, the ranking of
  representative traces, filter texts, tooltips. A change of the time picker re-runs
  the heatmap and no panel: a scene keeps one time range.
* *SLO application*: it is never left and mounted again, while its definitions
  survive that in the code; names and metadata; pages of lists after the first, which
  it never asks for. A refresh that began before a creation may finish after the
  creation's own and hide the row until the next refresh: `CreatedIsShown` is about
  the latter.

Hazards that no property covers, beside those above (each has its note under
`hazards`): retries beyond 34, whose backoff overflows; targets changed during a pass
of an evaluator; the order of deliveries as the alert queries see it; a deleted
rule whose row in `slo_alert_state` stays since its deletion failed
(`reconciler/worker.go:179`); two SLOs that share a rule group
(`alerts/spec/spec.go:180`); traces that reach out of the box when a selection of
more than 5000 ids falls back to it, although the comment there says that "the box the
user drew says the same thing" (`AttributeComparisonPanel.tsx:163-166`), where
`TracesAreWhole` is silent; attributes that occur on one side only, whose score is
zero (`comparisonStats.ts:50`); Zoom, which keeps the published selection of the box
it clears (`HeatmapPanel.tsx:494`) and which `ClearIsAnnounced` excepts; and spans
below 0.1 ms, which are drawn in the last row and not selected with it
(`HeatmapPanel.tsx:159`), which `BoxSelectsWhatItCovers` excepts.

Two readings of the code that a model makes explicit without a property to settle
them: `computeActiveRisk` (`plugins/slo-app/src/burnSeverity.ts:26`) counts every
event but `burn_resolved`, so a resolved burn keeps its risk while its
`burn_started` is listed; and a creation whose answer is lost can be made twice, as
no idempotency key is sent (`http/server.go:232`).

## Plan

Done: outbox, evaluator, reconciler, store, scenes, selections and SLO application,
with theorems about all of them. Left, in this order:

1. Theorems: an abstract specification of what the reconciler promises (each SLO's
   group is replaced as a whole by what a document of it asks for, or goes) and
   `AlertReconciler` shown to implement it; `OrphansOnly` and `AnnouncedIsStored`
   under weaker conditions, a batch that holds what was listed and evaluators that meet
   an SLO for the first time one after the other.
2. `BurnPipeline`: evaluator, outbox and the argMax query of an alert rule; what
   an alert says compared with the state, when delivery reorders events
   (`outbox/worker.go:69`) and burn and breach events share a table
   (`alerts/spec/spec.go:99`). Its abstract specification: what an alert promises
   of an SLO.
3. `Migrations`: processes that start together.
4. `InvestigationScene` with the time picker as one of its variables.
