------------------------- MODULE InvestigationScene -------------------------
(***************************************************************************)
(* The two scenes in which a person investigates a region of a heatmap:    *)
(* the explorer of the heatmap application (deltasScene) and the drilldown *)
(* of an SLO (detailScene).  Both wire a selection, the variables of the   *)
(* scene and the panels that compare the selection with the rest of the    *)
(* window: AttributeComparisonPanel, RepresentativeTracesPanel and, in the *)
(* explorer, SaturationPanel.                                              *)
(*                                                                         *)
(* A setState and the subscriptions it fires run in one turn of the event  *)
(* loop and are one step here; the await of a query ends the turn, so the  *)
(* answers of several queries arrive in any order, between any two steps.  *)
(***************************************************************************)
EXTENDS Naturals, FiniteSets

CONSTANTS
  Selections,  \* payloads of a selection event: boxes drawn on the heatmap
  Services,    \* values of the service variable, All aside
  Samples,     \* values of the sample-size variable
  Default,     \* the one it starts with
  Attributes,  \* (key, value) pairs that a filter can name
  Pods,        \* those whose key is k8s.pod.name
  Operators,   \* operators the filter variable offers
  Route,       \* http.route of the SLO of the drilldown
  Gateway,     \* the service of its SLO, 'api-gateway'
  MaxActions,  \* bound: what the person does, over a whole behaviour
  MaxPending,  \* bound: queries in flight of the panels when they act
  All,         \* the service variable's $__all
  None         \* no selection, no question, no answer

ASSUME PodAssumption == Pods \subseteq Attributes
ASSUME OperatorAssumption == {"=", "!="} \subseteq Operators
ASSUME SampleAssumption == Default \in Samples
ASSUME BoundAssumption == MaxActions \in Nat /\ MaxPending \in Nat

VARIABLES
  scene,       \* which of the two scenes is open
  filters,     \* the ad-hoc filters variable
  service,     \* the service variable
  mode,        \* ViewModeControl.state.mode
  samples,     \* the sample-size variable
  selection,   \* SelectionState.state.selection
  heatmapSql,  \* rawSql of the query behind the heatmap, by what it says
  stripSql,    \* rawSql of the saturation strip: the service it names
  detail,      \* what the resource detail section plots, None while hidden
  panel,       \* the state of each comparison panel
  actions      \* what the person did so far

variables == <<filters, service, mode, samples>>
queries   == <<heatmapSql, stripSql, detail>>
vars == <<scene, variables, selection, queries, panel, actions>>

Modes   == {"latency", "errors"}
Filter  == [on : Attributes, op : Operators]
Panels  == {"comparison", "traces", "saturation"}

\* The panel that numbers its queries and drops the answers of old ones.
Numbered == "saturation"

\* The panels a scene is laid out with.
ExplorerPanels  == Panels
DrilldownPanels == {"comparison", "traces"}
PanelsOf(sc) == IF sc = "explorer" THEN ExplorerPanels ELSE DrilldownPanels

-----------------------------------------------------------------------------
(* The SQL the scene and the panels ask: the clauses of its WHERE, beside  *)
(* the time range, and what else the variables change of it.               *)

Clause == Filter \cup [service : Services \cup {Gateway}]
                 \cup [route : {Route}] \cup [status : {"Error"}]

\* Only = and != have a clause; other operators leave the query as it was.
Clauses(fs) == {f \in fs : f.op \in {"=", "!="}}
ServiceClauses(svc) == IF svc = All THEN {} ELSE {[service |-> svc]}
ModeClauses(m) == IF m = "errors" THEN {[status |-> "Error"]} ELSE {}

\* The explorer samples the spans of a service, under its filters; in the
\* errors mode it shades those that failed and leaves none out.
BuildHeatmapSql(fs, svc, m, n) ==
  [where |-> ServiceClauses(svc) \cup Clauses(fs), shaded |-> m = "errors",
   limit |-> n]

\* The drilldown draws the spans of its SLO: their sample, or their rate of
\* errors, is of a size that no variable changes.
SloClauses == {[route |-> Route], [service |-> Gateway]}
BuildDrilldownSql(fs) ==
  [where |-> SloClauses \cup Clauses(fs), shaded |-> FALSE, limit |-> None]

HeatmapSql(sc, fs, svc, m, n) ==
  IF sc = "explorer" THEN BuildHeatmapSql(fs, svc, m, n)
                     ELSE BuildDrilldownSql(fs)

HeatmapSqls == [where : SUBSET Clause, shaded : BOOLEAN,
                limit : Samples \cup {None}]

\* What a panel asks: the selection against its window, under the mode filter
\* it was handed, the service variable and the filters.  The drilldown hands
\* its panels the filters only: its service and mode stay as they begin.
SpanQuestion(sel, m, svc, fs) ==
  [of |-> sel,
   where |-> ModeClauses(m) \cup ServiceClauses(svc) \cup Clauses(fs)]

\* Metrics carry no trace ids and no span attributes: the saturation panel
\* asks about time and service only.
SaturationQuestion(sel, svc) == [of |-> sel, where |-> ServiceClauses(svc)]

Question(p, sel, m, svc, fs) ==
  IF p = Numbered THEN SaturationQuestion(sel, svc)
                  ELSE SpanQuestion(sel, m, svc, fs)

Questions == [of : Selections, where : SUBSET Clause]

ASSUME NoneAssumption == None \notin Selections \cup Questions
ASSUME AnswerAssumption == None \notin [question : Questions, rows : BOOLEAN]

-----------------------------------------------------------------------------
(* One panel: its fields, and what its methods do to them.                 *)

\* selection, loading and unavailable are the panel's state.  answer is the
\* question its results, traces or scores answer and whether there are any.
\* requestId counts the queries; only the numbered panel keeps it, for the
\* others it tells apart two queries that say the same.  question is the
\* last query and overlap whether it met older ones still in flight: both
\* are history, which no step depends on.
PanelState ==
  [selection   : Selections \cup {None},
   modeFilter  : Modes,
   loading     : BOOLEAN,
   unavailable : BOOLEAN,
   answer      : [question : Questions, rows : BOOLEAN] \cup {None},
   requestId   : Nat,
   inflight    : SUBSET [id : Nat, question : Questions],
   question    : Questions \cup {None},
   overlap     : BOOLEAN]

NewPanel ==
  [selection |-> None, modeFilter |-> "latency", loading |-> FALSE,
   unavailable |-> FALSE, answer |-> None, requestId |-> 0, inflight |-> {},
   question |-> None, overlap |-> FALSE]

\* Mutants of RunQuery: it does not number the query; it does not say that
\* the panel is loading.
RunQueryUnnumbered(st, q) ==
  [st EXCEPT !.loading = TRUE, !.unavailable = FALSE, !.question = q,
             !.overlap = st.inflight # {},
             !.inflight = @ \cup {[id |-> st.requestId, question |-> q]}]
RunQuerySilent(st, q) ==
  [st EXCEPT !.unavailable = FALSE, !.question = q,
             !.requestId = @ + 1, !.overlap = st.inflight # {},
             !.inflight = @ \cup {[id |-> st.requestId + 1, question |-> q]}]

\* runComparison and runQuery, up to their await.
RunQuery(st, q) ==
  [st EXCEPT !.loading = TRUE,
             !.unavailable = FALSE,
             !.requestId = @ + 1,
             !.inflight = @ \cup {[id |-> st.requestId + 1, question |-> q]},
             !.question = q,
             !.overlap = st.inflight # {}]

\* setSelection(null): the numbered panel also disowns its query in flight.
Reset(p, st) ==
  [st EXCEPT !.selection = None, !.loading = FALSE, !.unavailable = FALSE,
             !.answer = None, !.question = None,
             !.requestId = IF p = Numbered THEN @ + 1 ELSE @]

\* Mutant of SetSelection: it asks about a cleared selection.
SetSelectionBlind(p, st, sel, svc, fs) ==
  RunQuery([st EXCEPT !.selection = sel],
           Question(p, sel, st.modeFilter, svc, fs))

SetSelection(p, st, sel, svc, fs) ==
  IF sel = None
  THEN Reset(p, st)
  ELSE RunQuery([st EXCEPT !.selection = sel],
                Question(p, sel, st.modeFilter, svc, fs))

\* if (panel.state.selection) panel.setSelection(panel.state.selection)
Rerun(p, st, svc, fs) ==
  IF st.selection = None THEN st ELSE SetSelection(p, st, st.selection, svc, fs)

\* Results, traces and scores replace what was shown.  A query that fails
\* shows like one without rows, but as unavailable in the numbered panel.
Fill(p, st, q, outcome) ==
  [st EXCEPT
     !.answer = IF outcome = "unavailable" THEN None
                ELSE [question |-> q, rows |-> outcome = "scores"],
     !.loading = FALSE,
     !.unavailable = outcome = "unavailable"]

Outcomes(p) ==
  IF p = Numbered THEN {"scores", "nothing", "unavailable"}
                  ELSE {"scores", "nothing"}

\* Mutants of Settled: the numbered panel takes whatever arrives; it takes
\* the old answers only; a panel goes on loading when there are no rows.
SettledAlways(p, st, r, outcome) ==
  Fill(p, [st EXCEPT !.inflight = @ \ {r}], r.question, outcome)
SettledOld(p, st, r, outcome) ==
  LET rest == [st EXCEPT !.inflight = @ \ {r}]
  IN IF p = Numbered /\ r.id = st.requestId
     THEN rest
     ELSE Fill(p, rest, r.question, outcome)
SettledByRows(p, st, r, outcome) ==
  LET rest == [st EXCEPT !.inflight = @ \ {r}]
  IN IF outcome # "scores" \/ (p = Numbered /\ r.id # st.requestId)
     THEN rest
     ELSE Fill(p, rest, r.question, outcome)

\* The rest of runComparison and runQuery, after the await.
Settled(p, st, r, outcome) ==
  LET rest == [st EXCEPT !.inflight = @ \ {r}]
  IN IF p = Numbered /\ r.id # st.requestId
     THEN rest
     ELSE Fill(p, rest, r.question, outcome)

\* What the panel's Component renders.
View(st) ==
  [kind |-> IF st.selection = None THEN "placeholder"
            ELSE IF st.loading THEN "waiting"
            ELSE IF st.unavailable THEN "unavailable"
            ELSE IF st.answer # None /\ st.answer.rows THEN "scores"
            ELSE "nothing",
   question |-> IF st.selection = None THEN None
                ELSE IF st.loading \/ st.unavailable THEN st.question
                ELSE IF st.answer = None THEN None
                ELSE st.answer.question]

-----------------------------------------------------------------------------
(* The scene: its subscriptions, and what a person does.                   *)

TypeOK ==
  /\ scene \in {"explorer", "drilldown"}
  /\ filters \in SUBSET Filter
  /\ service \in Services \cup {All}
  /\ mode \in Modes
  /\ samples \in Samples
  /\ selection \in Selections \cup {None}
  /\ heatmapSql \in HeatmapSqls
  /\ stripSql \in Services \cup {All}
  /\ detail \in (Services \X Pods) \cup {None}
  /\ panel \in [Panels -> PanelState]
  /\ actions \in 0..MaxActions

Init ==
  /\ scene \in {"explorer", "drilldown"}
  /\ filters = {}
  /\ service = All
  /\ mode = "latency"
  /\ samples = Default
  /\ selection = None
  /\ heatmapSql = HeatmapSql(scene, filters, service, mode, samples)
  /\ stripSql = All
  /\ detail = None
  /\ panel = [p \in Panels |-> NewPanel]
  /\ actions = 0

Pending == UNION {{p} \X panel[p].inflight : p \in Panels}

Act ==
  /\ actions < MaxActions
  /\ Cardinality(Pending) <= MaxPending
  /\ actions' = actions + 1

\* What p does when its subscriptions set its selection, or run it again.
AllSet(sel) ==
  [p \in Panels |-> IF p \in PanelsOf(scene)
                    THEN SetSelection(p, panel[p], sel, service, filters)
                    ELSE panel[p]]
AllRerun(svc, fs) ==
  [p \in Panels |-> Rerun(p, panel[p], svc, fs)]

\* A heatmap or timeseries panel publishes a selection.  Every event carries
\* a new object, so that the same box published twice is asked about twice.
Select(sel) ==
  /\ Act
  /\ selection' = sel
  /\ panel' = AllSet(sel)
  /\ UNCHANGED <<scene, variables, queries>>

\* A cleared selection; clearing none changes nothing.
ClearSelection ==
  /\ Act
  /\ selection # None
  /\ selection' = None
  /\ panel' = AllSet(None)
  /\ UNCHANGED <<scene, variables, queries>>

\* Mutant of FiltersChanged: the traces stay as they were.
FiltersChangedNoTraces(fs) ==
  /\ filters' = fs
  /\ heatmapSql' = HeatmapSql(scene, fs, service, mode, samples)
  /\ panel' = [AllRerun(service, fs) EXCEPT !["traces"] = panel["traces"]]

\* adHocFilters.setState, and the subscription of the scene to it.
FiltersChanged(fs) ==
  /\ filters' = fs
  /\ heatmapSql' = HeatmapSql(scene, fs, service, mode, samples)
  /\ panel' = AllRerun(service, fs)

\* The person edits the filters by hand.
ToggleFilter(f) ==
  /\ Act
  /\ FiltersChanged(IF f \in filters THEN filters \ {f} ELSE filters \cup {f})
  /\ UNCHANGED <<scene, service, mode, samples, selection, stripSql, detail>>

\* The comparison panel shows cards, with their include and exclude buttons.
ComparisonCards == View(panel["comparison"]).kind = "scores"

\* addIncludeFilter and addExcludeFilter, on a card of the comparison panel:
\* the subscription has run the comparison again, and so do they.
AddFilter(f) ==
  /\ Act
  /\ f.op \in {"=", "!="}
  /\ ComparisonCards
  /\ f \notin filters
  /\ LET fs  == filters \cup {f}
         set == AllRerun(service, fs)
         st  == set["comparison"]
     IN /\ filters' = fs
        /\ heatmapSql' = HeatmapSql(scene, fs, service, mode, samples)
        /\ panel' = [set EXCEPT !["comparison"] =
                       RunQuery(st, Question("comparison", st.selection,
                                             st.modeFilter, service, fs))]
  /\ UNCHANGED <<scene, service, mode, samples, selection, stripSql, detail>>

\* On a card of the saturation panel: filterToPod.
FilterToPod(pod) ==
  /\ Act
  /\ View(panel[Numbered]).kind = "scores"
  /\ [on |-> pod, op |-> "="] \notin filters
  /\ FiltersChanged(filters \cup {[on |-> pod, op |-> "="]})
  /\ UNCHANGED <<scene, service, mode, samples, selection, stripSql, detail>>

\* The service variable changes: the subscription of the explorer to it.
ServiceChanged(svc) ==
  /\ svc # service
  /\ service' = svc
  /\ heatmapSql' = HeatmapSql(scene, filters, svc, mode, samples)
  /\ stripSql' = svc
  /\ panel' = AllRerun(svc, filters)

ChangeService(svc) ==
  /\ Act
  /\ scene = "explorer"
  /\ ServiceChanged(svc)
  /\ UNCHANGED <<scene, filters, mode, samples, selection, detail>>

\* On a card of the saturation panel: focusService and viewSignals.
FocusService(svc) ==
  /\ Act
  /\ View(panel[Numbered]).kind = "scores"
  /\ ServiceChanged(svc)
  /\ UNCHANGED <<scene, filters, mode, samples, selection, detail>>

ViewSignals(svc, pod) ==
  /\ Act
  /\ View(panel[Numbered]).kind = "scores"
  /\ detail' = <<svc, pod>>
  /\ UNCHANGED <<scene, variables, selection, heatmapSql, stripSql, panel>>

\* The panels over spans are handed the mode filter, then run again.
ModeFiltered(m) ==
  [p \in Panels |-> IF p = Numbered THEN panel[p]
                    ELSE Rerun(p, [panel[p] EXCEPT !.modeFilter = m],
                               service, filters)]

ChangeMode(m) ==
  /\ Act
  /\ scene = "explorer"
  /\ m # mode
  /\ mode' = m
  /\ heatmapSql' = HeatmapSql(scene, filters, service, m, samples)
  /\ panel' = ModeFiltered(m)
  /\ UNCHANGED <<scene, filters, service, samples, selection, stripSql, detail>>

ChangeSamples(n) ==
  /\ Act
  /\ scene = "explorer"
  /\ n # samples
  /\ samples' = n
  /\ heatmapSql' = HeatmapSql(scene, filters, service, mode, n)
  /\ UNCHANGED <<scene, filters, service, mode, selection, stripSql, detail,
                 panel>>

\* A query of a panel is answered, or fails.
Answer(p) ==
  /\ \E r \in panel[p].inflight, outcome \in Outcomes(p) :
       panel' = [panel EXCEPT ![p] = Settled(p, panel[p], r, outcome)]
  /\ UNCHANGED <<scene, variables, selection, queries, actions>>

Next ==
  \/ \E sel \in Selections : Select(sel)
  \/ ClearSelection
  \/ \E f \in Filter : ToggleFilter(f) \/ AddFilter(f)
  \/ \E pod \in Pods : FilterToPod(pod)
  \/ \E svc \in Services \cup {All} : ChangeService(svc)
  \/ \E svc \in Services : FocusService(svc)
  \/ \E svc \in Services, pod \in Pods : ViewSignals(svc, pod)
  \/ \E m \in Modes : ChangeMode(m)
  \/ \E n \in Samples : ChangeSamples(n)
  \/ \E p \in Panels : Answer(p)

Spec == Init /\ [][Next]_vars

\* Every query is answered or fails: the requests of a browser and of the
\* datasource proxy behind it time out.
FairSpec == Spec /\ \A p \in Panels : WF_vars(Answer(p))

-----------------------------------------------------------------------------
(* Properties.                                                             *)

\* Heatmap and strip draw the filters, the service and the mode that the
\* variables hold, and each panel was last asked about the published selection
\* under those same variables.
UpToDate ==
  /\ heatmapSql = HeatmapSql(scene, filters, service, mode, samples)
  /\ stripSql = service
  /\ \A p \in PanelsOf(scene) :
       /\ panel[p].selection = selection
       /\ panel[p].question =
            IF selection = None THEN None
            ELSE Question(p, selection, mode, service, filters)

\* What a panel over spans compares is what the heatmap draws: in the explorer
\* all of it, in the errors mode its failed spans.  The drilldown is the
\* exception (detailScene.ts:33-37 against :179-180): its heatmap draws the
\* route and the service of the SLO, and its panels compare the box with the
\* spans of every route and service that the filters let through.
OneScope ==
  \A p \in PanelsOf(scene) \ {Numbered} :
    selection # None =>
      LET compared == panel[p].question.where
      IN  IF scene = "explorer"
          THEN compared = heatmapSql.where \cup ModeClauses(mode)
          ELSE heatmapSql.where = compared \cup SloClauses

\* The queries on the screen agree with the variables and with each other,
\* whatever is changed and in whatever order (the subscriptions of
\* deltasScene.ts:252-352 and detailScene.ts:183-207).
ScopesAgree == UpToDate /\ OneScope

\* A panel that says it is loading waits for the query it sent last, so that
\* the answer that ends the wait is on its way (SaturationPanel.tsx:97-140).
LoadingIsAwaited ==
  \A p \in Panels : panel[p].loading =>
    IF p = Numbered
    THEN [id |-> panel[p].requestId, question |-> panel[p].question]
           \in panel[p].inflight
    ELSE panel[p].inflight # {}

\* "superseded by a newer selection -- don't clobber its results"
\* (SaturationPanel.tsx:125): what the saturation panel shows answers the
\* question it was asked last, whatever the order of the answers.
NeverStale ==
  LET v == View(panel[Numbered])
  IN v.kind \in {"scores", "nothing", "unavailable"} =>
       v.question = panel[Numbered].question

\* The other two panels do not number their queries
\* (AttributeComparisonPanel.tsx:193-200, representativeTraces.tsx:126-176):
\* they show the answer of another question only when the last query they
\* sent met an older one still in flight.
StaleOnlyByOverlap ==
  \A p \in Panels : LET v == View(panel[p]) IN
    (v.kind \in {"scores", "nothing"} /\ ~panel[p].overlap)
      => v.question = panel[p].question

\* No panel "leaves loading:true stuck forever" (SaturationPanel.tsx:103-105):
\* once the person stops acting, every panel stops loading for good.
LoadingEnds ==
  <>[][UNCHANGED actions]_vars => <>[](\A p \in Panels : ~panel[p].loading)

\* The saturation panel keeps the promise of CurrentAnswers.
Promise == INSTANCE CurrentAnswers WITH
  NoQuestion <- None,
  view <- View(panel[Numbered])
PromiseSpec == Promise!Spec
=============================================================================
