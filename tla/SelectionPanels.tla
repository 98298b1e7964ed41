--------------------------- MODULE SelectionPanels ---------------------------
(***************************************************************************)
(* A person selects a region on the heatmap (HeatmapPanel) or a stretch of *)
(* time on the time series (TimeseriesPanel): the drag, the box that is    *)
(* drawn, the menu that opens on it and the events its items publish.      *)
(*                                                                         *)
(* The panels keep pixels, the events carry times and latencies: the data  *)
(* under the pixels may be refreshed between any two steps.                *)
(***************************************************************************)
EXTENDS SelectionAxes

CONSTANTS
  Samples,      \* what the query behind the panel may answer: sets of spans
  Points,       \* where the mouse may be: [x, h], inside the plot or not
  FullWindow,   \* the time range a dashboard opens with
  OffersAxes,   \* options.yAxisScale
  MaxPresses    \* bound: how often the mouse is pressed

Bounds == [from : Int, to : Int]
Traces == {s.trace : s \in UNION Samples}
Payloads ==
  [time : Bounds, latency : Bounds \cup {Null}, traces : SUBSET Traces, spanCount : Nat]
Pixels == [x : 0 .. PlotW, h : 0 .. PlotH]
Drags == [from : Pixels, to : Pixels]
Boxes == [x1 : 0 .. PlotW, x2 : 0 .. PlotW, h1 : 0 .. PlotH, h2 : 0 .. PlotH]

ASSUME PressAssumption == MaxPresses \in Nat
ASSUME PointAssumption == Points \subseteq [x : Int, h : Int]
ASSUME WindowAssumption == FullWindow \in Bounds
ASSUME OfferAssumption == OffersAxes \subseteq Axes
ASSUME NullAssumption ==
  Null \notin Samples /\ Null \notin Drags /\ Null \notin Boxes /\ Null \notin Payloads

\* An answer has a number of rows, each of a duration that is not negative.
ASSUME SpanAssumption ==
  \A S \in Samples :
    /\ IsFiniteSet(S)
    /\ \A s \in S : s.time \in Int /\ s.dur \in DOMAIN Log10 \cup {0} /\ s.n \in Nat

VARIABLES
  kind,         \* "heatmap" or "timeseries"
  axis,         \* options.yAxisScale of the heatmap
  sample,       \* the last answer of the query, Null when it failed
  window,       \* the time range of the dashboard
  drag,         \* DragState
  box,          \* the selection that is drawn
  menu,         \* the payload of the context menu
  published,    \* SelectionState: the last event the app received
  open,         \* the page with the panel is the one that is open
  presses       \* presses so far

pointer == <<drag, box, menu>>
panelVars == <<kind, axis, sample, window, pointer, published, open, presses>>

\* $__timeFilter: the query answers with spans of the window.
Data == IF sample = Null THEN {} ELSE {s \in sample : Within(window, Time(s.time))}

R == IF kind = "heatmap" THEN Ranges(axis, Data) ELSE PointTimes(Data)

-----------------------------------------------------------------------------
(* From pixels to an event.                                                *)

Box(d) == [x1 |-> Min({d.from.x, d.to.x}), x2 |-> Max({d.from.x, d.to.x}),
           h1 |-> Min({d.from.h, d.to.h}), h2 |-> Max({d.from.h, d.to.h})]

\* The band of the time series has the height of the plot.
Band(d) == [Box(d) EXCEPT !.h1 = 0, !.h2 = PlotH]

TimeRange(b) == [from |-> TimeOf(R, b.x1), to |-> TimeOf(R, b.x2)]
LatencyRange(b) == [from |-> LevelOf(R, b.h1), to |-> LevelOf(R, b.h2)]

\* The spans of the panel that a box holds, both edges included.
Matches(b, s) ==
  /\ Within(TimeRange(b), Time(s.time))
  /\ Within(LatencyRange(b), Usable * ReadLevel(axis, s.dur))

HeatmapSelection(b) ==
  LET matching == {s \in Data : Matches(b, s)}
  IN  [time |-> TimeRange(b), latency |-> LatencyRange(b),
       traces |-> {s.trace : s \in matching},
       spanCount |-> MapThenSumSet(LAMBDA s : s.n, matching)]

TimeseriesSelection(b) ==
  [time |-> TimeRange(b), latency |-> Null, traces |-> {}, spanCount |-> 0]

Payload(b) == IF kind = "heatmap" THEN HeatmapSelection(b) ELSE TimeseriesSelection(b)

-----------------------------------------------------------------------------
(* What a press, a move and a release of the mouse do.                     *)

InPlot(p) == p.x \in 0 .. PlotW /\ p.h \in 0 .. PlotH

\* Mutant of Clamp: a drag may leave the plot.
ClampNever(v, limit) == v

Clamp(v, limit) == Max({0, Min({v, limit})})

MinDrag == 5

\* A press at p begins a drag from q; outside the plot it closes the menu and
\* leaves the box alone.
PressAt(p, q) ==
  /\ presses < MaxPresses
  /\ presses' = presses + 1
  /\ menu' = Null
  /\ drag' = IF InPlot(p) THEN [from |-> q, to |-> q] ELSE drag
  /\ box'  = IF InPlot(p) THEN Null ELSE box

MoveTo(p) ==
  /\ drag # Null
  /\ drag' = [drag EXCEPT !.to = p]
  /\ UNCHANGED <<box, menu, published, presses>>

\* Mutant of Cleared: the panel forgets its box and tells nobody.
ClearedSilently == box' = Null /\ UNCHANGED published

\* The box goes, and the app is told to forget the selection.
Cleared == box' = Null /\ published' = Null

ReleaseOn(b, tooSmall) ==
  /\ drag' = Null
  /\ \/ tooSmall /\ Cleared /\ UNCHANGED menu
     \/ ~tooSmall /\ box' = b /\ menu' = Payload(b) /\ UNCHANGED published

\* A panel of a query that failed shows the error and hears no mouse.
HeatmapUsable == open /\ kind = "heatmap" /\ sample # Null
TimeseriesUsable == open /\ kind = "timeseries"

HeatmapDown(p) == HeatmapUsable /\ PressAt(p, p) /\ UNCHANGED published
HeatmapMove(p) ==
  HeatmapUsable /\ MoveTo([x |-> Clamp(p.x, PlotW), h |-> Clamp(p.h, PlotH)])

\* Also when the mouse leaves the panel.  A drag is too small when it is in
\* both directions.
HeatmapUp ==
  /\ HeatmapUsable /\ drag # Null
  /\ UNCHANGED presses
  /\ LET b == Box(drag)
     IN  ReleaseOn(b, b.x2 - b.x1 < MinDrag /\ b.h2 - b.h1 < MinDrag)

\* Only x counts on the time series.
TimeseriesDown(p) ==
  TimeseriesUsable /\ PressAt(p, [x |-> p.x, h |-> 0]) /\ UNCHANGED published
TimeseriesMove(p) ==
  TimeseriesUsable /\ MoveTo([x |-> Clamp(p.x, PlotW), h |-> 0])
TimeseriesUp ==
  /\ TimeseriesUsable /\ drag # Null
  /\ UNCHANGED presses
  /\ LET b == Band(drag)
     IN  ReleaseOn(b, b.x2 - b.x1 < MinDrag)

-----------------------------------------------------------------------------
(* The items of the menu.                                                  *)

\* The menu of the heatmap and that of the time series.
HeatmapItems ==
  {"analyze", "explore", "zoom", "reset", "dismiss"}
    \cup (IF Cardinality(menu.traces) = 1 THEN {"view trace"} ELSE {})
TimeseriesItems == {"analyze", "zoom", "dismiss"}

Chosen(item) ==
  /\ menu # Null
  /\ menu' = Null
  /\ \/ HeatmapUsable /\ item \in HeatmapItems
     \/ TimeseriesUsable /\ item \in TimeseriesItems

Analyze == Chosen("analyze") /\ published' = menu /\ UNCHANGED <<drag, box, open>>

\* The panel goes when another page is opened.
Leave == open' = FALSE /\ drag' = Null /\ box' = Null

\* On a page of an app this goes on to the explorer route of that app.
OpenExplorer ==
  /\ Chosen("explore")
  /\ published' = menu
  /\ \/ Leave
     \/ UNCHANGED <<drag, box, open>>

ViewTrace == Chosen("view trace") /\ Leave /\ UNCHANGED published

ResetSelection == Chosen("reset") /\ Cleared /\ UNCHANGED <<drag, open>>

Dismiss == Chosen("dismiss") /\ UNCHANGED <<drag, box, published, open>>

\* The box goes, but the app keeps the selection it was told of.
ZoomIn ==
  /\ Chosen("zoom")
  /\ window' = menu.time
  /\ box' = Null
  /\ UNCHANGED <<drag, published, open>>

-----------------------------------------------------------------------------
(* The panel on its dashboard.                                             *)

\* A refresh, a new filter or a new window: another answer, or an error.
\* Pixels of a drag, a box or an open menu stay where they are.
Refresh ==
  /\ open
  /\ sample' \in (Samples \cup {Null}) \ {sample}
  /\ UNCHANGED <<window, pointer, published, open, presses>>

ResetWindow ==
  /\ open /\ window # FullWindow
  /\ window' = FullWindow
  /\ UNCHANGED <<sample, pointer, published, open, presses>>

Gesture ==
  \/ \E p \in Points : HeatmapDown(p) \/ HeatmapMove(p)
  \/ HeatmapUp
  \/ \E p \in Points : TimeseriesDown(p) \/ TimeseriesMove(p)
  \/ TimeseriesUp

Announce == Analyze \/ OpenExplorer
Item == ViewTrace \/ ResetSelection \/ Dismiss

PanelInit ==
  /\ kind \in {"heatmap", "timeseries"}
  /\ axis \in (IF kind = "heatmap" THEN OffersAxes ELSE {"linear"})
  /\ sample \in Samples
  /\ window = FullWindow
  /\ drag = Null /\ box = Null /\ menu = Null /\ published = Null
  /\ open = TRUE /\ presses = 0

\* Steps that publish a selection, and all others.
PanelAnnounces == Announce /\ UNCHANGED <<kind, axis, sample, window, presses>>
PanelActs ==
  /\ UNCHANGED <<kind, axis>>
  /\ \/ Gesture /\ UNCHANGED <<sample, window, open>>
     \/ Item /\ UNCHANGED <<sample, window, presses>>
     \/ ZoomIn /\ UNCHANGED <<sample, presses>>
     \/ Refresh
     \/ ResetWindow
=============================================================================
