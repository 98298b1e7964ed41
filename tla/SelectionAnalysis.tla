-------------------------- MODULE SelectionAnalysis --------------------------
(***************************************************************************)
(* From a drag on a panel to the cards that explain it: the selection      *)
(* panels of SelectionPanels publish to an app that compares what was      *)
(* selected, by SpanComparison, with the rest of the window.               *)
(*                                                                         *)
(* An answer is shown in the step that asks for it.  What may happen in    *)
(* between is the subject of InvestigationScene.                           *)
(***************************************************************************)
EXTENDS SelectionPanels, SpanComparison

CONSTANTS
  Population,  \* the spans stored
  Metrics      \* the samples of resources: [time, value, resource]

ASSUME SampleAssumption == \A S \in Samples : S \subseteq Population
ASSUME PopulationAssumption ==
  /\ IsFiniteSet(Population)
  /\ \A s \in Population : s.time \in Int /\ s.n \in Nat

\* Bound: P95 is that of at most 20 samples of a resource.
ASSUME MetricsAssumption ==
  /\ IsFiniteSet(Metrics)
  /\ \A p \in Metrics : p.time \in Int /\ p.value \in Nat
  /\ \A p \in Metrics : Cardinality({q \in Metrics : q.resource = p.resource}) <= 20

VARIABLE
  shown        \* the last comparison, its cards with its question, or none

vars == <<panelVars, shown>>

Scope(win) == {s \in Population : Within(Ms(win), Time(s.time))}
Inside(ax, sel, win) == {s \in Scope(win) : InSelection(ax, sel, s)}
Outside(ax, sel, win) == Scope(win) \ Inside(ax, sel, win)

\* Metrics are matched by time only; they know no traces.
MetricsIn(range) == {p \in Metrics : Within(Ms(range), Time(p.time))}

\* The answers the comparison query can have, the rows of each attribute:
\* where rows tie for the last place kept, it may keep either.
Also(f, k, K) == [j \in {k} \cup DOMAIN f |-> IF j = k THEN K ELSE f[j]]
Extended(F, k, answers) == {Also(p[1], k, p[2]) : p \in F \X answers}
RowAnswers(in, out) ==
  FoldSet(LAMBDA k, F : Extended(F, k, Rows(k, in, out)), {[k \in {} |-> {}]}, Keys)

Saturated(sel, win) ==
  ScoreSaturation(MetricsIn(win) \cap MetricsIn(sel.time),
                  MetricsIn(win) \ MetricsIn(sel.time))

Comparisons(ax, sel, win) ==
  {[selection |-> sel, window |-> win,
    cards |-> ToResults(rowsOf), saturated |-> Saturated(sel, win)] :
     rowsOf \in RowAnswers(Inside(ax, sel, win), Outside(ax, sel, win))}

\* A selection event makes the panels compare it with the window of now, even
\* one that says the same as the last.
CompareAgain == \E c \in Comparisons(axis, published', window') : shown' = {c}

\* A clear event empties the panels.  A new window does nothing to them.
Keep == IF published' = Null THEN shown' = {} ELSE UNCHANGED shown

Init == PanelInit /\ shown = {}
Next ==
  \/ PanelAnnounces /\ CompareAgain
  \/ PanelActs /\ Keep
Spec == Init /\ [][Next]_vars

-----------------------------------------------------------------------------
(* The panels.                                                             *)

\* The variables hold what the panels, the dashboard and the app may hold.
TypeOK ==
  /\ kind \in {"heatmap", "timeseries"} /\ axis \in Axes
  /\ sample \in Samples \cup {Null}
  /\ window \in Bounds
  /\ drag \in Drags \cup {Null}
  /\ box \in Boxes \cup {Null}
  /\ menu \in Payloads \cup {Null} /\ published \in Payloads \cup {Null}
  /\ open \in BOOLEAN /\ presses \in 0 .. MaxPresses
  /\ Cardinality(shown) = IF published = Null THEN 0 ELSE 1
  /\ \A c \in shown : c.selection \in Payloads /\ c.window \in Bounds

\* The region a person has dragged so far, on the heatmap or the time series.
Dragged(k) == kind = k /\ drag # Null

\* What is drawn is what is selected (HeatmapPanel.tsx:232 against :387), on
\* both axes, whatever the headroom and the clamp of the last column.  A span
\* drawn in a cell wholly inside the box is counted when the button is
\* released, spans below the axis floor of 0.1 ms excepted: the logarithmic
\* axis draws them in its lowest row and no box can select them.  A counted
\* span is drawn in a cell that the box touches, unless the spans of the panel
\* all have one time, where every box selects them whatever its x (:188), or
\* all are so short that the axis ends below where it begins.
BoxSelectsWhatItCovers ==
  Dragged("heatmap") =>
    \A s \in Data :
      LET cell == Cell(axis, R, s)
      IN  /\ s.dur >= 10 /\ InGrid(cell) /\ CellInside(Box(drag), cell)
             => Matches(Box(drag), s)
          /\ Matches(Box(drag), s) /\ R.minTime # R.maxTime /\ R.minLevel < R.maxLevel
             => InGrid(cell) /\ CellTouched(Box(drag), cell)

\* The time series publishes the band it shows (TimeseriesPanel.tsx:97-110
\* against :297): the points of the line inside the band are those whose time
\* is in the range of the event.
BandIsRange ==
  Dragged("timeseries") /\ R.minTime # R.maxTime =>
    \A s \in Data :
      PointIn(Band(drag), R, s.time) <=> Within(TimeRange(Band(drag)), Time(s.time))

\* The app forgets a selection when the panel stops showing one
\* (docs/scenes-ux-conventions.md:40): a step after which nothing is drawn
\* where something was clears the published selection, unless it zooms into
\* the box or leaves the page.
ClearIsAnnounced ==
  [][/\ box # Null \/ drag # Null
     /\ box' = Null /\ drag' = Null
     => \/ published' = Null
        \/ menu # Null /\ window' = menu.time
        \/ ~open']_vars

-----------------------------------------------------------------------------
(* The app.                                                                *)

\* The sides of the comparison that is shown.
In(c)  == Inside(axis, c.selection, c.window)
Out(c) == Outside(axis, c.selection, c.window)

\* The share of the spans carrying k that have v is greater in S than in T.
MoreFrequent(k, v, S, T) ==
  Count(Having(S, k, v)) * Max({Count(Carrying(T, k)), 1})
    > Count(Having(T, k, v)) * Count(Carrying(S, k))

\* A card tells the truth about the spans (comparison.ts:32, :51;
\* comparisonSql.ts:21): its value is more frequent inside the selection than
\* in the rest of the window, occurs often enough, the difference shown is
\* that of all spans although only some rows are read, the score is not above
\* it, the value is among the bars, and the attribute is no identifier.
CardsAreTrue ==
  \A c \in shown : \A card \in c.cards :
    LET have(S) == Count(Having(S, card.key, card.winner))
        all(S)  == Count(Carrying(S, card.key))
    IN  /\ MoreFrequent(card.key, card.winner, In(c), Out(c))
        /\ have(In(c)) >= MinOccurrences
        /\ all(Out(c)) > 0
        /\ Cardinality(ValuesOf(In(c) \cup Out(c), card.key)) <= MaxValues
        /\ card.effect =
             (1000 * (have(In(c)) * all(Out(c)) - have(Out(c)) * all(In(c))))
               \div (all(In(c)) * all(Out(c)))
        /\ 0 < card.score /\ card.score <= card.effect
        /\ card.winner \in card.bars /\ Cardinality(card.bars) <= MaxBars

\* An attribute that tells the two sides apart completely is never missed
\* (comparison.ts:51-101, comparisonStats.ts:68): when every span inside that
\* carries it has a value that no span outside has, it has a card with that
\* value, once five spans inside and two outside carry it and it does not
\* have the values of an identifier.
SeparatorsAreShown ==
  \A c \in shown, k \in Keys :
    LET values == ValuesOf(In(c), k)
    IN  /\ Count(Carrying(In(c), k)) >= MinOccurrences
        /\ Count(Carrying(Out(c), k)) >= 2
        /\ Cardinality(values) = 1
        /\ values \cap ValuesOf(Out(c), k) = {}
        /\ Cardinality(ValuesOf(In(c) \cup Out(c), k)) <= Min({MaxValues, 10})
        => \E card \in c.cards : card.key = k /\ {card.winner} = values

\* No trace is compared with itself (AttributeComparisonPanel.tsx:160-168):
\* as long as the selection goes by its ids, the spans of a selected trace
\* are all inside.  Spans the box counted that are in the window are inside,
\* by their ids or, unless the panel misread their unit, by the box.
TracesAreWhole ==
  \A c \in shown :
    /\ ByIds(c.selection) =>
         {s.trace : s \in In(c)} \cap {s.trace : s \in Out(c)} = {}
    /\ \A s \in Scope(c.window) :
         /\ Within(c.selection.time, Time(s.time))
         /\ c.selection.latency # Null =>
              Within(c.selection.latency, Usable * ReadLevel(axis, s.dur))
         /\ c.selection.traces # {} => s.trace \in c.selection.traces
         /\ ByIds(c.selection) \/ ~Misread(s.dur)
         => s \in In(c)

\* A resource whose samples during the selection all exceed its samples in the
\* rest of the window has a card, and one whose samples never exceed them has
\* none (saturation.ts:50-85), however few samples there are: p95, the
\* maximum that stands in for it and the two kinds of score agree on that.
SaturationFollowsSamples ==
  \A c \in shown, r \in {p.resource : p \in Metrics} :
    LET selected == MetricsIn(c.selection.time)
        during == {p \in MetricsIn(c.window) \cap selected : p.resource = r}
        rest   == {p \in MetricsIn(c.window) \ selected : p.resource = r}
        carded == {card.resource : card \in c.saturated}
    IN  /\ /\ during # {}
           /\ \A p \in during, q \in rest : p.value > q.value
           /\ \A p \in during : p.value > 0
           => r \in carded \/ Cardinality(c.saturated) = MaxCards
        /\ \/ during = {}
           \/ rest # {} /\ \A p \in during, q \in rest : p.value <= q.value
           => r \notin carded

\* A longer span is never drawn below a shorter one of the same answer
\* (HeatmapPanel.tsx:130), whatever unit the column is in.
LongerIsHigher ==
  kind = "heatmap" =>
    \A s, q \in Data :
      s.dur > q.dur => DrawnLevel(axis, s.dur) >= DrawnLevel(axis, q.dur)
=============================================================================
