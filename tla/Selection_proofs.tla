--------------------------- MODULE Selection_proofs ---------------------------
(***************************************************************************)
(* Selecting on a panel, for every plot and its cells, every answer of the *)
(* queries, every way of moving the mouse and every column; and comparing  *)
(* what was selected, for every population, attribute, limit and sample.   *)
(***************************************************************************)
EXTENDS SelectionAnalysis, FiniteSums

-----------------------------------------------------------------------------
(* The ranges of the axes.                                                 *)

LEMMA UsableType ==
  /\ Usable \in Nat \ {0} /\ Usable <= PlotH
  /\ PlotW \in Nat \ {0} /\ PlotH \in Nat \ {0} /\ YBuckets \in Nat \ {0}
BY PlotAssumption DEF Usable

LEMMA LevelType ==
  ASSUME NEW ax \in Axes, NEW d \in DOMAIN Log10 \cup {0}
  PROVE  /\ ReadLevel(ax, d) \in Int /\ DrawnLevel(ax, d) \in Int
         /\ LowestLevel(ax) \in Int
         /\ d >= 10 => DrawnLevel(ax, d) = ReadLevel(ax, d)
                       /\ LowestLevel(ax) <= ReadLevel(ax, d)
         /\ LowestLevel(ax) <= ReadLevel(ax, d) => DrawnLevel(ax, d) = ReadLevel(ax, d)
<1>1. d \in Nat /\ Max({d, 1}) = (IF d <= 1 THEN 1 ELSE d)
  <2>1. d \in Int /\ 1 \in Int
    BY LogAssumption
  <2>2. Max({d, 1}) = IF d <= 1 THEN 1 ELSE d
    BY <2>1, MinMaxOfTwo, Zenon
  <2> QED
    BY <2>2, LogAssumption
<1>2. PICK e \in DOMAIN Log10 : e = Max({d, 1})
  BY <1>1, LogAssumption
<1>3. e \in Nat \ {0} /\ Log10[e] \in Int /\ (e < 10 <=> Log10[e] < -1000)
  BY <1>2, LogAssumption
<1>4. CASE ax = "log"
  <2>1. ReadLevel(ax, d) = Log10[e] + (IF Misread(d) THEN 6000 ELSE 0)
    BY <1>2, <1>3, <1>4 DEF ReadLevel, StoredLevel
  <2>2. ReadLevel(ax, d) \in Int /\ LowestLevel(ax) = -1000
    BY <1>3, <1>4, <2>1 DEF LowestLevel
  <2>3. DrawnLevel(ax, d) = Max({ReadLevel(ax, d), LowestLevel(ax)})
    BY <1>4 DEF DrawnLevel
  <2>4. DrawnLevel(ax, d) = IF ReadLevel(ax, d) <= -1000 THEN -1000 ELSE ReadLevel(ax, d)
    <3>1. ReadLevel(ax, d) \in Int /\ LowestLevel(ax) \in Int
      BY <2>2
    <3>2. Max({ReadLevel(ax, d), LowestLevel(ax)})
            = IF ReadLevel(ax, d) <= LowestLevel(ax) THEN LowestLevel(ax)
              ELSE ReadLevel(ax, d)
      BY <3>1, MinMaxOfTwo, Zenon
    <3> QED
      BY <2>2, <2>3, <3>2
  <2>5. d >= 10 => ReadLevel(ax, d) >= -1000
    BY <1>1, <1>2, <1>3, <2>1
  <2> QED
    BY <2>2, <2>4, <2>5
<1>5. CASE ax = "linear"
  <2>1. ReadLevel(ax, d) = 5 * e * (IF Misread(d) THEN 1000000 ELSE 1)
    BY <1>2, <1>3, <1>5 DEF ReadLevel, StoredLevel
  <2>2. ReadLevel(ax, d) \in Int /\ LowestLevel(ax) = 50
    BY <1>3, <1>5, <2>1 DEF LowestLevel
  <2>3. DrawnLevel(ax, d) = ReadLevel(ax, d)
    BY <1>5 DEF DrawnLevel
  <2>4. d >= 10 => ReadLevel(ax, d) >= 50
    BY <1>1, <1>2, <1>3, <2>1
  <2> QED
    BY <2>2, <2>3, <2>4
<1> QED
  BY <1>4, <1>5 DEF Axes

Spans(S) ==
  /\ IsFiniteSet(S)
  /\ \A s \in S : s.time \in Int /\ s.dur \in DOMAIN Log10 \cup {0} /\ s.n \in Nat

LEMMA TimesType ==
  ASSUME NEW S, Spans(S), S # {}
  PROVE  LET times == {s.time : s \in S}
         IN  /\ Min(times) \in Int /\ Max(times) \in Int
             /\ \A s \in S : Min(times) <= s.time /\ s.time <= Max(times)
<1> DEFINE f == [s \in S |-> s.time]
           times == {s.time : s \in S}
<1>1. f \in Surjection(S, times)
  BY DEF Surjection
<1>2. IsFiniteSet(times)
  BY <1>1, FS_Surjection DEF Spans
<1>3. times \in SUBSET Int /\ times # {} /\ \A s \in S : s.time \in times
  BY DEF Spans
<1> HIDE DEF times
<1>4. /\ Min(times) \in Int /\ Max(times) \in Int
      /\ \A s \in S : Min(times) <= s.time /\ s.time <= Max(times)
  BY <1>2, <1>3, HasMin, HasMax
<1> QED
  BY <1>4 DEF times

LEMMA LevelsType ==
  ASSUME NEW ax \in Axes, NEW S, Spans(S), S # {}
  PROVE  LET levels == {ReadLevel(ax, s.dur) : s \in S}
         IN  /\ Min(levels) \in Int /\ Max(levels) \in Int
             /\ \A s \in S : /\ Min(levels) <= ReadLevel(ax, s.dur)
                             /\ ReadLevel(ax, s.dur) <= Max(levels)
<1> DEFINE f == [s \in S |-> ReadLevel(ax, s.dur)]
           levels == {ReadLevel(ax, s.dur) : s \in S}
<1>1. f \in Surjection(S, levels)
  BY DEF Surjection
<1>2. IsFiniteSet(levels)
  BY <1>1, FS_Surjection DEF Spans
<1>3. levels \in SUBSET Int /\ levels # {} /\ \A s \in S : ReadLevel(ax, s.dur) \in levels
  BY LevelType DEF Spans
<1> HIDE DEF levels
<1>4. /\ Min(levels) \in Int /\ Max(levels) \in Int
      /\ \A s \in S : /\ Min(levels) <= ReadLevel(ax, s.dur)
                      /\ ReadLevel(ax, s.dur) <= Max(levels)
  BY <1>2, <1>3, HasMin, HasMax
<1> QED
  BY <1>4 DEF levels

\* A longest span leaves headroom, and what the axis draws at its height is not
\* below where it begins.
LEMMA RangesType ==
  ASSUME NEW ax \in Axes, NEW S, Spans(S)
  PROVE  LET r == Ranges(ax, S)
         IN  /\ r.minTime \in Int /\ r.maxTime \in Int
             /\ r.minLevel \in Int /\ r.maxLevel \in Int
             /\ r.minTime <= r.maxTime /\ LowestLevel(ax) <= r.minLevel
             /\ \A s \in S : r.minTime <= s.time /\ s.time <= r.maxTime
             /\ \A s \in S : s.dur >= 10 =>
                  r.minLevel <= ReadLevel(ax, s.dur) /\ ReadLevel(ax, s.dur) < r.maxLevel
<1>1. CASE S = {}
  BY <1>1 DEF Ranges, LowestLevel, Axes
<1>2. CASE S # {}
  <2> DEFINE times == {s.time : s \in S}
             levels == {ReadLevel(ax, s.dur) : s \in S}
  <2>1. /\ Min(times) \in Int /\ Max(times) \in Int
        /\ \A s \in S : Min(times) <= s.time /\ s.time <= Max(times)
    BY <1>2, TimesType
  <2>2. /\ Min(levels) \in Int /\ Max(levels) \in Int
        /\ \A s \in S : /\ Min(levels) <= ReadLevel(ax, s.dur)
                        /\ ReadLevel(ax, s.dur) <= Max(levels)
    BY <1>2, LevelsType
  <2>3. PICK r : r = Ranges(ax, S)
    OBVIOUS
  <2>4. /\ r.minTime = Min(times) /\ r.maxTime = Max(times)
        /\ r.minLevel = Max({Min(levels), LowestLevel(ax)})
        /\ r.maxLevel = Headroom(ax, Max(levels))
    BY <1>2, <2>3 DEF Ranges
  <2> HIDE DEF times, levels
  <2>5. \A s \in S : /\ s.time \in Int /\ ReadLevel(ax, s.dur) \in Int
                     /\ s.dur >= 10 => LowestLevel(ax) <= ReadLevel(ax, s.dur)
    BY LevelType DEF Spans
  <2>6. LowestLevel(ax) \in Int
    BY LevelType
  <2>7. r.minLevel = IF Min(levels) <= LowestLevel(ax) THEN LowestLevel(ax) ELSE Min(levels)
    BY <2>2, <2>4, <2>6, MinMaxOfTwo, Zenon
  <2>8. /\ r.maxLevel \in Int
        /\ LowestLevel(ax) <= Max(levels) => Max(levels) < r.maxLevel
    BY <2>2, <2>4 DEF Headroom, LowestLevel, Axes
  <2>9. r.minTime <= r.maxTime
    BY <1>2, <2>1, <2>4, <2>5
  <2>10. \A s \in S : s.dur >= 10 =>
           r.minLevel <= ReadLevel(ax, s.dur) /\ ReadLevel(ax, s.dur) < r.maxLevel
    BY <2>2, <2>5, <2>6, <2>7, <2>8
  <2> QED
    BY <2>1, <2>2, <2>3, <2>4, <2>6, <2>7, <2>8, <2>9, <2>10
<1> QED
  BY <1>1, <1>2

LEMMA PointTimesType ==
  ASSUME NEW S, Spans(S)
  PROVE  LET r == PointTimes(S)
         IN  /\ r.minTime \in Int /\ r.maxTime \in Int
             /\ \A s \in S : r.minTime <= s.time /\ s.time <= r.maxTime
BY TimesType DEF PointTimes

-----------------------------------------------------------------------------
(* Counts of spans.                                                        *)

LEMMA CountsFold ==
  ASSUME NEW S, NEW w, \A s \in S : w[s] = s.n, \E h : Sums(w, S, h)
  PROVE  \E g : Sums(w, S, g) /\ Count(S) = g[S]
<1>1. PICK h : Sums(w, S, h)
  OBVIOUS
<1>2. h = [s \in SUBSET S |-> IF s = {} THEN 0 ELSE Pick(s).n + h[s \ {Pick(s)}]]
  BY <1>1, PickIsElement DEF Sums
<1>3. PICK g : /\ g = [s \in SUBSET S |->
                         IF s = {} THEN 0 ELSE Pick(s).n + g[s \ {Pick(s)}]]
               /\ Count(S) = g[S]
  BY <1>2 DEF Count, MapThenSumSet, MapThenFoldSet, Pick
<1>4. Sums(w, S, g)
  BY <1>3, PickIsElement DEF Sums
<1> QED
  BY <1>3, <1>4

LEMMA CountIsTotal ==
  ASSUME NEW U, NEW w \in [U -> Nat], \A s \in U : w[s] = s.n,
         NEW S \in SUBSET U, IsFiniteSet(S)
  PROVE  Count(S) = Total(w, S)
<1>1. \E h : Sums(w, S, h)
  BY TotalsFold
<1>2. PICK g : Sums(w, S, g) /\ Count(S) = g[S]
  BY <1>1, CountsFold
<1> QED
  BY <1>2, FoldIsTotal

LEMMA CountType ==
  ASSUME NEW S, Spans(S)
  PROVE  Count(S) \in Nat
<1> DEFINE w == [s \in S |-> s.n]
<1>1. w \in [S -> Nat] /\ \A s \in S : w[s] = s.n
  BY DEF Spans
<1>2. S \in SUBSET S /\ IsFiniteSet(S)
  BY DEF Spans
<1> HIDE DEF w
<1>3. Count(S) = Total(w, S)
  BY <1>1, <1>2, CountIsTotal
<1>4. Total(w, S) \in Nat
  BY <1>1, <1>2, UnitsFinite, FS_CardinalityType DEF Total
<1> QED
  BY <1>3, <1>4

-----------------------------------------------------------------------------
(* What a gesture makes of the spans of the panel.                         *)

PanelTyped ==
  /\ kind \in {"heatmap", "timeseries"} /\ axis \in Axes
  /\ sample \in Samples \cup {Null}
  /\ window \in Bounds
  /\ drag \in Drags \cup {Null}
  /\ box \in Boxes \cup {Null}
  /\ menu \in Payloads \cup {Null} /\ published \in Payloads \cup {Null}
  /\ open \in BOOLEAN /\ presses \in 0 .. MaxPresses

LEMMA DataType ==
  ASSUME PanelTyped
  PROVE  Spans(Data) /\ Data \subseteq UNION Samples
<1>1. CASE sample = Null
  BY <1>1, FS_EmptySet DEF Data, Spans
<1>2. CASE sample \in Samples
  <2>1. Spans(sample)
    BY <1>2, SpanAssumption DEF Spans
  <2>2. Data \subseteq sample
    BY <1>2, NullAssumption DEF Data
  <2> QED
    BY <1>2, <2>1, <2>2, FS_Subset DEF Spans
<1> QED
  BY <1>1, <1>2 DEF PanelTyped

LEMMA RType ==
  ASSUME PanelTyped
  PROVE  /\ R.minTime \in Int /\ R.maxTime \in Int
         /\ \A s \in Data : R.minTime <= s.time /\ s.time <= R.maxTime
         /\ kind = "heatmap" => R.minLevel \in Int /\ R.maxLevel \in Int
<1>1. CASE kind = "heatmap"
  BY <1>1, DataType, RangesType DEF R, PanelTyped
<1>2. CASE kind # "heatmap"
  BY <1>2, DataType, PointTimesType DEF R
<1> QED
  BY <1>1, <1>2

LEMMA BoxType ==
  ASSUME NEW d \in Drags
  PROVE  /\ Box(d) \in Boxes /\ Band(d) \in Boxes
         /\ Box(d).x1 <= Box(d).x2 /\ Box(d).h1 <= Box(d).h2
         /\ Band(d).x1 = Box(d).x1 /\ Band(d).x2 = Box(d).x2
<1>1. /\ d.from.x \in 0 .. PlotW /\ d.to.x \in 0 .. PlotW
      /\ d.from.h \in 0 .. PlotH /\ d.to.h \in 0 .. PlotH
  BY DEF Drags, Pixels
<1>2. ASSUME NEW m \in Nat, NEW a \in 0 .. m, NEW b \in 0 .. m
      PROVE  /\ Min({a, b}) \in 0 .. m /\ Max({a, b}) \in 0 .. m
             /\ Min({a, b}) <= Max({a, b})
  BY MinMaxOfTwo
<1>3. Box(d) \in Boxes /\ Box(d).x1 <= Box(d).x2 /\ Box(d).h1 <= Box(d).h2
  BY <1>1, <1>2, UsableType DEF Box, Boxes
<1>4. PICK b \in Boxes : b = Box(d)
  BY <1>3
<1>5. [b EXCEPT !.h1 = 0, !.h2 = PlotH] \in Boxes
  <2>1. 0 \in 0 .. PlotH /\ PlotH \in 0 .. PlotH
    BY UsableType
  <2> QED
    BY <2>1 DEF Boxes
<1> QED
  BY <1>3, <1>4, <1>5 DEF Band, Boxes

LEMMA PayloadType ==
  ASSUME PanelTyped, NEW b \in Boxes
  PROVE  Payload(b) \in Payloads
<1>1. b.x1 \in Int /\ b.x2 \in Int /\ b.h1 \in Int /\ b.h2 \in Int
  BY UsableType DEF Boxes
<1>2. TimeRange(b) \in Bounds
  BY <1>1, RType, UsableType DEF TimeRange, TimeOf, Time, Bounds
<1>3. CASE kind = "heatmap"
  <2> DEFINE matching == {s \in Data : Matches(b, s)}
  <2>1. LatencyRange(b) \in Bounds
    BY <1>1, <1>3, RType, UsableType DEF LatencyRange, LevelOf, Bounds
  <2>2. Spans(matching) /\ matching \subseteq UNION Samples
    BY DataType, FS_Subset DEF Spans
  <2>3. {s.trace : s \in matching} \subseteq Traces
    BY <2>2 DEF Traces
  <2>4. MapThenSumSet(LAMBDA s : s.n, matching) \in Nat
    <3> HIDE DEF matching
    <3>1. Count(matching) \in Nat
      BY <2>2, CountType
    <3> QED
      BY <3>1 DEF Count
  <2> QED
    BY <1>2, <1>3, <2>1, <2>3, <2>4 DEF Payload, HeatmapSelection, Payloads
<1>4. CASE kind # "heatmap"
  BY <1>2, <1>4 DEF Payload, TimeseriesSelection, Payloads
<1> QED
  BY <1>3, <1>4

-----------------------------------------------------------------------------
(* Type correctness of the panel, one action at a time.                    *)

LEMMA PanelTypedInit == PanelInit => PanelTyped
BY PressAssumption, WindowAssumption, OfferAssumption DEF PanelInit, PanelTyped, Axes

LEMMA PressType ==
  ASSUME PanelTyped, NEW p, NEW q, InPlot(p) => q \in Pixels, PressAt(p, q)
  PROVE  /\ drag' \in Drags \cup {Null} /\ box' \in Boxes \cup {Null} /\ menu' = Null
         /\ presses' \in 0 .. MaxPresses
BY PressAssumption DEF PressAt, PanelTyped, Drags

LEMMA MoveType ==
  ASSUME PanelTyped, NEW q \in Pixels, MoveTo(q)
  PROVE  drag' \in Drags /\ UNCHANGED <<box, menu, published, presses>>
BY DEF MoveTo, PanelTyped, Drags

LEMMA ReleaseType ==
  ASSUME PanelTyped, NEW b \in Boxes, NEW tooSmall, ReleaseOn(b, tooSmall)
  PROVE  /\ drag' = Null /\ box' \in Boxes \cup {Null}
         /\ menu' \in Payloads \cup {Null} /\ published' \in Payloads \cup {Null}
BY PayloadType DEF ReleaseOn, Cleared, PanelTyped

LEMMA ClampType ==
  ASSUME NEW v \in Int, NEW limit \in Nat
  PROVE  Clamp(v, limit) \in 0 .. limit
<1>1. PICK m \in Int : m = Min({v, limit}) /\ m <= limit
  BY MinMaxOfTwo
<1>2. Max({0, m}) = IF 0 <= m THEN m ELSE 0
  BY MinMaxOfTwo
<1> QED
  BY <1>1, <1>2 DEF Clamp

\* A move keeps the drag inside the plot.
LEMMA MovedType ==
  ASSUME PanelTyped, NEW p \in Points, HeatmapMove(p) \/ TimeseriesMove(p)
  PROVE  drag' \in Drags /\ UNCHANGED <<box, menu, published, presses>>
<1>1. p.x \in Int /\ p.h \in Int
  BY PointAssumption
<1>2. /\ Clamp(p.x, PlotW) \in 0 .. PlotW /\ Clamp(p.h, PlotH) \in 0 .. PlotH
      /\ 0 \in 0 .. PlotH
  <2>1. PlotW \in Nat /\ PlotH \in Nat
    BY UsableType
  <2>2. Clamp(p.x, PlotW) \in 0 .. PlotW /\ Clamp(p.h, PlotH) \in 0 .. PlotH
    BY <1>1, <2>1, ClampType
  <2> QED
    BY <2>1, <2>2
<1>3. /\ [x |-> Clamp(p.x, PlotW), h |-> Clamp(p.h, PlotH)] \in Pixels
      /\ [x |-> Clamp(p.x, PlotW), h |-> 0] \in Pixels
  BY <1>2 DEF Pixels
<1> QED
  BY <1>3, MoveType DEF HeatmapMove, TimeseriesMove

LEMMA GestureType ==
  ASSUME PanelTyped, Gesture, UNCHANGED <<kind, axis, sample, window, open>>
  PROVE  PanelTyped'
<1>1. ASSUME NEW p \in Points, HeatmapDown(p) \/ TimeseriesDown(p) PROVE PanelTyped'
  <2>1. InPlot(p) => p \in Pixels /\ [x |-> p.x, h |-> 0] \in Pixels
    BY PointAssumption, UsableType DEF InPlot, Pixels
  <2>2. published' = published
    BY <1>1 DEF HeatmapDown, TimeseriesDown
  <2> QED
    BY <1>1, <2>1, <2>2, PressType DEF HeatmapDown, TimeseriesDown, PanelTyped
<1>2. ASSUME NEW p \in Points, HeatmapMove(p) \/ TimeseriesMove(p) PROVE PanelTyped'
  BY <1>2, MovedType DEF PanelTyped
<1>3. CASE HeatmapUp \/ TimeseriesUp
  <2>1. drag \in Drags /\ presses' = presses
    BY <1>3 DEF HeatmapUp, TimeseriesUp, PanelTyped
  <2>2. Box(drag) \in Boxes /\ Band(drag) \in Boxes
    BY <2>1, BoxType
  <2>3. /\ drag' = Null /\ box' \in Boxes \cup {Null}
        /\ menu' \in Payloads \cup {Null} /\ published' \in Payloads \cup {Null}
    <3>1. CASE HeatmapUp
      BY <2>2, <3>1, ReleaseType DEF HeatmapUp
    <3>2. CASE TimeseriesUp
      BY <2>2, <3>2, ReleaseType DEF TimeseriesUp
    <3> QED
      BY <1>3, <3>1, <3>2
  <2> QED
    BY <2>1, <2>3 DEF PanelTyped
<1> QED
  BY <1>1, <1>2, <1>3 DEF Gesture

LEMMA ItemType ==
  ASSUME PanelTyped,
         \/ Announce /\ UNCHANGED <<kind, axis, sample, window, presses>>
         \/ Item /\ UNCHANGED <<kind, axis, sample, window, presses>>
         \/ ZoomIn /\ UNCHANGED <<kind, axis, sample, presses>>
  PROVE  PanelTyped'
<1>1. menu \in Payloads /\ menu' = Null
  BY DEF Announce, Item, Analyze, OpenExplorer, ViewTrace, ResetSelection, Dismiss,
         ZoomIn, Chosen, PanelTyped
<1>2. menu.time \in Bounds
  BY <1>1 DEF Payloads
<1>3. CASE Announce /\ UNCHANGED <<kind, axis, sample, window, presses>>
  BY <1>1, <1>3 DEF Announce, Analyze, OpenExplorer, Leave, PanelTyped
<1>4. CASE Item /\ UNCHANGED <<kind, axis, sample, window, presses>>
  BY <1>1, <1>4 DEF Item, ViewTrace, ResetSelection, Dismiss, Leave, Cleared, PanelTyped
<1>5. CASE ZoomIn /\ UNCHANGED <<kind, axis, sample, presses>>
  BY <1>1, <1>2, <1>5 DEF ZoomIn, PanelTyped
<1> QED
  BY <1>3, <1>4, <1>5

LEMMA DashboardType ==
  ASSUME PanelTyped, Refresh \/ ResetWindow, UNCHANGED <<kind, axis>>
  PROVE  PanelTyped'
BY WindowAssumption DEF Refresh, ResetWindow, pointer, PanelTyped

LEMMA PanelStepTyped ==
  ASSUME PanelTyped, [Next]_vars
  PROVE  PanelTyped'
<1>1. CASE PanelAnnounces
  BY <1>1, ItemType DEF PanelAnnounces
<1>2. CASE PanelActs
  BY <1>2, GestureType, ItemType, DashboardType DEF PanelActs
<1>3. CASE UNCHANGED vars
  BY <1>3 DEF vars, panelVars, pointer, PanelTyped
<1> QED
  BY <1>1, <1>2, <1>3 DEF Next

\* A comparison is of the selection that was published.
LEMMA ComparisonType ==
  ASSUME NEW ax, NEW sel, NEW win, NEW c \in Comparisons(ax, sel, win)
  PROVE  c.selection = sel /\ c.window = win
BY DEF Comparisons

\* What is shown is one comparison, of a selection and a window.
ShownTyped ==
  /\ Cardinality(shown) = IF published = Null THEN 0 ELSE 1
  /\ \A c \in shown : c.selection \in Payloads /\ c.window \in Bounds

LEMMA TypeParts == TypeOK <=> PanelTyped /\ ShownTyped
BY DEF TypeOK, PanelTyped, ShownTyped

LEMMA ShownTypedStep ==
  ASSUME PanelTyped, PanelTyped', ShownTyped, [Next]_vars
  PROVE  ShownTyped'
<1>1. CASE PanelAnnounces /\ CompareAgain
  <2>1. published' \in Payloads /\ published' # Null
    BY <1>1, NullAssumption
       DEF PanelAnnounces, Announce, Analyze, OpenExplorer, Chosen, PanelTyped
  <2>2. PICK c \in Comparisons(axis, published', window') : shown' = {c}
    BY <1>1 DEF CompareAgain
  <2>3. c.selection = published' /\ c.window = window'
    BY <2>2, ComparisonType
  <2>4. Cardinality(shown') = 1
    BY <2>2, FS_Singleton
  <2> QED
    BY <2>1, <2>2, <2>3, <2>4 DEF ShownTyped, PanelTyped
<1>2. CASE PanelActs /\ Keep
  <2>1. CASE published' = Null
    BY <1>2, <2>1, FS_EmptySet DEF Keep, ShownTyped
  <2>2. CASE published' # Null
    <3>1. published' = published
      BY <1>2, <2>2
         DEF PanelActs, Gesture, HeatmapDown, TimeseriesDown, HeatmapMove, TimeseriesMove,
             MoveTo, HeatmapUp, TimeseriesUp, ReleaseOn, Cleared, Item, ViewTrace,
             ResetSelection, Dismiss, ZoomIn, Refresh, ResetWindow
    <3> QED
      BY <1>2, <2>2, <3>1 DEF Keep, ShownTyped
  <2> QED
    BY <2>1, <2>2
<1>3. CASE UNCHANGED vars
  BY <1>3 DEF vars, panelVars, ShownTyped
<1> QED
  BY <1>1, <1>2, <1>3 DEF Next

\* The variables hold what the panels, the dashboard and the app may hold.
THEOREM SelectionTyped == Spec => []TypeOK
<1>1. Init => TypeOK
  <2>1. Init => ShownTyped
    BY FS_EmptySet DEF Init, PanelInit, ShownTyped
  <2> QED
    BY <2>1, PanelTypedInit, TypeParts DEF Init
<1>2. TypeOK /\ [Next]_vars => TypeOK'
  BY PanelStepTyped, ShownTypedStep, TypeParts DEF TypeOK, PanelTyped, ShownTyped
<1> QED
  BY <1>1, <1>2, PTL DEF Spec

-----------------------------------------------------------------------------
(* What the app hears.                                                     *)

\* A step that takes the box or the drag away tells the app, zooms or leaves.
LEMMA ClearStep ==
  ASSUME PanelTyped, [Next]_vars, box # Null \/ drag # Null, box' = Null, drag' = Null
  PROVE  published' = Null \/ (menu # Null /\ window' = menu.time) \/ ~open'
<1>1. CASE PanelAnnounces
  BY <1>1 DEF PanelAnnounces, Announce, Analyze, OpenExplorer, Leave
<1>2. CASE Gesture
  <2>1. ASSUME NEW p \in Points, HeatmapDown(p) \/ TimeseriesDown(p) PROVE FALSE
    <3>1. InPlot(p) => p \in Pixels /\ [x |-> p.x, h |-> 0] \in Pixels
      BY PointAssumption, UsableType DEF InPlot, Pixels
    <3>2. InPlot(p) => drag' \in Drags
      BY <2>1, <3>1 DEF HeatmapDown, TimeseriesDown, PressAt, Drags
    <3>3. ~InPlot(p) => box' = box /\ drag' = drag
      BY <2>1 DEF HeatmapDown, TimeseriesDown, PressAt
    <3> QED
      BY <3>2, <3>3, NullAssumption
  <2>2. ASSUME NEW p \in Points, HeatmapMove(p) \/ TimeseriesMove(p) PROVE FALSE
    BY <2>2, MovedType, NullAssumption
  <2>3. CASE HeatmapUp \/ TimeseriesUp
    <3>1. drag \in Drags
      BY <2>3 DEF HeatmapUp, TimeseriesUp, PanelTyped
    <3>2. Box(drag) # Null /\ Band(drag) # Null
      BY <3>1, BoxType, NullAssumption
    <3> QED
      BY <2>3, <3>2 DEF HeatmapUp, TimeseriesUp, ReleaseOn, Cleared
  <2> QED
    BY <1>2, <2>1, <2>2, <2>3 DEF Gesture
<1>3. CASE Item \/ ZoomIn
  BY <1>3 DEF Item, ViewTrace, ResetSelection, Dismiss, ZoomIn, Leave, Cleared, Chosen
<1>4. CASE Refresh \/ ResetWindow \/ UNCHANGED vars
  BY <1>4 DEF Refresh, ResetWindow, vars, panelVars, pointer
<1> QED
  BY <1>1, <1>2, <1>3, <1>4 DEF Next, PanelActs

\* The app forgets a selection when the panel stops showing one: on every
\* press, move and release, every item of the menu and every refresh.
THEOREM ClearsAnnounced == Spec => ClearIsAnnounced
<1>1. TypeOK /\ [Next]_vars =>
        [/\ box # Null \/ drag # Null
         /\ box' = Null /\ drag' = Null
         => \/ published' = Null
            \/ menu # Null /\ window' = menu.time
            \/ ~open']_vars
  BY ClearStep, TypeParts
<1> QED
  BY <1>1, SelectionTyped, PTL DEF Spec, ClearIsAnnounced

-----------------------------------------------------------------------------
(* What is published is what is drawn.                                     *)

\* A point is drawn in the band when its time is in the range of the band.
LEMMA BandOfPoint ==
  ASSUME PanelTyped, NEW b \in Boxes, R.minTime # R.maxTime, NEW t \in Int
  PROVE  PointIn(b, R, t) <=> Within(TimeRange(b), Time(t))
<1>1. PICK lo \in Int, range \in Int, W \in Int :
        /\ lo = R.minTime /\ range = R.maxTime - R.minTime /\ W = PlotW
        /\ range = OrOne(R.maxTime - R.minTime)
  BY RType, UsableType DEF OrOne
<1>2. PICK x1 \in Int, x2 \in Int : x1 = b.x1 /\ x2 = b.x2
  BY UsableType DEF Boxes
<1>3. (t - lo) * W = t * W - lo * W /\ t * W \in Int /\ lo * W \in Int
      /\ x1 * range \in Int /\ x2 * range \in Int
  OBVIOUS
<1>4. PointIn(b, R, t) <=> x1 * range <= (t - lo) * W /\ (t - lo) * W <= x2 * range
  BY <1>1, <1>2 DEF PointIn
<1>5. Within(TimeRange(b), Time(t))
        <=> lo * W + x1 * range <= t * W /\ t * W <= lo * W + x2 * range
  BY <1>1, <1>2 DEF Within, TimeRange, TimeOf, Time
<1> QED
  BY <1>3, <1>4, <1>5

\* The time series publishes the band it shows, whatever the points, the plot
\* and the drag.
THEOREM BandsAreRanges == Spec => []BandIsRange
<1>1. TypeOK => BandIsRange
  <2> SUFFICES ASSUME PanelTyped, Dragged("timeseries"), R.minTime # R.maxTime,
                      NEW s \in Data
               PROVE  PointIn(Band(drag), R, s.time)
                        <=> Within(TimeRange(Band(drag)), Time(s.time))
    BY TypeParts DEF BandIsRange
  <2>1. s.time \in Int
    BY DataType DEF Spans
  <2>2. Band(drag) \in Boxes
    BY BoxType DEF PanelTyped, Dragged
  <2> QED
    BY <2>1, <2>2, BandOfPoint
<1> QED
  BY <1>1, SelectionTyped, PTL

-----------------------------------------------------------------------------
(* The two sides of a comparison.                                          *)

\* Rounding the bounds of time down to milliseconds loses no span.
LEMMA RoundingKeeps ==
  ASSUME NEW range \in Bounds, NEW t \in Int, Within(range, Time(t))
  PROVE  Within(Ms(range), Time(t))
<1>1. PICK W \in Int : W = PlotW /\ W > 0
  BY UsableType
<1>2. PICK a \in Int, b \in Int : a = range.from /\ b = range.to
  BY DEF Bounds
<1>3. a <= t * W /\ t * W <= b
  BY <1>1, <1>2 DEF Within, Time
<1>4. PICK p \in Int, q \in Int : p = a \div W /\ q = b \div W
  BY <1>1
<1>5. p * W <= a /\ b < (q + 1) * W
  BY <1>1, <1>4
<1>6. p * W <= t * W
  BY <1>1, <1>3, <1>5
<1>7. t < q + 1
  <2>1. t * W < (q + 1) * W
    BY <1>1, <1>3, <1>5
  <2>2. ASSUME t >= q + 1 PROVE t * W >= (q + 1) * W
    BY <1>1, <2>2
  <2> QED
    BY <1>1, <2>1, <2>2
<1>8. t * W <= q * W
  BY <1>1, <1>7
<1> QED
  BY <1>1, <1>2, <1>4, <1>6, <1>8 DEF Within, Ms, Time

\* No trace that is selected by its ids is compared with itself, and no span
\* the box counted is left out.
THEOREM WholeTraces == Spec => []TracesAreWhole
<1>1. TypeOK => TracesAreWhole
  <2> SUFFICES ASSUME TypeOK, NEW c \in shown
               PROVE  /\ ByIds(c.selection) =>
                           {s.trace : s \in In(c)} \cap {s.trace : s \in Out(c)} = {}
                      /\ \A s \in Scope(c.window) :
                           /\ Within(c.selection.time, Time(s.time))
                           /\ c.selection.latency # Null =>
                                Within(c.selection.latency, Usable * ReadLevel(axis, s.dur))
                           /\ c.selection.traces # {} => s.trace \in c.selection.traces
                           /\ ByIds(c.selection) \/ ~Misread(s.dur)
                           => s \in In(c)
    BY DEF TracesAreWhole
  <2>1. c.selection.time \in Bounds
    BY DEF TypeOK, Payloads
  <2>2. CASE ByIds(c.selection)
    BY <2>2 DEF In, Out, Inside, Outside, InSelection, ByIds
  <2>3. CASE ~ByIds(c.selection)
    <3>1. ASSUME NEW s \in Scope(c.window), Within(c.selection.time, Time(s.time)),
                 c.selection.latency # Null =>
                   Within(c.selection.latency, Usable * ReadLevel(axis, s.dur)),
                 ~Misread(s.dur)
          PROVE  s \in In(c)
      <4>1. s.time \in Int
        BY PopulationAssumption DEF Scope
      <4>2. ReadLevel(axis, s.dur) = StoredLevel(axis, s.dur)
        BY <3>1 DEF ReadLevel
      <4> QED
        BY <2>1, <2>3, <3>1, <4>1, <4>2, RoundingKeeps DEF In, Inside, InSelection, InBox
    <3> QED
      BY <2>3, <3>1
  <2> QED
    BY <2>2, <2>3
<1> QED
  BY <1>1, SelectionTyped, PTL

-----------------------------------------------------------------------------
(* The cells of the heatmap.                                               *)

LEMMA Scaling ==
  ASSUME NEW a \in Int, NEW b \in Int, NEW k \in Nat \ {0}
  PROVE  a <= b <=> a * k <= b * k
<1>1. a <= b => a * k <= b * k
  OBVIOUS
<1>2. b + 1 <= a => (b + 1) * k <= a * k
  OBVIOUS
<1>3. (b + 1) * k = b * k + k /\ a * k \in Int /\ b * k \in Int
  OBVIOUS
<1> QED
  BY <1>1, <1>2, <1>3

\* One axis: what is at B, of range W * g, is counted in cell c of n cells.
Counted(W, n, g, B, q, c) ==
  /\ q * (g * W) <= B * n /\ B * n < (q + 1) * (g * W)
  /\ c = Min({q, n - 1})

\* The box reaches from l to u of W pixels.
LEMMA CellOfPlace ==
  ASSUME NEW W \in Nat \ {0}, NEW n \in Nat \ {0}, NEW g \in Nat \ {0},
         NEW l \in 0 .. W, NEW u \in 0 .. W, NEW B \in Int, NEW q \in Int, NEW c \in Int,
         Counted(W, n, g, B, q, c)
  PROVE  /\ l * n <= c * W /\ (c + 1) * W <= u * n /\ B <= g * W
              => l * g <= B /\ B <= u * g
         /\ l * g <= B /\ B <= u * g
              => c >= 0 /\ l * n <= (c + 1) * W /\ c * W <= u * n
<1>0. q * (g * W) <= B * n /\ B * n < (q + 1) * (g * W)
  BY DEF Counted
<1>1. c <= q /\ c <= n - 1 /\ (c = q \/ c = n - 1)
  BY MinMaxOfTwo DEF Counted
<1>2. (c * W) * g <= B * n
  <2>1. PICK k \in Nat \ {0} : k = g * W
    OBVIOUS
  <2>2. c * k <= q * k
    BY <1>1, Scaling
  <2>3. c * k = (c * W) * g
    BY <2>1
  <2> QED
    BY <1>0, <2>1, <2>2, <2>3
<1>3. c = q => B * n <= ((c + 1) * W) * g
  <2>1. (c + 1) * (g * W) = ((c + 1) * W) * g
    OBVIOUS
  <2> QED
    BY <1>0, <2>1
<1>4. c = n - 1 => (c + 1) * W = W * n
  OBVIOUS
<1>5. ASSUME l * n <= c * W, (c + 1) * W <= u * n, B <= g * W
      PROVE  l * g <= B /\ B <= u * g
  <2>1. (l * n) * g <= (c * W) * g
    BY <1>5, Scaling
  <2>2. (l * g) * n <= B * n
    <3>1. (l * n) * g = (l * g) * n
      OBVIOUS
    <3> QED
      BY <1>2, <2>1, <3>1
  <2>3. l * g <= B
    BY <2>2, Scaling
  <2>4. CASE c = q
    <3>1. ((c + 1) * W) * g <= (u * n) * g
      BY <1>5, Scaling
    <3>2. (u * n) * g = (u * g) * n
      OBVIOUS
    <3>3. B * n <= (u * g) * n
      BY <1>3, <2>4, <3>1, <3>2
    <3> QED
      BY <2>3, <3>3, Scaling
  <2>5. CASE c = n - 1
    <3>1. W * n <= u * n
      BY <1>4, <1>5, <2>5
    <3>2. W <= u
      BY <3>1, Scaling
    <3>3. W * g <= u * g
      BY <3>2, Scaling
    <3> QED
      BY <1>5, <2>3, <3>3
  <2> QED
    BY <1>1, <2>4, <2>5
<1>6. ASSUME l * g <= B, B <= u * g
      PROVE  c >= 0 /\ l * n <= (c + 1) * W /\ c * W <= u * n
  <2>1. B * n <= (u * g) * n /\ (l * g) * n <= B * n
    BY <1>6, Scaling
  <2>2. (u * g) * n = (u * n) * g /\ (l * g) * n = (l * n) * g
    OBVIOUS
  <2>3. c * W <= u * n
    <3>1. (c * W) * g <= (u * n) * g
      BY <1>2, <2>1, <2>2
    <3> QED
      BY <3>1, Scaling
  <2>4. l * n <= (c + 1) * W
    <3>1. CASE c = q
      <4>1. (l * n) * g <= ((c + 1) * W) * g
        BY <1>3, <2>1, <2>2, <3>1
      <4> QED
        BY <4>1, Scaling
    <3>2. CASE c = n - 1
      <4>1. l * n <= W * n
        BY Scaling
      <4> QED
        BY <1>4, <3>2, <4>1
    <3> QED
      BY <1>1, <3>1, <3>2
  <2>5. c >= 0
    <3>1. CASE c = n - 1
      BY <3>1
    <3>2. CASE c = q
      <4>1. 0 <= (l * g) * n
        <5>1. 0 <= l * g
          OBVIOUS
        <5> QED
          BY <5>1, Scaling
      <4>2. 0 < (q + 1) * (g * W)
        BY <1>0, <2>1, <4>1
      <4>3. ASSUME q + 1 <= 0 PROVE (q + 1) * (g * W) <= 0
        <5>1. PICK k \in Nat \ {0} : k = g * W
          OBVIOUS
        <5>2. (q + 1) * k <= 0 * k
          BY <4>3, Scaling
        <5> QED
          BY <5>1, <5>2
      <4> QED
        BY <3>2, <4>2, <4>3
    <3> QED
      BY <1>1, <3>1, <3>2
  <2> QED
    BY <2>3, <2>4, <2>5
<1> QED
  BY <1>5, <1>6

\* The column of a span.
LEMMA ColumnOfSpan ==
  ASSUME PanelTyped, kind = "heatmap", NEW b \in Boxes, NEW s \in Data
  PROVE  LET c == Cell(axis, R, s).x
         IN  /\ b.x1 * XBuckets <= c * PlotW /\ (c + 1) * PlotW <= b.x2 * XBuckets
                  => Within(TimeRange(b), Time(s.time))
             /\ Within(TimeRange(b), Time(s.time)) /\ R.minTime # R.maxTime
                  => /\ c >= 0 /\ b.x1 * XBuckets <= (c + 1) * PlotW
                     /\ c * PlotW <= b.x2 * XBuckets
<1>1. PICK n \in Nat \ {0} : n = XBuckets
  <2>1. PICK m \in Int : m = PlotW \div 4
    BY UsableType
  <2>2. Max({m, 10}) = IF m <= 10 THEN 10 ELSE m
    BY MinMaxOfTwo
  <2> QED
    BY <2>1, <2>2 DEF XBuckets
<1>2. PICK lo \in Int, hi \in Int, t \in Int :
        /\ lo = R.minTime /\ hi = R.maxTime /\ t = s.time /\ lo <= t /\ t <= hi
  BY RType, DataType DEF Spans
<1>3. PICK W \in Nat \ {0} : W = PlotW
  BY UsableType
<1>4. PICK l \in 0 .. W, u \in 0 .. W : l = b.x1 /\ u = b.x2
  BY <1>3 DEF Boxes
<1>5. PICK g \in Nat \ {0} : g = OrOne(hi - lo) /\ (lo # hi => g = hi - lo)
  BY <1>2 DEF OrOne
<1>6. PICK q \in Int, c \in Int :
        q = ((t - lo) * n) \div g /\ c = Min({q, n - 1}) /\ c = Cell(axis, R, s).x
  <2>1. PICK q \in Int : q = ((t - lo) * n) \div g
    OBVIOUS
  <2>2. Min({q, n - 1}) \in Int
    BY <2>1, MinMaxOfTwo
  <2> QED
    BY <1>1, <1>2, <1>5, <2>1, <2>2 DEF Cell
<1>7. PICK B \in Int : B = (t - lo) * W
  OBVIOUS
<1>8. q * (g * W) <= B * n /\ B * n < (q + 1) * (g * W)
  <2>1. PICK a \in Int : a = (t - lo) * n
    OBVIOUS
  <2>2. q * g <= a /\ a < (q + 1) * g
    BY <1>6, <2>1
  <2>3. (q * g) * W <= a * W /\ a * W < ((q + 1) * g) * W
    BY <2>2, Scaling
  <2>4. a * W = B * n
    BY <1>7, <2>1
  <2>5. (q * g) * W = q * (g * W) /\ ((q + 1) * g) * W = (q + 1) * (g * W)
    OBVIOUS
  <2> QED
    BY <2>3, <2>4, <2>5
<1>9. /\ l * n <= c * W /\ (c + 1) * W <= u * n /\ B <= g * W => l * g <= B /\ B <= u * g
      /\ l * g <= B /\ B <= u * g => c >= 0 /\ l * n <= (c + 1) * W /\ c * W <= u * n
  <2>1. Counted(W, n, g, B, q, c)
    BY <1>6, <1>8 DEF Counted
  <2> QED
    BY <2>1, CellOfPlace
<1>10. Within(TimeRange(b), Time(s.time))
        <=> lo * W + l * (hi - lo) <= t * W /\ t * W <= lo * W + u * (hi - lo)
  BY <1>2, <1>3, <1>4 DEF Within, TimeRange, TimeOf, Time
<1>11. CASE lo = hi
  <2>1. lo * W = t * W /\ l * (hi - lo) = 0 /\ u * (hi - lo) = 0 /\ t * W \in Int
    BY <1>2, <1>11
  <2>2. Within(TimeRange(b), Time(s.time))
    BY <1>10, <2>1
  <2>3. R.minTime = R.maxTime
    BY <1>2, <1>11
  <2> QED
    BY <2>2, <2>3
<1>12. CASE lo # hi
  <2>1. B = t * W - lo * W /\ t * W \in Int /\ lo * W \in Int
    BY <1>7
  <2>2. l * (hi - lo) = l * g /\ u * (hi - lo) = u * g /\ l * g \in Int /\ u * g \in Int
    BY <1>5, <1>12
  <2>3. Within(TimeRange(b), Time(s.time)) <=> l * g <= B /\ B <= u * g
    BY <1>10, <2>1, <2>2
  <2>4. B <= g * W
    <3>1. t - lo <= g
      BY <1>2, <1>5, <1>12
    <3> QED
      BY <1>7, <3>1, Scaling
  <2>5. /\ l * n <= c * W /\ (c + 1) * W <= u * n => l * g <= B /\ B <= u * g
        /\ l * g <= B /\ B <= u * g => c >= 0 /\ l * n <= (c + 1) * W /\ c * W <= u * n
    BY <1>9, <2>4
  <2> QED
    BY <1>1, <1>3, <1>4, <1>6, <2>3, <2>5
<1> QED
  BY <1>11, <1>12

\* The row of a span that is drawn at its own level, on an axis that ends above
\* where it begins.
LEMMA RowOfSpan ==
  ASSUME PanelTyped, kind = "heatmap", NEW b \in Boxes, NEW s \in Data,
         DrawnLevel(axis, s.dur) = ReadLevel(axis, s.dur), R.minLevel < R.maxLevel
  PROVE  LET c == Cell(axis, R, s).y
             level == ReadLevel(axis, s.dur)
         IN  /\ b.h1 * YBuckets <= c * PlotH /\ (c + 1) * PlotH <= b.h2 * YBuckets
                  /\ level < R.maxLevel
                  => Within(LatencyRange(b), Usable * level)
             /\ Within(LatencyRange(b), Usable * level)
                  => /\ c >= 0 /\ b.h1 * YBuckets <= (c + 1) * PlotH
                     /\ c * PlotH <= b.h2 * YBuckets
<1>1. PICK lo \in Int, hi \in Int, level \in Int :
        lo = R.minLevel /\ hi = R.maxLevel /\ level = ReadLevel(axis, s.dur) /\ lo < hi
  BY RType, DataType, LevelType DEF Spans, PanelTyped
<1>2. PICK H \in Nat \ {0}, n \in Nat \ {0}, U \in Nat \ {0} :
        H = PlotH /\ n = YBuckets /\ U = Usable /\ U <= H
  BY UsableType
<1>3. PICK l \in 0 .. H, u \in 0 .. H : l = b.h1 /\ u = b.h2
  BY <1>2 DEF Boxes
<1>4. PICK g \in Nat \ {0} : g = hi - lo /\ g = OrOne(hi - lo)
  BY <1>1 DEF OrOne
<1>5. PICK B \in Int : B = U * (level - lo)
  OBVIOUS
<1>6. PICK d \in Nat \ {0} : d = g * H
  OBVIOUS
<1>7. PICK q \in Int, c \in Int :
        q = (B * n) \div d /\ c = Min({q, n - 1}) /\ c = Cell(axis, R, s).y
  <2>1. PICK q \in Int : q = (B * n) \div d
    OBVIOUS
  <2>2. Min({q, n - 1}) \in Int
    BY <2>1, MinMaxOfTwo
  <2>3. Floored(U * (level - lo) * n, g * H) = q
    BY <1>5, <1>6, <2>1 DEF Floored
  <2> QED
    BY <1>1, <1>2, <1>4, <2>1, <2>2, <2>3 DEF Cell
<1>8. q * (g * H) <= B * n /\ B * n < (q + 1) * (g * H)
  BY <1>6, <1>7
<1>9. Within(LatencyRange(b), Usable * level)
        <=> U * lo + l * (hi - lo) <= U * level /\ U * level <= U * lo + u * (hi - lo)
  BY <1>1, <1>2, <1>3 DEF Within, LatencyRange, LevelOf
<1>10. B = U * level - U * lo /\ U * level \in Int /\ U * lo \in Int
  BY <1>5
<1>11. l * (hi - lo) = l * g /\ u * (hi - lo) = u * g /\ l * g \in Int /\ u * g \in Int
  BY <1>4
<1>12. Within(LatencyRange(b), Usable * level) <=> l * g <= B /\ B <= u * g
  BY <1>9, <1>10, <1>11
<1>13. ASSUME level < hi, 0 <= c PROVE B <= g * H
  <2>1. (level - lo) * U <= g * U
    BY <1>4, <1>13, Scaling
  <2>2. U * g <= H * g
    BY <1>2, Scaling
  <2> QED
    BY <1>5, <2>1, <2>2
<1>14. ASSUME l * n <= c * H PROVE 0 <= c
  <2>1. 0 <= l * n
    OBVIOUS
  <2>2. 0 * H <= c * H
    BY <1>14, <2>1
  <2> QED
    BY <2>2, Scaling
<1>15. /\ l * n <= c * H /\ (c + 1) * H <= u * n /\ B <= g * H
            => l * g <= B /\ B <= u * g
       /\ l * g <= B /\ B <= u * g => c >= 0 /\ l * n <= (c + 1) * H /\ c * H <= u * n
  <2>1. Counted(H, n, g, B, q, c)
    BY <1>7, <1>8 DEF Counted
  <2> QED
    BY <2>1, CellOfPlace
<1> QED
  BY <1>1, <1>2, <1>3, <1>7, <1>12, <1>13, <1>14, <1>15

\* What is drawn inside the box is selected, and what is selected is drawn in a
\* cell that the box touches: on both axes, for every plot, number of cells,
\* unit of the column and answer of the query.
THEOREM BoxesSelectWhatTheyCover == Spec => []BoxSelectsWhatItCovers
<1>1. TypeOK => BoxSelectsWhatItCovers
  <2> SUFFICES ASSUME PanelTyped, Dragged("heatmap"), NEW s \in Data
               PROVE  LET cell == Cell(axis, R, s)
                      IN  /\ s.dur >= 10 /\ InGrid(cell) /\ CellInside(Box(drag), cell)
                             => Matches(Box(drag), s)
                          /\ /\ Matches(Box(drag), s)
                             /\ R.minTime # R.maxTime /\ R.minLevel < R.maxLevel
                             => InGrid(cell) /\ CellTouched(Box(drag), cell)
    BY TypeParts DEF BoxSelectsWhatItCovers
  <2>1. kind = "heatmap" /\ axis \in Axes
    BY DEF Dragged, PanelTyped
  <2>2. PICK b \in Boxes : b = Box(drag)
    BY BoxType DEF PanelTyped, Dragged
  <2>3. PICK lo \in Int, hi \in Int, level \in Int :
          /\ lo = R.minLevel /\ hi = R.maxLevel /\ level = ReadLevel(axis, s.dur)
          /\ LowestLevel(axis) <= lo
          /\ s.dur >= 10 => lo <= level /\ level < hi
    BY <2>1, DataType, RangesType, LevelType DEF R, Spans
  <2>4. s.dur \in DOMAIN Log10 \cup {0} /\ LowestLevel(axis) \in Int
    BY <2>1, DataType, LevelType DEF Spans
  <2>5. ASSUME s.dur >= 10, CellInside(b, Cell(axis, R, s))
        PROVE  Matches(b, s)
    <3>1. DrawnLevel(axis, s.dur) = ReadLevel(axis, s.dur) /\ R.minLevel < R.maxLevel
      BY <2>1, <2>3, <2>4, <2>5, LevelType
    <3>2. Within(TimeRange(b), Time(s.time))
      BY <2>1, <2>5, ColumnOfSpan DEF CellInside
    <3>3. Within(LatencyRange(b), Usable * ReadLevel(axis, s.dur))
      BY <2>1, <2>3, <2>5, <3>1, RowOfSpan DEF CellInside
    <3> QED
      BY <3>2, <3>3 DEF Matches
  <2>6. ASSUME Matches(b, s), R.minTime # R.maxTime, R.minLevel < R.maxLevel
        PROVE  InGrid(Cell(axis, R, s)) /\ CellTouched(b, Cell(axis, R, s))
    <3>1. /\ Within(TimeRange(b), Time(s.time))
          /\ Within(LatencyRange(b), Usable * ReadLevel(axis, s.dur))
      BY <2>6 DEF Matches
    <3>2. lo <= level
      <4>1. PICK U \in Nat \ {0}, h \in Nat : U = Usable /\ h = b.h1
        BY UsableType DEF Boxes
      <4>2. U * lo + h * (hi - lo) <= U * level
        BY <2>3, <3>1, <4>1 DEF Within, LatencyRange, LevelOf
      <4>3. 0 <= h * (hi - lo)
        BY <2>3, <2>6
      <4>4. lo * U <= level * U
        BY <4>2, <4>3
      <4> QED
        BY <4>4, Scaling
    <3>3. DrawnLevel(axis, s.dur) = ReadLevel(axis, s.dur)
      BY <2>1, <2>3, <2>4, <3>2, LevelType
    <3> QED
      BY <2>1, <2>6, <3>1, <3>3, ColumnOfSpan, RowOfSpan DEF InGrid, CellTouched
  <2> QED
    BY <2>2, <2>5, <2>6
<1> QED
  BY <1>1, SelectionTyped, PTL

-----------------------------------------------------------------------------
(* The score of a value: a lower confidence bound in whole thousandths.    *)

\* Root finds the whole root of every number up to a million.
LEMMA RootIsRoot ==
  ASSUME NEW n \in Nat, n <= 1000 * 1000
  PROVE  /\ Root(n) \in 0 .. 1000
         /\ Root(n) * Root(n) <= n /\ n < (Root(n) + 1) * (Root(n) + 1)
<1> DEFINE Above == {r \in Nat : n < (r + 1) * (r + 1)}
<1>1. 1000 \in Above
  BY SMT
<1>2. PICK m \in Above : \A r \in Above : m <= r
  <2>1. Above \in SUBSET Nat
    OBVIOUS
  <2> HIDE DEF Above
  <2> QED
    BY <1>1, <2>1, LeastOf
<1>3. m \in 0 .. 1000
  BY <1>1, <1>2, SMT
<1>4. m * m <= n
  <2>1. CASE m = 0
    BY <2>1, SMT
  <2>2. CASE m # 0
    <3>1. PICK r \in Nat : r = m - 1 /\ r \notin Above
      BY <1>2, <2>2, SMT
    <3> QED
      BY <3>1, SMT
  <2> QED
    BY <2>1, <2>2, SMT
<1>5. \E r \in 0 .. 1000 : r * r <= n /\ n < (r + 1) * (r + 1)
  BY <1>2, <1>3, <1>4, SMT
<1> DEFINE Is(r) == r * r <= n /\ n < (r + 1) * (r + 1)
<1>6. Root(n) = CHOOSE r \in 0 .. 1000 : Is(r)
  BY DEF Root
<1>7. \E r \in 0 .. 1000 : Is(r)
  BY <1>5
<1>8. Root(n) \in 0 .. 1000 /\ Is(Root(n))
  <2> HIDE DEF Is
  <2> QED
    BY <1>6, <1>7, Zenon
<1> QED
  BY <1>8

\* A quotient that is rounded down.
LEMMA Quotients ==
  ASSUME NEW a \in Int, NEW b \in Nat \ {0}
  PROVE  /\ a \div b \in Int
         /\ (a \div b) * b <= a /\ a < (a \div b) * b + b
         /\ a >= 0 => 0 <= a \div b /\ a \div b <= a
<1>1. PICK q \in Int : q = a \div b /\ q * b <= a /\ a < q * b + b
  BY SMT
<1>2. ASSUME a >= 0 PROVE 0 <= q /\ q <= a
  <2>1. 0 * b < (q + 1) * b
    BY <1>1, <1>2, SMT
  <2>2. 0 <= q
    <3>1. q + 1 <= 0 <=> (q + 1) * b <= 0 * b
      BY <1>1, Scaling, SMT
    <3> QED
      BY <1>1, <2>1, <3>1, SMT
  <2>3. 1 * q <= b * q
    BY <1>1, <2>2, SMT
  <2> QED
    BY <1>1, <2>2, <2>3, SMT
<1> QED
  BY <1>1, <1>2, SMT

\* The parts of a score: p and q, the shares inside and outside, rounded down
\* and up, and e, their standard error.
Shares(a, n, b, m, p, q) ==
  /\ n \in Nat \ {0} /\ m \in Nat \ {0} /\ a \in 0 .. n /\ b \in 0 .. m
  /\ p \in 0 .. 1000 /\ q \in 0 .. 1000
  /\ p * (n + 2) <= 1000 * (a + 1) /\ 1000 * (a + 1) < (p + 1) * (n + 2)
  /\ (q - 1) * (m + 2) < 1000 * (b + 1) /\ 1000 * (b + 1) <= q * (m + 2)

SpreadAbove(n, p, e) == p * (1000 - p) <= (e * e) * (n + 2)
SpreadBelow(n, m, p, q, e) ==
  \E v, u \in Nat : /\ (e - 1) * (e - 1) <= v + u
                    /\ v * (n + 2) <= p * (1000 - p)
                    /\ u * (m + 2) <= q * (1000 - q)

ScoreParts(a, n, b, m, p, q, e) ==
  /\ Shares(a, n, b, m, p, q) /\ e \in 1 .. 1001
  /\ SpreadAbove(n, p, e) /\ SpreadAbove(m, q, e) /\ SpreadBelow(n, m, p, q, e)
  /\ DifferenceLowerBound(a, n, b, m) = p - q - (196 * e) \div 100

LEMMA ScoreHasParts ==
  ASSUME NEW n \in Nat \ {0}, NEW m \in Nat \ {0}, NEW a \in 0 .. n, NEW b \in 0 .. m
  PROVE  \E p, q, e \in Int : ScoreParts(a, n, b, m, p, q, e)
<1>1. PICK k \in Nat \ {0}, j \in Nat \ {0} : k = n + 2 /\ j = m + 2 /\ k >= 3 /\ j >= 3
  BY SMT
<1>2. PICK p \in Int : p = (1000 * (a + 1)) \div k
  BY SMT
<1>3. p * k <= 1000 * (a + 1) /\ 1000 * (a + 1) < p * k + k
  BY <1>2, Quotients, SMT
<1>4. p \in 0 .. 1000
  <2>1. p * k < 1000 * k
    BY <1>1, <1>3, SMT
  <2>2. 0 * k < (p + 1) * k
    BY <1>1, <1>3, SMT
  <2>3. ~ (1000 <= p) /\ ~ (p + 1 <= 0)
    <3>1. 1000 <= p <=> 1000 * k <= p * k
      BY Scaling, SMT
    <3>2. p + 1 <= 0 <=> (p + 1) * k <= 0 * k
      BY Scaling, SMT
    <3> QED
      BY <2>1, <2>2, <3>1, <3>2, SMT
  <2> QED
    BY <2>3, SMT
<1>5. PICK q \in Int : q = (1000 * (b + 1) + j - 1) \div j
  BY SMT
<1>6. q * j <= 1000 * (b + 1) + j - 1 /\ 1000 * (b + 1) + j - 1 < q * j + j
  BY <1>5, Quotients, SMT
<1>7. q \in 0 .. 1000
  <2>1. q * j < 1001 * j /\ 0 * j < (q + 1) * j
    BY <1>1, <1>6, SMT
  <2>2. ~ (1001 <= q) /\ ~ (q + 1 <= 0)
    <3>1. 1001 <= q <=> 1001 * j <= q * j
      BY Scaling, SMT
    <3>2. q + 1 <= 0 <=> (q + 1) * j <= 0 * j
      BY Scaling, SMT
    <3> QED
      BY <2>1, <3>1, <3>2, SMT
  <2> QED
    BY <2>2, SMT
<1>8. PICK vp \in Int, vq \in Int : vp = p * (1000 - p) /\ vq = q * (1000 - q)
  BY SMT
<1>9. 0 <= vp /\ vp <= 250000 /\ 0 <= vq /\ vq <= 250000
  <2>1. (p - 500) * (p - 500) >= 0 /\ (q - 500) * (q - 500) >= 0
    BY SMT
  <2>2. vp <= 250000 /\ vq <= 250000
    BY <1>8, <2>1, SMT
  <2>3. vp >= 0 /\ vq >= 0
    BY <1>4, <1>7, <1>8, SMT
  <2> QED
    BY <1>8, <2>2, <2>3, SMT
<1>10. PICK hp \in Int, hq \in Int : hp = vp \div k /\ hq = vq \div j
  BY SMT
<1>11. hp * k <= vp /\ vp < hp * k + k /\ hq * j <= vq /\ vq < hq * j + j
  BY <1>10, Quotients, SMT
<1>12. 0 <= hp /\ hp <= 250000 /\ 0 <= hq /\ hq <= 250000
  BY <1>1, <1>8, <1>9, <1>10, Quotients, SMT
<1>13. PICK r \in 0 .. 1000 :
         r = Root(hp + hq) /\ r * r <= hp + hq /\ hp + hq < (r + 1) * (r + 1)
  <2>1. PICK w \in Nat : w = hp + hq /\ w <= 1000 * 1000
    BY <1>10, <1>12, SMT
  <2>2. /\ Root(w) \in 0 .. 1000
        /\ Root(w) * Root(w) <= w /\ w < (Root(w) + 1) * (Root(w) + 1)
    BY <2>1, RootIsRoot, SMT
  <2> QED
    BY <2>1, <2>2, SMT
<1>14. PICK e \in 1 .. 1001 : e = r + 1
  BY SMT
<1>15. PICK s \in Int : s = e * e /\ hp + hq + 1 <= s /\ (e - 1) * (e - 1) <= hp + hq
  BY <1>13, <1>14, SMT
<1>16. vp <= s * k /\ vq <= s * j
  <2>1. (hp + 1) * k <= s * k /\ (hq + 1) * j <= s * j
    BY <1>10, <1>12, <1>15, Scaling, SMT
  <2> QED
    BY <1>11, <2>1, SMT
<1>17. DifferenceLowerBound(a, n, b, m) = p - q - (196 * e) \div 100
  <2>1. ~ (n <= 0) /\ ~ (m <= 0) /\ k = n + 2 /\ j = m + 2
    BY <1>1, SMT
  <2>2. p = (1000 * (a + 1)) \div (n + 2)
        /\ q = (1000 * (b + 1) + (m + 2) - 1) \div (m + 2)
    BY <1>2, <1>5, <2>1, Zenon
  <2>3. e = Root((p * (1000 - p)) \div (n + 2) + (q * (1000 - q)) \div (m + 2)) + 1
    BY <1>8, <1>10, <1>13, <1>14, <2>1, Zenon
  <2> DEFINE P1 == (1000 * (a + 1)) \div (n + 2)
             P2 == (1000 * (b + 1) + (m + 2) - 1) \div (m + 2)
             E(x, y) == Root((x * (1000 - x)) \div (n + 2) + (y * (1000 - y)) \div (m + 2)) + 1
  <2>4. DifferenceLowerBound(a, n, b, m)
          = IF n <= 0 \/ m <= 0 THEN 0 ELSE P1 - P2 - (196 * E(P1, P2)) \div 100
    BY Zenon DEF DifferenceLowerBound
  <2>5. P1 = p /\ P2 = q /\ E(p, q) = e
    BY <2>2, <2>3, Zenon
  <2> HIDE DEF P1, P2, E
  <2> QED
    BY <2>1, <2>4, <2>5, Zenon
<1>18. p * (n + 2) <= 1000 * (a + 1) /\ 1000 * (a + 1) < (p + 1) * (n + 2)
  BY <1>1, <1>3, SMT
<1>19. (q - 1) * (m + 2) < 1000 * (b + 1) /\ 1000 * (b + 1) <= q * (m + 2)
  BY <1>1, <1>6, SMT
<1>20. SpreadBelow(n, m, p, q, e)
  <2>1. hp \in Nat /\ hq \in Nat
    BY <1>10, <1>12, SMT
  <2>2. hp * (n + 2) <= p * (1000 - p) /\ hq * (m + 2) <= q * (1000 - q)
    BY <1>1, <1>8, <1>11, SMT
  <2> QED
    BY <1>15, <2>1, <2>2 DEF SpreadBelow
<1>21. SpreadAbove(n, p, e) /\ SpreadAbove(m, q, e)
  BY <1>1, <1>8, <1>15, <1>16, SMT DEF SpreadAbove
<1>22. Shares(a, n, b, m, p, q)
  BY <1>1, <1>4, <1>7, <1>18, <1>19, SMT DEF Shares
<1>23. ScoreParts(a, n, b, m, p, q, e)
  BY <1>14, <1>17, <1>20, <1>21, <1>22 DEF ScoreParts
<1>24. e \in Int
  OBVIOUS
<1> QED
  BY <1>23, <1>24, Zenon

\* A share below one half, of at least five spans, is as uncertain as the count
\* of spans lets it grow by the two that are added.
LEMMA LowShare ==
  ASSUME NEW n, NEW m, NEW a, NEW b, NEW p, NEW q, NEW e,
         ScoreParts(a, n, b, m, p, q, e), 5 <= a, p < 500
  PROVE  1000 - 2 * p <= e * n
<1>0. /\ n \in Nat \ {0} /\ a \in 5 .. n
      /\ p \in 0 .. 499 /\ e \in Nat \ {0}
      /\ 1000 * (a + 1) < (p + 1) * (n + 2) /\ SpreadAbove(n, p, e)
  <2>1. /\ p \in 0 .. 1000 /\ e \in 1 .. 1001 /\ n \in Nat \ {0} /\ a \in 0 .. n
        /\ 1000 * (a + 1) < (p + 1) * (n + 2) /\ SpreadAbove(n, p, e)
    BY DEF ScoreParts, Shares
  <2>2. 0 <= p /\ p <= 499 /\ 1 <= e
    BY <2>1, SMT
  <2> QED
    BY <2>1, <2>2, SMT
<1>1. CASE n >= 1000
  <2>1. 1 * n <= e * n
    BY <1>0, Scaling, SMT
  <2> QED
    BY <1>0, <1>1, <2>1, SMT
<1>2. CASE n < 1000
  <2>1. PICK k \in Nat \ {0} : k = n + 2 /\ k >= 7
    BY <1>0, SMT
  <2>2. PICK y \in Int : y = p * k /\ 5000 <= y
    BY <1>0, <1>2, <2>1, SMT
  <2>3. 500 * y <= (1000 - p) * y
    BY <1>0, <2>2, Scaling, SMT
  <2>4. PICK w \in Nat : w = e * k
    BY <1>0, <2>1, SMT
  <2>5. (1000 - p) * y <= w * w
    <3>1. (p * (1000 - p)) * k <= ((e * e) * k) * k
      BY <1>0, <2>1, Scaling, SMT DEF SpreadAbove
    <3>2. (p * (1000 - p)) * k = (1000 - p) * y /\ ((e * e) * k) * k = w * w
      BY <1>0, <2>1, <2>2, <2>4, SMT
    <3> QED
      BY <1>0, <3>1, <3>2, SMT
  <2>6. w >= 1400
    <3>1. 2500 * 1000 <= w * w
      BY <1>0, <2>2, <2>3, <2>5, SMT
    <3>2. ASSUME w < 1400 PROVE FALSE
      <4>1. w * w <= 1400 * 1400
        BY <1>0, <3>2, SMT
      <4> QED
        BY <1>0, <3>1, <4>1, SMT
    <3> QED
      BY <1>0, <3>2, SMT
  <2>7. 5 * w <= 7 * (e * n)
    <3>1. PICK x \in Int : x = e * n
      BY <1>0, SMT
    <3>2. w = x + 2 * e
      BY <1>0, <2>1, <2>4, <3>1, SMT
    <3>3. 5 * e <= x
      BY <1>0, <3>1, Scaling, SMT
    <3> QED
      BY <1>0, <3>1, <3>2, <3>3, SMT
  <2>8. PICK x \in Int : x = e * n
    BY <1>0, SMT
  <2> QED
    BY <1>0, <2>6, <2>7, <2>8, SMT
<1> QED
  BY <1>0, <1>1, <1>2, SMT

\* A share above one half that is not whole is as uncertain as the two that are
\* added make it shrink.
LEMMA HighShare ==
  ASSUME NEW n, NEW m, NEW a, NEW b, NEW p, NEW q, NEW e, NEW t,
         ScoreParts(a, n, b, m, p, q, e), b < m, 500 < q, q < 1000,
         t = (196 * e) \div 100
  PROVE  2 * q - 1000 <= t * m
<1>0. /\ m \in Nat \ {0} /\ t \in Int
      /\ q \in 501 .. 999 /\ e \in Nat \ {0} /\ b \in Nat
      /\ (q - 1) * (m + 2) < 1000 * (b + 1) /\ SpreadAbove(m, q, e)
  <2>1. /\ e \in 1 .. 1001 /\ b \in 0 .. m /\ m \in Nat \ {0} /\ q \in 0 .. 1000
        /\ (q - 1) * (m + 2) < 1000 * (b + 1) /\ SpreadAbove(m, q, e)
    BY DEF ScoreParts, Shares
  <2>2. 501 <= q /\ q <= 999 /\ 1 <= e /\ b \in Nat /\ t \in Int
    BY <2>1, SMT
  <2> QED
    BY <2>1, <2>2, SMT
<1>1. PICK x \in 1 .. 499 : q = 1000 - x
  BY <1>0, SMT
<1>2. PICK k \in Nat \ {0} : k = m + 2
  BY <1>0, SMT
<1>3. PICK y \in Int : y = x * k /\ y >= 2001 - k
  <2>1. (q - 1) * k = 999 * k - x * k
    BY <1>0, <1>1, SMT
  <2>2. 1000 * (b + 1) <= 1000 * m
    BY <1>0, SMT
  <2> QED
    BY <1>0, <1>2, <2>1, <2>2, SMT
<1>4. m >= 3
  <2>1. 500 * k <= (q - 1) * k
    BY <1>0, Scaling, SMT
  <2> QED
    BY <1>0, <1>2, <2>1, SMT
<1>5. 100 * t <= 196 * e /\ 196 * e < 100 * t + 100
  BY <1>0, SMT
<1>6. t >= 1 /\ (e >= 2 => t >= 3 /\ 2 * t >= 3 * e)
  BY <1>0, <1>5, SMT
<1>7. x * (1000 - x) <= (e * e) * k
  BY <1>0, <1>1, <1>2, SMT DEF SpreadAbove
<1>8. CASE m >= 999
  <2>1. 1 * m <= t * m
    BY <1>0, <1>4, <1>6, Scaling, SMT
  <2> QED
    BY <1>0, <1>1, <1>8, <2>1, SMT
<1>9. CASE m < 999
  <2>1. x >= 2
    BY <1>0, <1>2, <1>3, <1>9, SMT
  <2>2. 1996 <= x * (1000 - x)
    <3>1. 0 <= (x - 2) * (998 - x)
      BY <1>0, <2>1, SMT
    <3> QED
      BY <1>0, <3>1, SMT
  <2>3. e >= 2
    BY <1>0, <1>2, <1>7, <1>9, <2>2, SMT
  <2>4. CASE m >= 333
    <3>1. 3 * m <= t * m
      BY <1>0, <1>4, <1>6, <2>3, Scaling, SMT
    <3> QED
      BY <1>0, <1>1, <2>1, <2>4, <3>1, SMT
  <2>5. CASE m < 333
    <3>1. PICK w \in Nat, v \in Int : w = e * m /\ v = t * m /\ 3 * w <= 2 * v
      <4>1. (3 * e) * m <= (2 * t) * m
        BY <1>0, <1>4, <1>6, <2>3, Scaling, SMT
      <4> QED
        BY <1>0, <4>1, SMT
    <3>2. 3 * k <= 5 * m
      BY <1>0, <1>2, <1>4, SMT
    <3>3. (9 * (1000 - x)) * y <= 25 * (w * w)
      <4>1. PICK z \in Nat : z = e * k /\ 3 * z <= 5 * w
        <5>1. (3 * k) * e <= (5 * m) * e
          BY <1>0, <3>2, Scaling, SMT
        <5> QED
          BY <1>0, <3>1, <5>1, SMT
      <4>2. (x * (1000 - x)) * k <= ((e * e) * k) * k
        BY <1>0, <1>7, Scaling, SMT
      <4>3. (x * (1000 - x)) * k = (1000 - x) * y /\ ((e * e) * k) * k = z * z
        BY <1>0, <1>3, <4>1, SMT
      <4>4. (3 * z) * (3 * z) <= (5 * w) * (5 * w)
        BY <1>0, <4>1, SMT
      <4>5. (3 * z) * (3 * z) = 9 * (z * z) /\ (5 * w) * (5 * w) = 25 * (w * w)
        BY <1>0, <4>1, SMT
      <4>6. PICK h \in Int : h = (1000 - x) * y /\ (9 * (1000 - x)) * y = 9 * h
        BY <1>0, SMT
      <4>7. PICK z2 \in Int, w2 \in Int : z2 = z * z /\ w2 = w * w
        BY <1>0, SMT
      <4> QED
        BY <4>2, <4>3, <4>4, <4>5, <4>6, <4>7, SMT
    <3>4. (1000 - x) * 1667 <= (1000 - x) * y
      <4>1. 1667 <= y
        BY <1>0, <1>2, <1>3, <2>5, SMT
      <4> QED
        BY <1>0, <4>1, Scaling, SMT
    <3>5. ASSUME v < 1000 - 2 * x PROVE FALSE
      <4>1. PICK g \in 1 .. 499 : g = 500 - x
        BY <1>0, <1>1, SMT
      <4>2. 3 * w <= 4 * g
        BY <1>0, <3>1, <3>5, <4>1, SMT
      <4>3. (3 * w) * (3 * w) <= (4 * g) * (4 * g)
        BY <1>0, <4>2, SMT
      <4>4. g * g <= 500 * g
        BY <1>0, <4>1, Scaling, SMT
      <4>5. 9 * (w * w) <= 8000 * g
        BY <1>0, <4>3, <4>4, SMT
      <4>6. 15003 * (500 + g) <= 25 * (w * w)
        BY <1>0, <3>3, <3>4, <4>1, SMT
      <4> QED
        BY <1>0, <4>1, <4>5, <4>6, SMT
    <3> QED
      BY <1>0, <1>1, <3>1, <3>5, SMT
  <2> QED
    BY <1>0, <2>4, <2>5
<1> QED
  BY <1>0, <1>8, <1>9, SMT

\* The score of a difference is not above the difference.
LEMMA ScoreBelowEffect ==
  ASSUME NEW n \in Nat \ {0}, NEW m \in Nat \ {0}, NEW a \in 5 .. n, NEW b \in 0 .. m,
         b * n < a * m, DifferenceLowerBound(a, n, b, m) > 0
  PROVE  /\ DifferenceLowerBound(a, n, b, m) \in Int
         /\ DifferenceLowerBound(a, n, b, m) <= (1000 * (a * m - b * n)) \div (n * m)
<1>1. PICK p \in Int, q \in Int, e \in Int : ScoreParts(a, n, b, m, p, q, e)
  <2>1. a \in 0 .. n
    BY SMT
  <2> QED
    BY <2>1, ScoreHasParts
<1>2. e \in 1 .. 1001 /\ p \in 0 .. 1000 /\ q \in 0 .. 1000
  BY <1>1 DEF ScoreParts, Shares
<1>3. PICK t \in Int : t = (196 * e) \div 100
  BY <1>2, SMT
<1>4. e <= t /\ 1 <= t
  BY <1>2, <1>3, SMT
<1>5. DifferenceLowerBound(a, n, b, m) = p - q - t
  BY <1>1, <1>3, Zenon DEF ScoreParts
<1>6. q < p
  BY <1>2, <1>4, <1>5, SMT
<1>7. p * (n + 2) <= 1000 * (a + 1) /\ 1000 * (a + 1) < (p + 1) * (n + 2)
      /\ (q - 1) * (m + 2) < 1000 * (b + 1) /\ 1000 * (b + 1) <= q * (m + 2)
  BY <1>1 DEF ScoreParts, Shares
<1>8. PICK f \in Nat \ {0} : f = n * m
  BY SMT
<1>9. PICK g \in Int, h \in Int : g = 1000 - 2 * p /\ h = 1000 - 2 * q
  BY <1>2, SMT
<1>10. g * m - h * n <= t * f
  <2>1. CASE p < 500
    <3>1. g <= e * n
      <4>1. 1000 - 2 * p <= e * n
        <5>1. 5 <= a
          BY SMT
        <5> QED
          BY <1>1, <2>1, <5>1, LowShare
      <4> QED
        BY <1>9, <4>1, SMT
    <3>2. e * n <= t * n
      BY <1>2, <1>4, Scaling, SMT
    <3>3. PICK x \in Int : x = t * n /\ g <= x
      BY <1>2, <3>1, <3>2, SMT
    <3>4. g * m <= x * m
      BY <3>3, Scaling, SMT
    <3>5. x * m = t * f
      BY <1>8, <3>3, SMT
    <3>6. 0 * n <= h * n
      BY <1>2, <1>6, <1>9, <2>1, Scaling, SMT
    <3> QED
      BY <3>4, <3>5, <3>6, SMT
  <2>2. CASE p >= 500 /\ q <= 500
    <3>1. g * m <= 0 * m /\ 0 * n <= h * n
      BY <1>9, <2>2, Scaling, SMT
    <3>2. 0 * f <= t * f
      BY <1>4, Scaling, SMT
    <3> QED
      BY <3>1, <3>2, SMT
  <2>3. CASE q > 500
    <3>1. b < m
      <4>1. a * m <= n * m
        BY Scaling, SMT
      <4>2. ASSUME b = m PROVE FALSE
        <5>1. b * n = n * m
          BY <4>2, SMT
        <5>2. PICK x \in Int, y \in Int : x = b * n /\ y = a * m
          BY SMT
        <5> QED
          BY <1>8, <4>1, <5>1, <5>2, SMT
      <4> QED
        BY <4>2, SMT
    <3>2. 0 - h <= t * m
      <4>1. q < 1000 /\ 500 < q
        BY <1>2, <1>6, <2>3, SMT
      <4>2. 2 * q - 1000 <= t * m
        BY <1>1, <1>3, <3>1, <4>1, HighShare
      <4> QED
        BY <1>9, <4>2, SMT
    <3>3. PICK x \in Int : x = t * m /\ 0 - h <= x
      BY <3>2, SMT
    <3>4. (0 - h) * n <= x * n
      BY <3>3, Scaling, SMT
    <3>5. x * n = t * f /\ (0 - h) * n = 0 - h * n
      BY <1>8, <3>3, SMT
    <3>6. g * m <= 0 * m
      BY <1>6, <1>9, <2>3, Scaling, SMT
    <3> QED
      BY <3>4, <3>5, <3>6, SMT
  <2> QED
    BY <1>2, <2>1, <2>2, <2>3, SMT
<1>11. (p * n) * m <= (1000 * a + g) * m
  <2>1. p * n <= 1000 * a + g
    BY <1>7, <1>9, SMT
  <2> QED
    BY <2>1, Scaling, SMT
<1>12. (1000 * b + h) * n <= (q * m) * n
  <2>1. 1000 * b + h <= q * m
    BY <1>7, <1>9, SMT
  <2> QED
    BY <2>1, Scaling, SMT
<1>13. (p - q - t) * f <= 1000 * (a * m - b * n)
  <2>1. PICK am \in Int, bn \in Int, gm \in Int, hn \in Int, pf \in Int, qf \in Int, tf \in Int :
          /\ am = a * m /\ bn = b * n /\ gm = g * m /\ hn = h * n
          /\ pf = p * f /\ qf = q * f /\ tf = t * f
    BY <1>2, SMT
  <2>2. (p * n) * m = pf /\ (q * m) * n = qf
    BY <1>8, <2>1, SMT
  <2>3. (1000 * a + g) * m = 1000 * am + gm /\ (1000 * b + h) * n = 1000 * bn + hn
    BY <2>1, SMT
  <2>4. (p - q - t) * f = pf - qf - tf
    BY <2>1, SMT
  <2> QED
    BY <1>10, <1>11, <1>12, <2>1, <2>2, <2>3, <2>4, SMT
<1>14. PICK x \in Int : x = 1000 * (a * m - b * n)
  BY SMT
<1>15. p - q - t <= x \div f
  <2>1. PICK y \in Int : y = x \div f /\ x < y * f + f
    BY Quotients, SMT
  <2>2. (p - q - t) * f < (y + 1) * f
    BY <1>13, <1>14, <2>1, SMT
  <2>3. ~ (y + 1 <= p - q - t)
    <3>1. y + 1 <= p - q - t <=> (y + 1) * f <= (p - q - t) * f
      BY Scaling, SMT
    <3> QED
      BY <2>2, <3>1, SMT
  <2> QED
    BY <2>1, <2>3, SMT
<1> QED
  BY <1>5, <1>8, <1>14, <1>15, SMT

\* Five spans that all have a value and two that have it not make a score.
LEMMA SeparatorScores ==
  ASSUME NEW n \in Nat, n >= 5, NEW m \in Nat, m >= 2
  PROVE  DifferenceLowerBound(n, n, 0, m) \in Nat \ {0}
<1>1. PICK p \in Int, q \in Int, e \in Int : ScoreParts(n, n, 0, m, p, q, e)
  <2>1. n \in Nat \ {0} /\ m \in Nat \ {0} /\ n \in 0 .. n /\ 0 \in 0 .. m
    BY SMT
  <2> QED
    BY <2>1, ScoreHasParts
<1>2. /\ p \in 0 .. 1000 /\ q \in 0 .. 1000 /\ e \in 1 .. 1001
      /\ 1000 * (n + 1) < (p + 1) * (n + 2)
      /\ (q - 1) * (m + 2) < 1000 * (0 + 1)
  BY <1>1 DEF ScoreParts, Shares
<1>3. PICK v \in Nat, u \in Nat :
        /\ (e - 1) * (e - 1) <= v + u
        /\ v * (n + 2) <= p * (1000 - p) /\ u * (m + 2) <= q * (1000 - q)
  BY <1>1 DEF ScoreParts, SpreadBelow
<1>4. p >= 857
  <2>1. (999 - p) * (n + 2) < 1000
    BY <1>2, SMT
  <2>2. ASSUME p <= 856 PROVE FALSE
    <3>1. 143 * (n + 2) <= (999 - p) * (n + 2)
      BY <2>2, Scaling, SMT
    <3> QED
      BY <2>1, <3>1, SMT
  <2> QED
    BY <2>2, SMT
<1>5. q <= 250
  <2>1. ASSUME q >= 251 PROVE FALSE
    <3>1. 250 * (m + 2) <= (q - 1) * (m + 2)
      BY <2>1, Scaling, SMT
    <3> QED
      BY <1>2, <3>1, SMT
  <2> QED
    BY <2>1, SMT
<1>6. v <= 17507
  <2>1. 0 <= (p - 857) * (p - 143)
    BY <1>4, SMT
  <2>2. 7 * v <= v * (n + 2)
    BY SMT
  <2> QED
    BY <1>3, <2>1, <2>2, SMT
<1>7. u <= 46875
  <2>1. 0 <= (250 - q) * (750 - q)
    BY <1>5, SMT
  <2>2. 4 * u <= u * (m + 2)
    BY SMT
  <2> QED
    BY <1>3, <2>1, <2>2, SMT
<1>8. e <= 254
  <2>1. ASSUME e >= 255 PROVE FALSE
    <3>1. 254 * 254 <= (e - 1) * (e - 1)
      BY <2>1, SMT
    <3> QED
      BY <1>3, <1>6, <1>7, <3>1, SMT
  <2> QED
    BY <2>1, SMT
<1>9. PICK t \in Int : t = (196 * e) \div 100 /\ t <= 497
  BY <1>8, SMT
<1>10. DifferenceLowerBound(n, n, 0, m) = p - q - t
  BY <1>1, <1>9, Zenon DEF ScoreParts
<1> QED
  BY <1>4, <1>5, <1>9, <1>10, SMT

-----------------------------------------------------------------------------
(* The rows of the comparison query.                                       *)

\* The equation of the fold.
Answers(in, out, h) ==
  h = [S \in SUBSET Keys |->
         IF S = {} THEN {[k \in {} |-> {}]}
         ELSE Extended(h[S \ {Pick(S)}], Pick(S), Rows(Pick(S), in, out))]

LEMMA ExtendedMembers ==
  ASSUME NEW F, NEW k, NEW answers, NEW g
  PROVE  g \in Extended(F, k, answers) <=> \E f \in F, K \in answers : g = Also(f, k, K)
<1>1. ASSUME NEW f \in F, NEW K \in answers PROVE Also(f, k, K) \in Extended(F, k, answers)
  <2>1. <<f, K>> \in F \X answers
    OBVIOUS
  <2> QED
    BY <2>1 DEF Extended
<1> QED
  BY <1>1 DEF Extended

\* Rows for each key of S.
RowsOfKeys(f, S, in, out) == DOMAIN f = S /\ \A k \in S : f[k] \in Rows(k, in, out)

LEMMA AnswersExist ==
  ASSUME NEW in, NEW out
  PROVE  \E h : Answers(in, out, h)
<1> DEFINE All == UNION {Rows(k, in, out) : k \in Keys}
           h == [S \in SUBSET Keys |-> {f \in [S -> All] : \A k \in S : f[k] \in Rows(k, in, out)}]
           step(S) == Extended(h[S \ {Pick(S)}], Pick(S), Rows(Pick(S), in, out))
<1>1. h[{}] = {[k \in {} |-> {}]}
  OBVIOUS
<1>2. ASSUME NEW S \in SUBSET Keys, S # {} PROVE h[S] = step(S)
  <2>1. PICK x \in S : x = Pick(S)
    BY <1>2, PickIsElement
  <2>2. S \ {x} \in SUBSET Keys
    OBVIOUS
  <2>3. ASSUME NEW g \in h[S] PROVE g \in step(S)
    <3>1. PICK f : f = [j \in S \ {x} |-> g[j]]
      OBVIOUS
    <3>2. f \in h[S \ {x}]
      BY <2>2, <3>1
    <3>3. g = Also(f, x, g[x])
      <4>1. g = [j \in S |-> g[j]]
        OBVIOUS
      <4>2. {x} \cup DOMAIN f = S
        BY <3>1
      <4> QED
        BY <3>1, <4>1, <4>2 DEF Also
    <3>4. g[x] \in Rows(x, in, out)
      OBVIOUS
    <3> HIDE DEF h
    <3> QED
      BY <2>1, <3>2, <3>3, <3>4, ExtendedMembers
  <2>4. ASSUME NEW K \in Rows(x, in, out), NEW f \in h[S \ {x}]
        PROVE  Also(f, x, K) \in h[S]
    <3>1. DOMAIN f = S \ {x} /\ \A k \in S \ {x} : f[k] \in Rows(k, in, out)
      BY <2>2
    <3>2. PICK g : g = [j \in S |-> IF j = x THEN K ELSE f[j]]
      OBVIOUS
    <3>3. Also(f, x, K) = g
      <4>1. {x} \cup DOMAIN f = S
        BY <3>1
      <4> QED
        BY <3>2, <4>1 DEF Also
    <3>4. \A j \in S : g[j] \in Rows(j, in, out)
      BY <3>1, <3>2
    <3>5. g \in [S -> All]
      BY <3>2, <3>4
    <3>6. g \in h[S]
      BY <3>4, <3>5
    <3> QED
      BY <3>3, <3>6
  <2> HIDE DEF h
  <2>5. ASSUME NEW g \in step(S) PROVE g \in h[S]
    <3>1. g \in Extended(h[S \ {x}], x, Rows(x, in, out))
      BY <2>1
    <3>2. PICK f \in h[S \ {x}], K \in Rows(x, in, out) : g = Also(f, x, K)
      BY <3>1, ExtendedMembers
    <3> QED
      BY <2>4, <3>2
  <2> HIDE DEF step
  <2> QED
    BY <2>3, <2>5
<1>3. h = [S \in SUBSET Keys |-> h[S]]
  OBVIOUS
<1> HIDE DEF h
<1>4. Answers(in, out, h)
  BY <1>1, <1>2, <1>3 DEF Answers
<1> QED
  BY <1>4

LEMMA AnswersFold ==
  ASSUME NEW in, NEW out
  PROVE  \E h : Answers(in, out, h) /\ RowAnswers(in, out) = h[Keys]
<1>1. PICK h : Answers(in, out, h)
  BY AnswersExist
<1>2. PICK g : Answers(in, out, g) /\ RowAnswers(in, out) = g[Keys]
  BY <1>1 DEF RowAnswers, FoldSet, MapThenFoldSet, Pick, Answers
<1> QED
  BY <1>2

LEMMA AnswersAreRows ==
  ASSUME NEW in, NEW out, NEW rowsOf \in RowAnswers(in, out), NEW k \in Keys
  PROVE  rowsOf[k] \in Rows(k, in, out)
<1>1. PICK h : Answers(in, out, h) /\ RowAnswers(in, out) = h[Keys]
  BY AnswersFold
<1> DEFINE F == {S \in SUBSET Keys : ~ \A f \in h[S] : RowsOfKeys(f, S, in, out)}
<1>2. ASSUME F # {} PROVE FALSE
  <2>1. PICK S \in F : \A x \in S : S \ {x} \notin F
    BY <1>2, KeysAssumption, SmallestSet
  <2>2. CASE S = {}
    <3>1. h[S] = {[j \in {} |-> {}]}
      BY <1>1, <2>2 DEF Answers
    <3> QED
      BY <2>1, <2>2, <3>1 DEF RowsOfKeys
  <2>3. CASE S # {}
    <3>1. PICK x \in S : x = Pick(S)
      BY <2>3, PickIsElement
    <3>2. h[S] = Extended(h[S \ {x}], x, Rows(x, in, out))
      BY <1>1, <2>3, <3>1 DEF Answers
    <3>3. \A f \in h[S \ {x}] : RowsOfKeys(f, S \ {x}, in, out)
      BY <2>1
    <3>4. ASSUME NEW K \in Rows(x, in, out), NEW f \in h[S \ {x}]
          PROVE  RowsOfKeys(Also(f, x, K), S, in, out)
      <4>1. DOMAIN f = S \ {x} /\ \A j \in S \ {x} : f[j] \in Rows(j, in, out)
        BY <3>3 DEF RowsOfKeys
      <4> QED
        BY <4>1 DEF RowsOfKeys, Also
    <3>5. ASSUME NEW g \in h[S] PROVE RowsOfKeys(g, S, in, out)
      <4>1. g \in Extended(h[S \ {x}], x, Rows(x, in, out))
        BY <3>2
      <4>2. PICK f \in h[S \ {x}], K \in Rows(x, in, out) : g = Also(f, x, K)
        BY <4>1, ExtendedMembers
      <4> QED
        BY <3>4, <4>2
    <3> QED
      BY <2>1, <3>5
  <2> QED
    BY <2>2, <2>3
<1> QED
  BY <1>1, <1>2 DEF RowsOfKeys

-----------------------------------------------------------------------------
(* One row.                                                                *)

LEMMA CountGrows ==
  ASSUME NEW T \in SUBSET Population, NEW S \in SUBSET T
  PROVE  Count(S) \in Nat /\ Count(T) \in Nat /\ Count(S) <= Count(T)
<1> DEFINE w == [s \in Population |-> s.n]
<1>1. w \in [Population -> Nat] /\ \A s \in Population : w[s] = s.n
  BY PopulationAssumption
<1> HIDE DEF w
<1>2. IsFiniteSet(S) /\ IsFiniteSet(T) /\ IsFiniteSet(T \ S)
  BY PopulationAssumption, FS_Subset
<1>3. Count(S) = Total(w, S) /\ Count(T) = Total(w, T)
  BY <1>1, <1>2, CountIsTotal
<1>4. /\ Total(w, S) \in Nat /\ Total(w, T \ S) \in Nat
      /\ Total(w, S \cup (T \ S)) = Total(w, S) + Total(w, T \ S)
  <2>1. S \in SUBSET Population /\ T \ S \in SUBSET Population /\ S \cap (T \ S) = {}
    OBVIOUS
  <2> QED
    BY <1>1, <1>2, <2>1, TotalOfBoth
<1>5. Total(w, T) = Total(w, S) + Total(w, T \ S)
  <2>1. S \cup (T \ S) = T
    OBVIOUS
  <2> QED
    BY <1>4, <2>1, Zenon
<1> QED
  BY <1>3, <1>4, <1>5

LEMMA ValuesFinite ==
  ASSUME NEW S \in SUBSET Population, NEW k
  PROVE  IsFiniteSet(ValuesOf(S, k)) /\ Cardinality(ValuesOf(S, k)) \in Nat
<1> DEFINE f == [s \in Carrying(S, k) |-> s.attrs[k]]
<1>1. f \in Surjection(Carrying(S, k), ValuesOf(S, k))
  BY DEF Surjection, ValuesOf
<1>2. IsFiniteSet(Carrying(S, k))
  BY PopulationAssumption, FS_Subset DEF Carrying
<1> QED
  BY <1>1, <1>2, FS_Surjection, FS_CardinalityType

\* A row counts at most what carries its attribute.
LEMMA RowCounts ==
  ASSUME NEW in \in SUBSET Population, NEW out \in SUBSET Population, NEW k,
         NEW r \in AllRows(k, in, out)
  PROVE  /\ r.value \in ValuesOf(in \cup out, k) /\ r = Row(k, r.value, in, out)
         /\ r.selCount \in Nat /\ r.selTotal \in Nat /\ r.selCount <= r.selTotal
         /\ r.baseCount \in Nat /\ r.baseTotal \in Nat /\ r.baseCount <= r.baseTotal
         /\ r.selCount = Count(Having(in, k, r.value))
         /\ r.baseCount = Count(Having(out, k, r.value))
         /\ r.selTotal = Count(Carrying(in, k)) /\ r.baseTotal = Count(Carrying(out, k))
         /\ r.distinct = Cardinality(ValuesOf(in \cup out, k))
<1>1. PICK v \in ValuesOf(in \cup out, k) : r = Row(k, v, in, out)
  BY DEF AllRows
<1>2. v # Missing
  BY DEF ValuesOf, Carrying
<1>3. /\ Having(in, k, v) \in SUBSET Carrying(in, k)
      /\ Having(out, k, v) \in SUBSET Carrying(out, k)
      /\ Carrying(in, k) \in SUBSET Population /\ Carrying(out, k) \in SUBSET Population
  BY <1>2 DEF Carrying, Having
<1>4. /\ Count(Having(in, k, v)) \in Nat /\ Count(Carrying(in, k)) \in Nat
      /\ Count(Having(in, k, v)) <= Count(Carrying(in, k))
  BY <1>3, CountGrows
<1>5. /\ Count(Having(out, k, v)) \in Nat /\ Count(Carrying(out, k)) \in Nat
      /\ Count(Having(out, k, v)) <= Count(Carrying(out, k))
  BY <1>3, CountGrows
<1>6. /\ r.value = v
      /\ r.selCount = Count(Having(in, k, v))
      /\ r.baseCount = Count(Having(out, k, v))
      /\ r.selTotal = Count(Carrying(in, k)) /\ r.baseTotal = Count(Carrying(out, k))
      /\ r.distinct = Cardinality(ValuesOf(in \cup out, k))
  BY <1>1 DEF Row
<1> QED
  BY <1>1, <1>4, <1>5, <1>6

LEMMA AllRowsFinite ==
  ASSUME NEW in \in SUBSET Population, NEW out \in SUBSET Population, NEW k
  PROVE  IsFiniteSet(AllRows(k, in, out))
<1> DEFINE V == ValuesOf(in \cup out, k)
           f == [v \in V |-> Row(k, v, in, out)]
<1>1. f \in Surjection(V, AllRows(k, in, out))
  BY DEF Surjection, AllRows
<1>2. IsFiniteSet(V)
  BY ValuesFinite
<1> QED
  BY <1>1, <1>2, FS_Surjection

\* What an eligible row says, and its score where it has one.
LEMMA EligibleScores ==
  ASSUME NEW in \in SUBSET Population, NEW out \in SUBSET Population, NEW k,
         NEW rows \in SUBSET AllRows(k, in, out), NEW r \in Eligible(rows)
  PROVE  /\ r \in rows /\ r.selCount >= 5
         /\ r.selCount * Max({r.baseTotal, 1}) > r.baseCount * r.selTotal
         /\ Score(r) \in Int
         /\ Score(r) > 0 => r.baseTotal > 0 /\ Score(r) <= Effect(r)
<1>1. /\ r \in rows /\ r.selCount >= 5
      /\ r.selCount * Max({r.baseTotal, 1}) > r.baseCount * r.selTotal
  BY DEF Eligible, MinOccurrences
<1>2. PICK a \in Nat, n \in Nat, b \in Nat, m \in Nat :
        /\ a = r.selCount /\ n = r.selTotal /\ b = r.baseCount /\ m = r.baseTotal
        /\ a <= n /\ b <= m /\ a >= 5
  <2>1. r \in AllRows(k, in, out)
    BY <1>1
  <2>2. /\ r.selCount \in Nat /\ r.selTotal \in Nat /\ r.selCount <= r.selTotal
        /\ r.baseCount \in Nat /\ r.baseTotal \in Nat /\ r.baseCount <= r.baseTotal
    BY <2>1, RowCounts
  <2> QED
    BY <1>1, <2>2
<1>3. Score(r) = DifferenceLowerBound(a, n, b, m)
  BY <1>2 DEF Score
<1>4. CASE m = 0
  <2>1. DifferenceLowerBound(a, n, b, m) = 0
    BY <1>4 DEF DifferenceLowerBound
  <2> QED
    BY <1>1, <1>3, <2>1
<1>5. CASE m > 0
  <2>1. Max({m, 1}) = m
    BY <1>5, MinMaxOfTwo
  <2>2. Effect(r) = (1000 * (a * m - b * n)) \div (n * m)
    BY <1>2, <2>1 DEF Effect
  <2>3. b * n < a * m
    BY <1>1, <1>2, <2>1
  <2>4. n \in Nat \ {0} /\ m \in Nat \ {0} /\ a \in 5 .. n /\ b \in 0 .. m /\ a \in 0 .. n
    BY <1>2, <1>5
  <2>5. DifferenceLowerBound(a, n, b, m) > 0
          => DifferenceLowerBound(a, n, b, m) <= Effect(r)
    BY <2>2, <2>3, <2>4, ScoreBelowEffect
  <2>6. DifferenceLowerBound(a, n, b, m) \in Int
    <3>1. PICK p \in Int, q \in Int, e \in Int : ScoreParts(a, n, b, m, p, q, e)
      BY <2>4, ScoreHasParts
    <3>2. PICK t \in Int : t = (196 * e) \div 100
      OBVIOUS
    <3> QED
      BY <3>1, <3>2 DEF ScoreParts
  <2> QED
    BY <1>1, <1>2, <1>3, <1>5, <2>5, <2>6
<1> QED
  BY <1>2, <1>4, <1>5

-----------------------------------------------------------------------------
(* One card.                                                               *)

LEMMA SignalType ==
  ASSUME NEW in \in SUBSET Population, NEW out \in SUBSET Population, NEW k,
         NEW rows \in SUBSET AllRows(k, in, out)
  PROVE  /\ IsFiniteSet(Signals(rows))
         /\ \A c \in Signals(rows) :
              /\ c.row \in Eligible(rows) /\ c.score = Score(c.row) /\ c.score > 0
              /\ c.score \in Int /\ c.row.selCount \in Int
<1> DEFINE f == [r \in Eligible(rows) |-> [row |-> r, score |-> Score(r)]]
           All == {[row |-> r, score |-> Score(r)] : r \in Eligible(rows)}
<1>1. f \in Surjection(Eligible(rows), All)
  BY DEF Surjection
<1>2. IsFiniteSet(Eligible(rows))
  <2>1. IsFiniteSet(rows)
    BY AllRowsFinite, FS_Subset
  <2> QED
    BY <2>1, FS_Subset DEF Eligible
<1>3. IsFiniteSet(All)
  BY <1>1, <1>2, FS_Surjection
<1>4. Signals(rows) \in SUBSET All
  BY DEF Signals
<1>5. IsFiniteSet(Signals(rows))
  BY <1>3, <1>4, FS_Subset
<1>6. ASSUME NEW c \in Signals(rows)
      PROVE  /\ c.row \in Eligible(rows) /\ c.score = Score(c.row) /\ c.score > 0
             /\ c.score \in Int /\ c.row.selCount \in Int
  <2>1. PICK r \in Eligible(rows) : c = [row |-> r, score |-> Score(r)] /\ c.score > 0
    BY DEF Signals
  <2>2. Score(r) \in Int /\ r \in AllRows(k, in, out)
    BY EligibleScores DEF Eligible
  <2>3. r.selCount \in Nat
    BY <2>2, RowCounts
  <2> QED
    BY <2>1, <2>2, <2>3
<1> QED
  BY <1>5, <1>6

\* The winner is the best of the signals; another one has no greater score.
LEMMA WinnerIsSignal ==
  ASSUME NEW in \in SUBSET Population, NEW out \in SUBSET Population, NEW k,
         NEW rows \in SUBSET AllRows(k, in, out), Signals(rows) # {}
  PROVE  Winner(Signals(rows)) \in Signals(rows)
<1> DEFINE S == Signals(rows)
           Beats(x, y) == \/ x.score > y.score
                          \/ x.score = y.score /\ x.row.selCount > y.row.selCount
           better == {p \in S \X S : Beats(p[1], p[2])}
<1>1. IsFiniteSet(S) /\ \A c \in S : c.score \in Int /\ c.row.selCount \in Int
  BY SignalType
<1> HIDE DEF S
<1>2. \A x, y \in S : <<x, y>> \in better <=> Beats(x, y)
  OBVIOUS
<1>3. Ranks(better, S)
  <2> HIDE DEF better
  <2>1. \A x, y, z \in S : Beats(x, y) /\ Beats(y, z) => Beats(x, z)
    BY <1>1
  <2>2. \A x \in S : ~ Beats(x, x)
    BY <1>1
  <2> HIDE DEF Beats
  <2> QED
    BY <1>2, <2>1, <2>2 DEF Ranks
<1>4. PICK m \in S : \A d \in S : <<d, m>> \notin better
  <2>1. S # {}
    BY DEF S
  <2> HIDE DEF better
  <2> QED
    BY <1>1, <1>3, <2>1, HasBest
<1>5. \A d \in S : \/ m.score > d.score
                   \/ m.score = d.score /\ m.row.selCount >= d.row.selCount
  <2>1. \A d \in S : ~ Beats(d, m)
    <3> HIDE DEF better, Beats
    <3> QED
      BY <1>2, <1>4
  <2> QED
    BY <1>1, <2>1
<1>6. Winner(S) \in S
  BY <1>5 DEF Winner
<1> QED
  BY <1>6 DEF S

\* The bars hold the winner, and no more than there is room for.
LEMMA BarsOfCard ==
  ASSUME NEW in \in SUBSET Population, NEW out \in SUBSET Population, NEW k,
         NEW rows \in SUBSET AllRows(k, in, out), NEW r \in rows
  PROVE  /\ r.value \in TopDisplayValues(rows, r)
         /\ Cardinality(TopDisplayValues(rows, r)) <= MaxBars
<1> DEFINE others == rows \ {r}
           Beats(x, y) == x.selCount + x.baseCount > y.selCount + y.baseCount
           better == {p \in others \X others : Beats(p[1], p[2])}
           j == Min({Cardinality(others), MaxBars - 1})
           Top(T) == /\ Cardinality(T) = j
                     /\ \A x \in T, q \in others \ T :
                          x.selCount + x.baseCount >= q.selCount + q.baseCount
<1>1. IsFiniteSet(others) /\ Cardinality(others) \in Nat
  <2>1. IsFiniteSet(rows)
    BY AllRowsFinite, FS_Subset
  <2> QED
    BY <2>1, FS_Subset, FS_CardinalityType
<1>2. \A x \in others : x.selCount + x.baseCount \in Int
  <2>1. \A x \in others : x \in AllRows(k, in, out)
    OBVIOUS
  <2>2. \A x \in AllRows(k, in, out) : x.selCount \in Nat /\ x.baseCount \in Nat
    BY RowCounts
  <2> QED
    BY <2>1, <2>2
<1> HIDE DEF others
<1>3. \A x, y \in others : <<x, y>> \in better <=> Beats(x, y)
  OBVIOUS
<1>4. Ranks(better, others)
  <2>1. \A x, y, z \in others : Beats(x, y) /\ Beats(y, z) => Beats(x, z)
    BY <1>2
  <2>2. \A x \in others : ~ Beats(x, x)
    BY <1>2
  <2> HIDE DEF Beats, better
  <2> QED
    BY <1>3, <2>1, <2>2 DEF Ranks
<1>5. MaxBars \in Nat \ {0}
  BY LimitAssumption
<1>6. j \in 0 .. Cardinality(others) /\ j <= MaxBars - 1
  BY <1>1, <1>5, MinMaxOfTwo
<1>7. PICK C \in SUBSET others :
        Cardinality(C) = j /\ \A c \in C, d \in others \ C : <<d, c>> \notin better
  <2> HIDE DEF better, j
  <2> QED
    BY <1>1, <1>4, <1>6, HasTop
<1>8. Top(C)
  <2>1. \A c \in C, d \in others \ C : ~ Beats(d, c)
    <3> HIDE DEF better, Beats, j
    <3> QED
      BY <1>3, <1>7
  <2>2. \A c \in C, d \in others \ C :
          c.selCount + c.baseCount >= d.selCount + d.baseCount
    BY <1>2, <2>1
  <2> HIDE DEF j
  <2> QED
    BY <1>7, <2>2
<1> DEFINE top == CHOOSE T \in SUBSET others : Top(T)
<1>9. top \in SUBSET others /\ Cardinality(top) = j
  <2>1. top \in SUBSET others /\ Top(top)
    <3> HIDE DEF Top
    <3> QED
      BY <1>8, Zenon
  <2> QED
    BY <2>1
<1>10. TopDisplayValues(rows, r) = {x.value : x \in top \cup {r}}
  BY DEF TopDisplayValues, others
<1> HIDE DEF top, j
<1>11. IsFiniteSet(top \cup {r}) /\ Cardinality(top \cup {r}) <= MaxBars
  <2>1. IsFiniteSet(top)
    BY <1>1, <1>9, FS_Subset
  <2>2. r \notin top
    BY <1>9 DEF others
  <2>3. IsFiniteSet(top \cup {r}) /\ Cardinality(top \cup {r}) = Cardinality(top) + 1
    BY <2>1, <2>2, FS_AddElement
  <2>4. j \in Int
    BY <1>1, <1>6
  <2> QED
    BY <1>5, <1>6, <1>9, <2>3, <2>4
<1>12. Cardinality({x.value : x \in top \cup {r}}) <= Cardinality(top \cup {r})
       /\ Cardinality({x.value : x \in top \cup {r}}) \in Nat
  <2> DEFINE f == [x \in top \cup {r} |-> x.value]
             V == {x.value : x \in top \cup {r}}
  <2>1. f \in Surjection(top \cup {r}, V)
    BY DEF Surjection
  <2>2. IsFiniteSet(V) /\ Cardinality(V) <= Cardinality(top \cup {r})
    BY <1>11, <2>1, FS_Surjection
  <2> QED
    BY <2>2, FS_CardinalityType
<1>13. Cardinality(top \cup {r}) \in Nat
  BY <1>11, FS_CardinalityType
<1>14. Cardinality(TopDisplayValues(rows, r)) <= MaxBars
  <2>1. Cardinality({x.value : x \in top \cup {r}}) <= MaxBars
    BY <1>5, <1>11, <1>12, <1>13
  <2> QED
    BY <1>10, <2>1, Zenon
<1> QED
  BY <1>10, <1>14

\* An attribute has a card when its rows do not identify spans and give a
\* signal.
Explains(rows) == rows # {} /\ ~Identifies(rows) /\ Signals(rows) # {}

LEMMA CardsOfComparison ==
  ASSUME NEW ax, NEW sel, NEW win, NEW c \in Comparisons(ax, sel, win)
  PROVE  \E rowsOf :
           /\ \A k \in Keys : rowsOf[k] \in Rows(k, Inside(ax, sel, win), Outside(ax, sel, win))
           /\ c.cards = {Card(k, rowsOf[k]) : k \in {k \in Keys : Explains(rowsOf[k])}}
           /\ c.selection = sel /\ c.window = win /\ c.saturated = Saturated(sel, win)
<1>1. PICK rowsOf \in RowAnswers(Inside(ax, sel, win), Outside(ax, sel, win)) :
        c = [selection |-> sel, window |-> win,
             cards |-> ToResults(rowsOf), saturated |-> Saturated(sel, win)]
  BY DEF Comparisons
<1>2. \A k \in Keys : rowsOf[k] \in Rows(k, Inside(ax, sel, win), Outside(ax, sel, win))
  BY AnswersAreRows
<1>3. ToResults(rowsOf) = {Card(k, rowsOf[k]) : k \in {k \in Keys : Explains(rowsOf[k])}}
  BY DEF ToResults, Explains
<1> QED
  BY <1>1, <1>2, <1>3

LEMMA KeptRows ==
  ASSUME NEW in, NEW out, NEW k, NEW rows \in Rows(k, in, out)
  PROVE  /\ rows \in SUBSET AllRows(k, in, out)
         /\ Cardinality(rows) = Min({Cardinality(AllRows(k, in, out)), ValuesPerKey})
         /\ \A r \in rows, q \in AllRows(k, in, out) \ rows : r.selCount >= q.selCount
BY DEF Rows, KeptOf

\* The comparison of a side with the other, as a card tells it.
TrueOf(card, S, T) ==
  LET have(X) == Count(Having(X, card.key, card.winner))
      all(X)  == Count(Carrying(X, card.key))
  IN  /\ MoreFrequent(card.key, card.winner, S, T)
      /\ have(S) >= MinOccurrences
      /\ all(T) > 0
      /\ Cardinality(ValuesOf(S \cup T, card.key)) <= MaxValues
      /\ card.effect =
           (1000 * (have(S) * all(T) - have(T) * all(S))) \div (all(S) * all(T))
      /\ 0 < card.score /\ card.score <= card.effect
      /\ card.winner \in card.bars /\ Cardinality(card.bars) <= MaxBars

LEMMA CardIsTrue ==
  ASSUME NEW in \in SUBSET Population, NEW out \in SUBSET Population, NEW k \in Keys,
         NEW rows \in Rows(k, in, out), Explains(rows)
  PROVE  TrueOf(Card(k, rows), in, out)
<1>1. rows \in SUBSET AllRows(k, in, out)
  BY KeptRows
<1>2. PICK best \in Signals(rows) : best = Winner(Signals(rows))
  BY <1>1, WinnerIsSignal DEF Explains
<1>3. PICK r \in Eligible(rows) : r = best.row /\ best.score = Score(r) /\ best.score > 0
  BY <1>1, <1>2, SignalType
<1>4. /\ r \in rows /\ r.selCount >= 5
      /\ r.selCount * Max({r.baseTotal, 1}) > r.baseCount * r.selTotal
      /\ Score(r) \in Int /\ r.baseTotal > 0 /\ Score(r) <= Effect(r)
  BY <1>1, <1>3, EligibleScores
<1>5. /\ r.value \in ValuesOf(in \cup out, k)
      /\ r.selCount \in Nat /\ r.selTotal \in Nat /\ r.baseCount \in Nat /\ r.baseTotal \in Nat
      /\ r.selCount = Count(Having(in, k, r.value))
      /\ r.baseCount = Count(Having(out, k, r.value))
      /\ r.selTotal = Count(Carrying(in, k)) /\ r.baseTotal = Count(Carrying(out, k))
  <2>1. r \in AllRows(k, in, out)
    BY <1>1, <1>4
  <2> QED
    BY <2>1, RowCounts
<1>6. Cardinality(ValuesOf(in \cup out, k)) <= MaxValues
  <2>1. PICK first \in rows : first = CHOOSE x \in rows : TRUE
    BY <1>4
  <2>2. first.distinct = Cardinality(ValuesOf(in \cup out, k))
    <3>1. first \in AllRows(k, in, out)
      BY <1>1
    <3>2. PICK v : first = Row(k, v, in, out)
      BY <3>1 DEF AllRows
    <3> QED
      BY <3>2 DEF Row
  <2>3. ~ (first.distinct > MaxValues)
    BY <2>1 DEF Explains, Identifies, IsHighCardinality
  <2>4. Cardinality(ValuesOf(in \cup out, k)) \in Nat /\ MaxValues \in Nat
    BY ValuesFinite, LimitAssumption
  <2> QED
    BY <2>2, <2>3, <2>4
<1>7. r.value \in TopDisplayValues(rows, r) /\ Cardinality(TopDisplayValues(rows, r)) <= MaxBars
  BY <1>1, <1>4, BarsOfCard
<1>8. PICK card : card = Card(k, rows)
  OBVIOUS
<1>9. /\ card.key = k /\ card.winner = r.value /\ card.effect = Effect(r)
      /\ card.score = Score(r) /\ card.bars = TopDisplayValues(rows, r)
  BY <1>2, <1>3, <1>8 DEF Card
<1>10. Max({r.baseTotal, 1}) = r.baseTotal
  <2>1. PICK m \in Int : m = r.baseTotal /\ m > 0
    BY <1>4, <1>5
  <2>2. 1 \in Int
    OBVIOUS
  <2>3. Max({m, 1}) = IF m <= 1 THEN 1 ELSE m
    BY <2>2, MinMaxOfTwo, Zenon
  <2> QED
    BY <2>1, <2>3
<1>11. PICK a \in Nat, n \in Nat, b \in Nat, m \in Nat :
         /\ a = r.selCount /\ n = r.selTotal /\ b = r.baseCount /\ m = r.baseTotal
         /\ a = Count(Having(in, k, r.value)) /\ n = Count(Carrying(in, k))
         /\ b = Count(Having(out, k, r.value)) /\ m = Count(Carrying(out, k))
  BY <1>5
<1>12. Effect(r) = (1000 * (a * m - b * n)) \div (n * m)
  BY <1>10, <1>11 DEF Effect
<1>13. MoreFrequent(k, r.value, in, out)
  <2>1. a * Max({m, 1}) > b * n
    BY <1>4, <1>11
  <2> QED
    BY <1>11, <2>1, Zenon DEF MoreFrequent
<1>14. TrueOf(card, in, out)
  <2>1. a >= MinOccurrences /\ m > 0 /\ 0 < Score(r)
    BY <1>3, <1>4, <1>11 DEF MinOccurrences
  <2>2. /\ MoreFrequent(card.key, card.winner, in, out)
        /\ Count(Having(in, card.key, card.winner)) = a /\ Count(Carrying(in, card.key)) = n
        /\ Count(Having(out, card.key, card.winner)) = b /\ Count(Carrying(out, card.key)) = m
        /\ Cardinality(ValuesOf(in \cup out, card.key)) <= MaxValues
    BY <1>6, <1>9, <1>11, <1>13, Zenon
  <2>3. card.effect = (1000 * (a * m - b * n)) \div (n * m)
    BY <1>9, <1>12, Zenon
  <2>4. /\ 0 < card.score /\ card.score <= card.effect
        /\ card.winner \in card.bars /\ Cardinality(card.bars) <= MaxBars
    BY <1>4, <1>7, <1>9, <2>1, Zenon
  <2> QED
    BY <2>1, <2>2, <2>3, <2>4, Zenon DEF TrueOf
<1> QED
  BY <1>8, <1>14

-----------------------------------------------------------------------------
(* Attributes that tell the two sides apart.                               *)

LEMMA CountOfNone == Count({}) = 0
<1>1. PICK w : w = [s \in Population |-> s.n]
  OBVIOUS
<1>2. w \in [Population -> Nat] /\ \A s \in Population : w[s] = s.n
  BY <1>1, PopulationAssumption
<1>3. {} \in SUBSET Population /\ IsFiniteSet({})
  BY FS_EmptySet
<1> QED
  BY <1>2, <1>3, CountIsTotal, TotalOfNone

\* Rows of the same value are the same row.
LEMMA RowOfValue ==
  ASSUME NEW in, NEW out, NEW k, NEW r \in AllRows(k, in, out)
  PROVE  r = Row(k, r.value, in, out)
BY DEF AllRows, Row

Separates(S, T, k) ==
  /\ Count(Carrying(S, k)) >= MinOccurrences
  /\ Count(Carrying(T, k)) >= 2
  /\ Cardinality(ValuesOf(S, k)) = 1
  /\ ValuesOf(S, k) \cap ValuesOf(T, k) = {}
  /\ Cardinality(ValuesOf(S \cup T, k)) <= Min({MaxValues, 10})

LEMMA SeparatorIsShown ==
  ASSUME NEW in \in SUBSET Population, NEW out \in SUBSET Population, NEW k \in Keys,
         NEW rows \in Rows(k, in, out), Separates(in, out, k)
  PROVE  /\ Explains(rows)
         /\ Card(k, rows).key = k /\ {Card(k, rows).winner} = ValuesOf(in, k)
<1>1. /\ rows \in SUBSET AllRows(k, in, out)
      /\ Cardinality(rows) = Min({Cardinality(AllRows(k, in, out)), ValuesPerKey})
      /\ \A r \in rows, q \in AllRows(k, in, out) \ rows : r.selCount >= q.selCount
  BY KeptRows
<1>2. PICK v : ValuesOf(in, k) = {v}
  <2>1. IsFiniteSet(ValuesOf(in, k))
    BY ValuesFinite
  <2> QED
    BY <2>1, FS_Singleton DEF Separates
<1>3. PICK n \in Nat, m \in Nat :
        /\ n = Count(Carrying(in, k)) /\ m = Count(Carrying(out, k)) /\ n >= 5 /\ m >= 2
  <2>1. Carrying(in, k) \in SUBSET Population /\ Carrying(out, k) \in SUBSET Population
    BY DEF Carrying
  <2>2. Count(Carrying(in, k)) \in Nat /\ Count(Carrying(out, k)) \in Nat
    BY <2>1, CountGrows
  <2> QED
    BY <2>2 DEF Separates, MinOccurrences
<1>4. Having(in, k, v) = Carrying(in, k) /\ Having(out, k, v) = {}
  <2>1. v # Missing
    BY <1>2 DEF ValuesOf, Carrying
  <2>2. \A s \in Carrying(in, k) : s.attrs[k] = v
    BY <1>2 DEF ValuesOf
  <2>3. \A s \in Carrying(out, k) : s.attrs[k] # v
    BY <1>2 DEF ValuesOf, Separates
  <2> QED
    BY <2>1, <2>2, <2>3 DEF Having, Carrying
<1>5. PICK r : r = Row(k, v, in, out)
  OBVIOUS
<1>6. /\ r.value = v /\ r.selCount = n /\ r.selTotal = n /\ r.baseCount = 0 /\ r.baseTotal = m
  BY <1>3, <1>4, <1>5, CountOfNone DEF Row
<1>7. r \in AllRows(k, in, out)
  <2>1. v \in ValuesOf(in \cup out, k)
    BY <1>2 DEF ValuesOf, Carrying
  <2> QED
    BY <1>5, <2>1 DEF AllRows
<1>8. ASSUME NEW q \in AllRows(k, in, out), q # r PROVE q.selCount = 0
  <2>1. q.value # v
    BY <1>5, <1>8, RowOfValue
  <2>2. q.value \in ValuesOf(in \cup out, k) /\ q.selCount = Count(Having(in, k, q.value))
    BY DEF AllRows, Row
  <2>3. Having(in, k, q.value) = {}
    <3>1. q.value # Missing
      BY <2>2 DEF ValuesOf, Carrying
    <3>2. \A s \in in : s.attrs[k] = q.value => s.attrs[k] \in ValuesOf(in, k)
      BY <3>1 DEF ValuesOf, Carrying
    <3> QED
      BY <1>2, <2>1, <3>2 DEF Having
  <2> QED
    BY <2>2, <2>3, CountOfNone
<1>9. r \in rows
  <2>1. ASSUME r \notin rows PROVE FALSE
    <3>1. \A x \in rows : x.selCount >= n /\ x.selCount = 0
      BY <1>1, <1>6, <1>7, <1>8, <2>1
    <3>2. rows = {}
      BY <1>3, <3>1
    <3>3. Cardinality(rows) = 0
      BY <3>2, FS_EmptySet
    <3>4. Cardinality(AllRows(k, in, out)) \in Nat \ {0}
      <4>1. IsFiniteSet(AllRows(k, in, out)) /\ AllRows(k, in, out) # {}
        BY <1>7, AllRowsFinite
      <4> QED
        BY <4>1, FS_CardinalityType, FS_EmptySet
    <3>5. PICK c \in Nat \ {0}, d \in Nat \ {0} :
            c = Cardinality(AllRows(k, in, out)) /\ d = ValuesPerKey
      BY <3>4, LimitAssumption
    <3>6. Min({c, d}) = IF c <= d THEN c ELSE d
      BY MinMaxOfTwo
    <3> QED
      BY <1>1, <3>3, <3>5, <3>6
  <2> QED
    BY <2>1
<1>10. ~Identifies(rows)
  <2>1. PICK first \in rows : first = CHOOSE x \in rows : TRUE
    BY <1>9
  <2>2. first \in AllRows(k, in, out)
    BY <1>1
  <2>3. /\ first.distinct = Cardinality(ValuesOf(in \cup out, k))
        /\ first.selTotal = n /\ first.baseTotal = m
    <3>1. PICK x : first = Row(k, x, in, out)
      BY <2>2 DEF AllRows
    <3> QED
      BY <1>3, <3>1 DEF Row
  <2>4. PICK d \in Nat : d = Cardinality(ValuesOf(in \cup out, k)) /\ d <= MaxValues /\ d <= 10
    <3>1. PICK x \in Nat : x = MaxValues
      BY LimitAssumption
    <3>2. x \in Int /\ 10 \in Int
      BY <3>1
    <3>3. Min({x, 10}) = IF x <= 10 THEN x ELSE 10
      BY <3>2, MinMaxOfTwo, Zenon
    <3>4. Cardinality(ValuesOf(in \cup out, k)) \in Nat
      BY ValuesFinite
    <3> QED
      BY <3>1, <3>3, <3>4 DEF Separates
  <2>5. ~IsHighCardinality(d, n + m)
    <3>1. MaxValues \in Nat
      BY LimitAssumption
    <3> QED
      BY <2>4, <3>1 DEF IsHighCardinality, MinRows
  <2> QED
    BY <2>1, <2>3, <2>4, <2>5 DEF Identifies
<1>11. DifferenceLowerBound(n, n, 0, m) > 0 /\ Score(r) = DifferenceLowerBound(n, n, 0, m)
  <2>1. DifferenceLowerBound(n, n, 0, m) \in Nat \ {0}
    BY <1>3, SeparatorScores
  <2> QED
    BY <1>6, <2>1 DEF Score
<1>12. Eligible(rows) = {r}
  <2>1. r \in Eligible(rows)
    <3>1. Max({m, 1}) = m
      <4>1. m \in Int /\ 1 \in Int
        OBVIOUS
      <4>2. Max({m, 1}) = IF m <= 1 THEN 1 ELSE m
        BY <4>1, MinMaxOfTwo, Zenon
      <4> QED
        BY <1>3, <4>2
    <3>2. n * m > 0 * n
      BY <1>3
    <3> QED
      BY <1>3, <1>6, <1>9, <3>1, <3>2 DEF Eligible, MinOccurrences
  <2>2. ASSUME NEW q \in Eligible(rows), q # r PROVE FALSE
    <3>1. q \in AllRows(k, in, out) /\ q.selCount >= 5
      BY <1>1 DEF Eligible, MinOccurrences
    <3> QED
      BY <1>8, <2>2, <3>1
  <2> QED
    BY <2>1, <2>2
<1>13. PICK only : only = [row |-> r, score |-> Score(r)]
  OBVIOUS
<1>14. Signals(rows) = {only}
  BY <1>11, <1>12, <1>13 DEF Signals
<1>15. Winner(Signals(rows)) = only
  BY <1>1, <1>14, WinnerIsSignal
<1>16. Card(k, rows).key = k /\ Card(k, rows).winner = v
  BY <1>6, <1>13, <1>15 DEF Card
<1> QED
  BY <1>2, <1>9, <1>10, <1>14, <1>16 DEF Explains

-----------------------------------------------------------------------------
(* Saturation.                                                             *)

\* Samples of one resource.
Series(S) ==
  /\ S \in SUBSET Metrics
  /\ \A p, q \in S : p.resource = q.resource

LEMMA SeriesType ==
  ASSUME NEW S, Series(S)
  PROVE  /\ IsFiniteSet(S) /\ Cardinality(S) \in 0 .. 20 /\ (S # {} => Cardinality(S) >= 1)
         /\ \A p \in S : p.value \in Nat
<1>1. IsFiniteSet(S) /\ Cardinality(S) \in Nat
  BY MetricsAssumption, FS_Subset, FS_CardinalityType DEF Series
<1>2. S # {} => Cardinality(S) # 0
  BY <1>1, FS_EmptySet
<1>3. ASSUME NEW p \in S PROVE Cardinality(S) <= 20
  <2> DEFINE All == {q \in Metrics : q.resource = p.resource}
  <2>1. S \in SUBSET All /\ p \in Metrics
    BY DEF Series
  <2>2. IsFiniteSet(All)
    BY MetricsAssumption, FS_Subset
  <2>3. Cardinality(S) <= Cardinality(All) /\ Cardinality(All) \in Nat
    BY <2>1, <2>2, FS_Subset, FS_CardinalityType
  <2>4. Cardinality(All) <= 20
    BY <2>1, MetricsAssumption
  <2> HIDE DEF All
  <2> QED
    BY <1>1, <2>3, <2>4
<1>4. S = {} => Cardinality(S) = 0
  BY FS_EmptySet
<1>5. \A p \in S : p.value \in Nat
  BY MetricsAssumption DEF Series
<1> QED
  BY <1>1, <1>2, <1>3, <1>4, <1>5

LEMMA GreatestSample ==
  ASSUME NEW S, Series(S), S # {}
  PROVE  /\ Max({p.value : p \in S}) \in {p.value : p \in S}
         /\ \A q \in S : q.value <= Max({p.value : p \in S})
<1> DEFINE V == {p.value : p \in S}
           f == [p \in S |-> p.value]
<1>1. f \in Surjection(S, V)
  BY DEF Surjection
<1>2. IsFiniteSet(V) /\ V \in SUBSET Int /\ V # {}
  BY <1>1, SeriesType, FS_Surjection
<1>3. \A q \in S : q.value \in V
  OBVIOUS
<1> HIDE DEF V
<1>4. Max(V) \in V /\ \A x \in V : x <= Max(V)
  BY <1>2, HasMax
<1>5. \A q \in S : q.value <= Max(V)
  BY <1>3, <1>4
<1> QED
  BY <1>4, <1>5 DEF V

\* The percentile of at most 20 samples lies between the least and the greatest.
LEMMA PercentileBounds ==
  ASSUME NEW S, Series(S), S # {}, NEW lo \in Int, NEW hi \in Int,
         \A p \in S : lo <= p.value /\ p.value <= hi
  PROVE  P95(S) \in Int /\ 20 * lo <= P95(S) /\ P95(S) <= 20 * hi
<1> DEFINE top == CHOOSE p \in S : \A q \in S : p.value >= q.value
<1>1. top \in S
  <2>1. PICK p \in S : p.value = Max({q.value : q \in S})
    BY GreatestSample
  <2>2. \A q \in S : q.value <= p.value
    BY <2>1, GreatestSample, Zenon
  <2>3. \A q \in S : p.value >= q.value
    BY <2>2, SeriesType
  <2> QED
    BY <2>3
<1>2. PICK n \in 1 .. 20 : n = Cardinality(S)
  BY SeriesType
<1>3. PICK t \in Nat : t = top.value /\ lo <= t /\ t <= hi
  BY <1>1, SeriesType
<1>4. CASE n = 1
  <2>1. P95(S) = 20 * t
    BY <1>2, <1>3, <1>4 DEF P95
  <2> QED
    BY <1>3, <2>1
<1>5. CASE n # 1
  <2> DEFINE rest == S \ {top}
             next == Max({p.value : p \in rest})
  <2>1. rest # {} /\ Series(rest)
    <3>1. ASSUME rest = {} PROVE FALSE
      <4>1. S = {top}
        BY <1>1, <3>1
      <4>2. Cardinality(S) = 1
        BY <4>1, FS_Singleton, Zenon
      <4> QED
        BY <1>2, <1>5, <4>2
    <3> QED
      BY <3>1 DEF Series
  <2>2. next \in {p.value : p \in rest}
    <3> HIDE DEF rest
    <3> QED
      BY <2>1, GreatestSample
  <2>3. PICK x \in Nat : x = next /\ lo <= x /\ x <= hi
    <3>1. PICK p \in S : next = p.value
      BY <2>2
    <3> HIDE DEF next
    <3> QED
      BY <3>1, SeriesType
  <2>4. P95(S) = (n - 1) * x + (21 - n) * t
    BY <1>2, <1>3, <1>5, <2>3 DEF P95
  <2>5. PICK i \in Nat, j \in Nat : i = n - 1 /\ j = 21 - n /\ i + j = 20
    BY <1>2
  <2>6. i * lo <= i * x /\ j * lo <= j * t /\ i * x <= i * hi /\ j * t <= j * hi
    BY <1>3, <2>3
  <2>7. i * lo + j * lo = 20 * lo /\ i * hi + j * hi = 20 * hi
    BY <2>5
  <2> QED
    BY <2>4, <2>5, <2>6, <2>7
<1> QED
  BY <1>4, <1>5

\* So do the value that stands in for it and the value of the baseline.
LEMMA ValueBounds ==
  ASSUME NEW S, Series(S), S # {}, NEW lo \in Int, NEW hi \in Int,
         \A p \in S : lo <= p.value /\ p.value <= hi
  PROVE  /\ SelectionValue(S) \in Int /\ BaselineValue(S) \in Int
         /\ 20 * lo <= SelectionValue(S) /\ SelectionValue(S) <= 20 * hi
         /\ 20 * lo <= BaselineValue(S) /\ BaselineValue(S) <= 20 * hi
<1>1. P95(S) \in Int /\ 20 * lo <= P95(S) /\ P95(S) <= 20 * hi
  BY PercentileBounds
<1>2. PICK m \in Nat : m = Max({p.value : p \in S}) /\ lo <= m /\ m <= hi
  <2>1. PICK p \in S : p.value = Max({q.value : q \in S})
    BY GreatestSample
  <2> QED
    BY <2>1, SeriesType
<1>3. SelectionValue(S) = 20 * m \/ SelectionValue(S) = P95(S)
  BY <1>2 DEF SelectionValue
<1>4. BaselineValue(S) = P95(S)
  BY DEF BaselineValue
<1> QED
  BY <1>1, <1>2, <1>3, <1>4

LEMMA ValuesType ==
  ASSUME NEW S, Series(S)
  PROVE  SelectionValue(S) \in Nat /\ BaselineValue(S) \in Nat
<1>1. CASE S = {}
  BY <1>1 DEF SelectionValue, BaselineValue
<1>2. CASE S # {}
  <2>1. PICK hi \in Int : \A p \in S : p.value <= hi
    <3>1. PICK p \in S : p.value = Max({q.value : q \in S})
      BY <1>2, GreatestSample
    <3>2. \A q \in S : q.value <= p.value
      BY <1>2, <3>1, GreatestSample, Zenon
    <3>3. p.value \in Int
      BY SeriesType
    <3> QED
      BY <3>2, <3>3
  <2>2. \A p \in S : 0 <= p.value /\ p.value <= hi
    BY <2>1, SeriesType
  <2> QED
    BY <1>2, <2>2, ValueBounds
<1> QED
  BY <1>1, <1>2

\* The samples of one resource.
OfResource(S, r) == {p \in S : p.resource = r}

\* A score as a fraction.
Fraction(c) == c.num \in Nat \ {0} /\ c.den \in Nat

LEMMA HigherTransitive ==
  ASSUME NEW a, Fraction(a), NEW b, Fraction(b), NEW c, Fraction(c),
         Higher(a, b), Higher(b, c)
  PROVE  Higher(a, c)
<1>1. PICK an \in Nat \ {0}, bn \in Nat \ {0}, cn \in Nat \ {0},
           ad \in Nat, bd \in Nat, cd \in Nat :
        /\ an = a.num /\ bn = b.num /\ cn = c.num
        /\ ad = a.den /\ bd = b.den /\ cd = c.den
  BY DEF Fraction
<1>2. an * bd > bn * ad /\ bn * cd > cn * bd
  BY <1>1 DEF Higher
<1>3. bd > 0
  <2>1. bn * ad >= 0
    OBVIOUS
  <2>2. bd = 0 => an * bd = 0
    OBVIOUS
  <2> QED
    BY <1>2, <2>1, <2>2
<1>4. cd > 0
  <2>1. cn * bd >= 0
    OBVIOUS
  <2>2. cd = 0 => bn * cd = 0
    OBVIOUS
  <2> QED
    BY <1>2, <2>1, <2>2
<1>5. (bn * ad) * cd < (an * bd) * cd
  <2>1. PICK x \in Int, y \in Int, k \in Nat \ {0} : x = bn * ad /\ y = an * bd /\ k = cd /\ x < y
    BY <1>2, <1>4
  <2>2. ~ (y * k <= x * k)
    BY <2>1, Scaling
  <2> QED
    BY <2>1, <2>2
<1>6. (cn * bd) * ad <= (bn * cd) * ad
  BY <1>2
<1>7. (cn * ad) * bd < (an * cd) * bd
  <2>1. /\ (bn * ad) * cd = (bn * cd) * ad /\ (cn * bd) * ad = (cn * ad) * bd
        /\ (an * bd) * cd = (an * cd) * bd
    OBVIOUS
  <2> QED
    BY <1>5, <1>6, <2>1
<1>8. cn * ad < an * cd
  <2>1. PICK x \in Int, y \in Int, k \in Nat \ {0} : x = cn * ad /\ y = an * cd /\ k = bd
    BY <1>3
  <2>2. ~ (y <= x)
    BY <1>7, <2>1, Scaling
  <2> QED
    BY <2>1, <2>2
<1> QED
  BY <1>1, <1>8 DEF Higher

LEMMA SaturationType ==
  ASSUME NEW in \in SUBSET Metrics, NEW out \in SUBSET Metrics, NEW r
  PROVE  LET c == Saturation(r, OfResource(in, r), OfResource(out, r))
         IN  /\ c.resource = r
             /\ c.num = SelectionValue(OfResource(in, r)) - BaselineValue(OfResource(out, r))
             /\ c.num \in Int /\ c.den \in Nat
<1>1. Series(OfResource(in, r)) /\ Series(OfResource(out, r))
  BY DEF Series, OfResource
<1>2. /\ SelectionValue(OfResource(in, r)) \in Nat
      /\ BaselineValue(OfResource(out, r)) \in Nat
  BY <1>1, ValuesType
<1> QED
  BY <1>2 DEF Saturation

\* The scores of which ScoreSaturation keeps the best.
Scores(in, out) ==
  {c \in {Saturation(r, OfResource(in, r), OfResource(out, r)) :
            r \in {p.resource : p \in in \cup out}} : c.num > 0}

LEMMA ScoresFinite ==
  ASSUME NEW in \in SUBSET Metrics, NEW out \in SUBSET Metrics
  PROVE  IsFiniteSet(Scores(in, out))
<1> DEFINE f == [p \in in \cup out |->
                   Saturation(p.resource, OfResource(in, p.resource), OfResource(out, p.resource))]
           all == {Saturation(r, OfResource(in, r), OfResource(out, r)) :
                     r \in {p.resource : p \in in \cup out}}
<1>1. f \in Surjection(in \cup out, all)
  BY DEF Surjection
<1>2. IsFiniteSet(in \cup out)
  BY MetricsAssumption, FS_Subset
<1>3. IsFiniteSet(all)
  BY <1>1, <1>2, FS_Surjection
<1>4. Scores(in, out) \in SUBSET all
  BY DEF Scores
<1> QED
  BY <1>3, <1>4, FS_Subset

\* The cut keeps as many of the scores as fit.
LEMMA BestScores ==
  ASSUME NEW in \in SUBSET Metrics, NEW out \in SUBSET Metrics
  PROVE  /\ ScoreSaturation(in, out) \in SUBSET Scores(in, out)
         /\ Cardinality(ScoreSaturation(in, out)) # MaxCards
              => ScoreSaturation(in, out) = Scores(in, out)
<1> DEFINE S == Scores(in, out)
           better == {p \in S \X S : Higher(p[1], p[2])}
           k == Min({Cardinality(S), MaxCards})
           Best(C) == Cardinality(C) = k /\ \A c \in C, d \in S \ C : ~Higher(d, c)
<1>1. IsFiniteSet(S) /\ Cardinality(S) \in Nat
  BY ScoresFinite, FS_CardinalityType
<1>2. \A c \in S : Fraction(c)
  BY SaturationType DEF Scores, Fraction
<1>3. \A x, y \in S : <<x, y>> \in better <=> Higher(x, y)
  OBVIOUS
<1>4. Ranks(better, S)
  <2>1. \A x, y, z \in S : Higher(x, y) /\ Higher(y, z) => Higher(x, z)
    BY <1>2, HigherTransitive
  <2>2. \A x \in S : ~Higher(x, x)
    BY <1>2 DEF Higher, Fraction
  <2> HIDE DEF better, S
  <2> QED
    BY <1>3, <2>1, <2>2 DEF Ranks
<1>5. k \in 0 .. Cardinality(S) /\ (k # MaxCards => k = Cardinality(S))
  <2>1. PICK m \in Nat \ {0} : m = MaxCards
    BY LimitAssumption
  <2>2. PICK n \in Nat : n = Cardinality(S)
    BY <1>1
  <2>3. Min({n, m}) = IF n <= m THEN n ELSE m
    BY MinMaxOfTwo
  <2>4. k = IF n <= m THEN n ELSE m
    BY <2>1, <2>2, <2>3, Zenon
  <2> QED
    BY <2>1, <2>2, <2>4
<1>6. PICK C \in SUBSET S :
        Cardinality(C) = k /\ \A c \in C, d \in S \ C : <<d, c>> \notin better
  <2> HIDE DEF better, k, S
  <2> QED
    BY <1>1, <1>4, <1>5, HasTop
<1>7. Best(C)
  <2>1. \A c \in C, d \in S \ C : ~Higher(d, c)
    <3> HIDE DEF better, S, k
    <3> QED
      BY <1>3, <1>6
  <2> HIDE DEF k, S
  <2> QED
    BY <1>6, <2>1
<1> DEFINE kept == CHOOSE T \in SUBSET S : Best(T)
<1>8. kept \in SUBSET S /\ Cardinality(kept) = k
  <2>1. kept \in SUBSET S /\ Best(kept)
    <3> HIDE DEF Best, S
    <3> QED
      BY <1>7, Zenon
  <2> QED
    BY <2>1
<1>9. ScoreSaturation(in, out) = kept
  BY DEF ScoreSaturation, Scores, OfResource
<1>10. k # MaxCards => kept = S
  <2> HIDE DEF kept, k, S
  <2> QED
    BY <1>1, <1>5, <1>8, FS_Subset
<1> HIDE DEF kept, k
<1> QED
  BY <1>8, <1>9, <1>10

\* A resource that scores has a card when there is room.
LEMMA CardedWhenScored ==
  ASSUME NEW in \in SUBSET Metrics, NEW out \in SUBSET Metrics,
         NEW r \in {p.resource : p \in in \cup out}
  PROVE  LET carded == {c.resource : c \in ScoreSaturation(in, out)}
             num == SelectionValue(OfResource(in, r)) - BaselineValue(OfResource(out, r))
         IN  /\ num > 0 => r \in carded \/ Cardinality(ScoreSaturation(in, out)) = MaxCards
             /\ r \in carded => num > 0
<1> DEFINE num == SelectionValue(OfResource(in, r)) - BaselineValue(OfResource(out, r))
           score == Saturation(r, OfResource(in, r), OfResource(out, r))
           carded == {c.resource : c \in ScoreSaturation(in, out)}
<1>1. score.resource = r /\ score.num = num
  BY SaturationType
<1>2. ASSUME num > 0
      PROVE  r \in carded \/ Cardinality(ScoreSaturation(in, out)) = MaxCards
  <2>1. score \in Scores(in, out)
    BY <1>1, <1>2 DEF Scores
  <2>2. CASE ScoreSaturation(in, out) = Scores(in, out)
    <3> HIDE DEF score
    <3> QED
      BY <1>1, <2>1, <2>2
  <2> QED
    BY <2>2, BestScores
<1>3. ASSUME r \in carded PROVE num > 0
  <2>1. PICK c \in Scores(in, out) : c.resource = r
    BY <1>3, BestScores
  <2>2. PICK q : c = Saturation(q, OfResource(in, q), OfResource(out, q)) /\ c.num > 0
    BY DEF Scores
  <2>3. q = r
    BY <2>1, <2>2, SaturationType
  <2> QED
    BY <1>1, <2>2, <2>3
<1> QED
  BY <1>2, <1>3

LEMMA SampleValues ==
  ASSUME NEW S, Series(S), S # {}
  PROVE  \E hi \in S : \A p \in S : p.value <= hi.value
<1>1. PICK p \in S : p.value = Max({q.value : q \in S})
  BY GreatestSample
<1> QED
  BY <1>1, GreatestSample, Zenon

\* Samples that all exceed those of the baseline score, whether a percentile or
\* a maximum stands for them; samples that never do score nothing.
LEMMA ValuesFollow ==
  ASSUME NEW S, Series(S), NEW T, Series(T)
  PROVE  /\ /\ S # {}
            /\ \A p \in S, q \in T : p.value > q.value
            /\ \A p \in S : p.value > 0
            => SelectionValue(S) > BaselineValue(T)
         /\ S = {} \/ (T # {} /\ \A p \in S, q \in T : p.value <= q.value)
            => SelectionValue(S) <= BaselineValue(T)
<1>1. SelectionValue(S) \in Nat /\ BaselineValue(T) \in Nat
  BY ValuesType
<1>2. \A p \in S \cup T : p.value \in Nat
  BY SeriesType
<1>3. ASSUME S # {}, \A p \in S, q \in T : p.value > q.value, \A p \in S : p.value > 0
      PROVE  SelectionValue(S) > BaselineValue(T)
  <2>1. PICK x \in Nat : (\A p \in S : p.value > x) /\ (T = {} \/ \A q \in T : q.value <= x)
    <3>1. CASE T = {}
      BY <1>2, <1>3, <3>1
    <3>2. CASE T # {}
      <4>1. PICK hi \in T : \A q \in T : q.value <= hi.value
        BY <3>2, SampleValues
      <4> QED
        BY <1>2, <1>3, <4>1
    <3> QED
      BY <3>1, <3>2
  <2>2. PICK hi \in Nat : \A p \in S : p.value <= hi
    BY <1>2, <1>3, SampleValues
  <2>3. 20 * (x + 1) <= SelectionValue(S)
    <3>1. \A p \in S : x + 1 <= p.value /\ p.value <= hi
      BY <1>2, <2>1, <2>2
    <3>2. x + 1 \in Int /\ hi \in Int
      OBVIOUS
    <3> QED
      BY <1>3, <3>1, <3>2, ValueBounds
  <2>4. BaselineValue(T) <= 20 * x
    <3>1. CASE T = {}
      <4>1. BaselineValue(T) = 0
        BY <3>1 DEF BaselineValue
      <4> QED
        BY <4>1
    <3>2. CASE T # {}
      <4>1. \A q \in T : 0 <= q.value /\ q.value <= x
        BY <1>2, <2>1, <3>2
      <4>2. 0 \in Int /\ x \in Int
        OBVIOUS
      <4> QED
        BY <3>2, <4>1, <4>2, ValueBounds
    <3> QED
      BY <3>1, <3>2
  <2> QED
    BY <1>1, <2>3, <2>4
<1>4. ASSUME S = {} PROVE SelectionValue(S) <= BaselineValue(T)
  <2>1. SelectionValue(S) = 0
    BY <1>4 DEF SelectionValue
  <2> QED
    BY <1>1, <2>1
<1>5. ASSUME S # {}, T # {}, \A p \in S, q \in T : p.value <= q.value
      PROVE  SelectionValue(S) <= BaselineValue(T)
  <2>1. PICK top \in S : \A p \in S : p.value <= top.value
    BY <1>5, SampleValues
  <2>2. PICK x \in Nat : x = top.value
    BY <1>2
  <2>3. PICK hi \in Nat : \A q \in T : q.value <= hi
    BY <1>2, <1>5, SampleValues
  <2>4. SelectionValue(S) <= 20 * x
    <3>1. \A p \in S : 0 <= p.value /\ p.value <= x
      BY <1>2, <2>1, <2>2
    <3>2. 0 \in Int /\ x \in Int
      OBVIOUS
    <3> QED
      BY <1>5, <3>1, <3>2, ValueBounds
  <2>5. 20 * x <= BaselineValue(T)
    <3>1. \A q \in T : x <= q.value /\ q.value <= hi
      BY <1>5, <2>2, <2>3
    <3>2. x \in Int /\ hi \in Int
      OBVIOUS
    <3> QED
      BY <1>5, <3>1, <3>2, ValueBounds
  <2> QED
    BY <1>1, <2>4, <2>5
<1> QED
  BY <1>3, <1>4, <1>5

-----------------------------------------------------------------------------
(* What is shown.                                                          *)

\* Strengthening: what is shown is an answer to its own question, whatever the
\* panel has done since.
ShownIsAnswer == \A c \in shown : c \in Comparisons(axis, c.selection, c.window)

LEMMA AnswerStep ==
  ASSUME ShownIsAnswer, [Next]_vars
  PROVE  ShownIsAnswer'
<1> DEFINE Answered(s, a) == \A c \in s : c \in Comparisons(a, c.selection, c.window)
<1>1. Answered(shown, axis)
  BY DEF ShownIsAnswer
<1>2. CASE PanelAnnounces /\ CompareAgain
  <2>1. PICK c \in Comparisons(axis, published', window') : shown' = {c}
    BY <1>2 DEF CompareAgain
  <2>2. c.selection = published' /\ c.window = window'
    BY <2>1, ComparisonType
  <2>3. axis' = axis
    BY <1>2 DEF PanelAnnounces
  <2>4. Answered(shown', axis')
    BY <2>1, <2>2, <2>3
  <2> QED
    BY <2>4 DEF ShownIsAnswer
<1>3. CASE PanelActs /\ Keep
  <2>1. shown' = {} \/ shown' = shown
    BY <1>3 DEF Keep
  <2>2. axis' = axis
    BY <1>3 DEF PanelActs
  <2>3. Answered(shown', axis')
    BY <1>1, <2>1, <2>2
  <2> QED
    BY <2>3 DEF ShownIsAnswer
<1>4. CASE UNCHANGED vars
  <2>1. shown' = shown /\ axis' = axis
    BY <1>4 DEF vars, panelVars
  <2>2. Answered(shown', axis')
    BY <1>1, <2>1
  <2> QED
    BY <2>2 DEF ShownIsAnswer
<1> QED
  BY <1>2, <1>3, <1>4 DEF Next

\* What is shown answers the question it is shown with
\* (AttributeComparisonPanel.tsx:160), for as long as it is shown.
THEOREM AnswersAreShown == Spec => []ShownIsAnswer
<1>1. Init => ShownIsAnswer
  BY DEF Init, ShownIsAnswer
<1>2. ShownIsAnswer /\ [Next]_vars => ShownIsAnswer'
  BY AnswerStep
<1> QED
  BY <1>1, <1>2, PTL DEF Spec

LEMMA SidesType ==
  ASSUME NEW ax, NEW sel, NEW win
  PROVE  Inside(ax, sel, win) \in SUBSET Population /\ Outside(ax, sel, win) \in SUBSET Population
BY DEF Inside, Outside, Scope

\* Every card tells the truth about every span, for every population, every
\* attribute and every limit: the winner is over-represented, the difference is
\* that of all spans, and the score, a lower confidence bound computed in whole
\* numbers, is never above it.
THEOREM CardsTrue == Spec => []CardsAreTrue
<1>1. ShownIsAnswer => CardsAreTrue
  <2> SUFFICES ASSUME ShownIsAnswer, NEW c \in shown, NEW card \in c.cards
               PROVE  TrueOf(card, In(c), Out(c))
    BY DEF CardsAreTrue, TrueOf
  <2>1. c \in Comparisons(axis, c.selection, c.window)
    BY DEF ShownIsAnswer
  <2>2. PICK rowsOf :
          /\ \A k \in Keys : rowsOf[k] \in Rows(k, In(c), Out(c))
          /\ c.cards = {Card(k, rowsOf[k]) : k \in {k \in Keys : Explains(rowsOf[k])}}
    BY <2>1, CardsOfComparison DEF In, Out
  <2>3. In(c) \in SUBSET Population /\ Out(c) \in SUBSET Population
    BY SidesType DEF In, Out
  <2>4. PICK k \in Keys : card = Card(k, rowsOf[k]) /\ Explains(rowsOf[k])
    BY <2>2
  <2>5. rowsOf[k] \in Rows(k, In(c), Out(c))
    BY <2>2
  <2> QED
    BY <2>3, <2>4, <2>5, CardIsTrue
<1> QED
  BY <1>1, AnswersAreShown, PTL

\* An attribute that tells the two sides apart completely always has its card.
THEOREM SeparatorsShown == Spec => []SeparatorsAreShown
<1>1. ShownIsAnswer => SeparatorsAreShown
  <2> SUFFICES ASSUME ShownIsAnswer, NEW c \in shown, NEW k \in Keys,
                      Separates(In(c), Out(c), k)
               PROVE  \E card \in c.cards : card.key = k /\ {card.winner} = ValuesOf(In(c), k)
    BY DEF SeparatorsAreShown, Separates
  <2>1. c \in Comparisons(axis, c.selection, c.window)
    BY DEF ShownIsAnswer
  <2>2. PICK rowsOf :
          /\ \A j \in Keys : rowsOf[j] \in Rows(j, In(c), Out(c))
          /\ c.cards = {Card(j, rowsOf[j]) : j \in {j \in Keys : Explains(rowsOf[j])}}
    BY <2>1, CardsOfComparison DEF In, Out
  <2>3. In(c) \in SUBSET Population /\ Out(c) \in SUBSET Population
    BY SidesType DEF In, Out
  <2>4. PICK rows \in Rows(k, In(c), Out(c)) : rows = rowsOf[k]
    BY <2>2
  <2>5. /\ Explains(rows)
        /\ Card(k, rows).key = k /\ {Card(k, rows).winner} = ValuesOf(In(c), k)
    BY <2>3, SeparatorIsShown
  <2>6. Card(k, rows) \in c.cards
    BY <2>2, <2>4, <2>5
  <2> QED
    BY <2>5, <2>6
<1> QED
  BY <1>1, AnswersAreShown, PTL

\* Saturation follows the samples, however few and of whatever kind.
THEOREM SaturationFollows == Spec => []SaturationFollowsSamples
<1>1. ShownIsAnswer => SaturationFollowsSamples
  <2> SUFFICES ASSUME ShownIsAnswer, NEW c \in shown, NEW r
               PROVE  LET selected == MetricsIn(c.selection.time)
                          during == {p \in MetricsIn(c.window) \cap selected : p.resource = r}
                          rest   == {p \in MetricsIn(c.window) \ selected : p.resource = r}
                          carded == {card.resource : card \in c.saturated}
                      IN  /\ /\ during # {}
                             /\ \A p \in during, q \in rest : p.value > q.value
                             /\ \A p \in during : p.value > 0
                             => r \in carded \/ Cardinality(c.saturated) = MaxCards
                          /\ \/ during = {}
                             \/ rest # {} /\ \A p \in during, q \in rest : p.value <= q.value
                             => r \notin carded
    BY DEF SaturationFollowsSamples
  <2> DEFINE in == MetricsIn(c.window) \cap MetricsIn(c.selection.time)
             out == MetricsIn(c.window) \ MetricsIn(c.selection.time)
             during == OfResource(in, r)
             rest == OfResource(out, r)
             carded == {card.resource : card \in ScoreSaturation(in, out)}
  <2>1. c.saturated = ScoreSaturation(in, out)
    <3>1. c \in Comparisons(axis, c.selection, c.window)
      BY DEF ShownIsAnswer
    <3> QED
      BY <3>1, CardsOfComparison DEF Saturated
  <2>2. in \in SUBSET Metrics /\ out \in SUBSET Metrics
    BY DEF MetricsIn
  <2>3. Series(during) /\ Series(rest)
    BY <2>2 DEF Series, OfResource
  <2>4. SelectionValue(during) \in Nat /\ BaselineValue(rest) \in Nat
    BY <2>3, ValuesType
  <2>5. /\ /\ during # {}
           /\ \A p \in during, q \in rest : p.value > q.value
           /\ \A p \in during : p.value > 0
           => r \in carded \/ Cardinality(ScoreSaturation(in, out)) = MaxCards
        /\ \/ during = {}
           \/ rest # {} /\ \A p \in during, q \in rest : p.value <= q.value
           => r \notin carded
    <3>1. ASSUME during # {}, \A p \in during, q \in rest : p.value > q.value,
                 \A p \in during : p.value > 0
          PROVE  r \in carded \/ Cardinality(ScoreSaturation(in, out)) = MaxCards
      <4>1. SelectionValue(during) > BaselineValue(rest)
        <5> HIDE DEF during, rest
        <5> QED
          BY <2>3, <3>1, ValuesFollow
      <4>2. SelectionValue(during) - BaselineValue(rest) > 0
        BY <2>4, <4>1
      <4>3. r \in {p.resource : p \in in \cup out}
        BY <3>1 DEF OfResource
      <4> HIDE DEF in, out
      <4> QED
        BY <2>2, <4>2, <4>3, CardedWhenScored
    <3>2. ASSUME during = {} \/ (rest # {} /\ \A p \in during, q \in rest : p.value <= q.value),
                 r \in carded
          PROVE  FALSE
      <4>1. SelectionValue(during) <= BaselineValue(rest)
        <5> HIDE DEF during, rest
        <5> QED
          BY <2>3, <3>2, ValuesFollow
      <4>2. r \in {p.resource : p \in in \cup out}
        <5>1. PICK x \in Scores(in, out) : x.resource = r
          BY <2>2, <3>2, BestScores
        <5>2. PICK q \in {p.resource : p \in in \cup out} :
                x = Saturation(q, OfResource(in, q), OfResource(out, q))
          BY DEF Scores
        <5>3. q = r
          BY <2>2, <5>1, <5>2, SaturationType
        <5> QED
          BY <5>2, <5>3
      <4>3. SelectionValue(during) - BaselineValue(rest) > 0
        <5> HIDE DEF in, out
        <5> QED
          BY <2>2, <3>2, <4>2, CardedWhenScored
      <4> QED
        BY <2>4, <4>1, <4>3
    <3> QED
      BY <3>1, <3>2
  <2> QED
    BY <2>1, <2>5, Zenon DEF OfResource
<1> QED
  BY <1>1, AnswersAreShown, PTL
==============================================================================
