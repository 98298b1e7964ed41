---------------------------- MODULE SelectionAxes ----------------------------
(***************************************************************************)
(* The axes of the two selection panels, HeatmapPanel and TimeseriesPanel. *)
(*                                                                         *)
(* Pixels are counted from the lower left corner of the plot, inside the   *)
(* margins.  Times are whole milliseconds, durations whole hundredths of   *)
(* one; what a pixel stands for is exact, in fractions of a millisecond    *)
(* (Time) and of a level (Usable), so nothing is rounded but what the code *)
(* rounds.  Log10 of a duration is given in thousandths.                   *)
(***************************************************************************)
EXTENDS Integers, FiniteSets, FiniteSetsExt

CONSTANTS
  PlotW, PlotH,  \* the plot, in pixels
  YBuckets,      \* options.yBuckets
  Log10,         \* thousandths of log10 (duration in ms), for each duration
  Column,        \* what the duration column holds: "ms" or "nano"
  Null           \* nothing drawn, nothing open, no latency range

ASSUME PlotAssumption ==
  /\ PlotW \in Nat \ {0} /\ YBuckets \in Nat \ {0}
  /\ PlotH \in Nat \ {0} /\ PlotH % 5 = 0
ASSUME LogAssumption ==
  /\ 1 \in DOMAIN Log10
  /\ \A d \in DOMAIN Log10 : d \in Nat \ {0} /\ Log10[d] \in Int
  /\ \A d, e \in DOMAIN Log10 : d < e <=> Log10[d] < Log10[e]
  /\ \A d \in DOMAIN Log10 : d < 10 <=> Log10[d] < -1000
ASSUME ColumnAssumption == Column \in {"ms", "nano"}

Axes == {"log", "linear"}

Time(ms) == ms * PlotW
Within(r, v) == r.from <= v /\ v <= r.to

\* Y_AXIS_VISUAL_HEADROOM_PCT: a fifth of the plot stays empty.
Usable == (PlotH * 4) \div 5

-----------------------------------------------------------------------------
(* Durations, as levels of the vertical axis.                              *)

\* The stored Duration, which has one unit, as a level; those of the linear
\* axis are fifths of a hundredth of a millisecond.  Zero counts as one
\* hundredth, the least duration the panel reads: no box reaches either.
StoredLevel(axis, d) == IF axis = "log" THEN Log10[Max({d, 1})] ELSE 5 * Max({d, 1})

\* Whatever the column is called, a number above 10^9 is taken for
\* nanoseconds and any other for milliseconds: in a column of nanoseconds
\* that is right of spans longer than a second only.
Misread(d) == Column = "nano" /\ d <= 100000

ReadLevel(axis, d) ==
  IF ~Misread(d) THEN StoredLevel(axis, d)
  ELSE IF axis = "log" THEN StoredLevel(axis, d) + 6000
                       ELSE StoredLevel(axis, d) * 1000000

\* A tenth of a millisecond: the axis begins there or above, and on the
\* logarithmic one shorter spans are drawn as if they took that long.
LowestLevel(axis) == IF axis = "log" THEN -1000 ELSE 50
DrawnLevel(axis, d) ==
  IF axis = "log" THEN Max({ReadLevel(axis, d), LowestLevel(axis)})
                  ELSE ReadLevel(axis, d)

\* The axis ends at 1.2 times the longest duration, Y_AXIS_HEADROOM_FACTOR.
Headroom(axis, l) == IF axis = "log" THEN l + 79 ELSE l + l \div 5

\* The ranges of the axes; without spans they are 0 to 1 and 1 to 1000 ms.
Ranges(axis, S) ==
  LET times  == {s.time : s \in S}
      levels == {ReadLevel(axis, s.dur) : s \in S}
  IN  IF S = {}
      THEN [minTime |-> 0, maxTime |-> 1,
            minLevel |-> IF axis = "log" THEN 0 ELSE 500,
            maxLevel |-> IF axis = "log" THEN 3000 ELSE 500000]
      ELSE [minTime |-> Min(times), maxTime |-> Max(times),
            minLevel |-> Max({Min(levels), LowestLevel(axis)}),
            maxLevel |-> Headroom(axis, Max(levels))]

\* The points of the line are sorted in time; what is not a number is left out.
PointTimes(S) ==
  LET times == {s.time : s \in S}
  IN  IF S = {} THEN [minTime |-> 0, maxTime |-> 1]
                ELSE [minTime |-> Min(times), maxTime |-> Max(times)]

OrOne(n) == IF n = 0 THEN 1 ELSE n

\* Mutant of TimeOf: the pixel is taken from the edge of the panel, not of
\* the plot.
TimeOfPanel(r, x) == Time(r.minTime) + (x + 60) * (r.maxTime - r.minTime)

TimeOf(r, x) == Time(r.minTime) + x * (r.maxTime - r.minTime)

\* Mutant of LevelOf: the inverse forgets the visual headroom.
LevelOfWholePlot(r, h) ==
  Usable * r.minLevel + ((h * 4) \div 5) * (r.maxLevel - r.minLevel)

LevelOf(r, h) == Usable * r.minLevel + h * (r.maxLevel - r.minLevel)

-----------------------------------------------------------------------------
(* What is drawn where.                                                    *)

XBuckets == Max({PlotW \div 4, 10})

\* A quotient rounded down, whatever the sign of the divisor.
Floored(a, b) == IF b < 0 THEN (-a) \div (-b) ELSE a \div b

\* The cell a span is counted in; it is drawn in none when y is below 0.
Cell(axis, r, s) ==
  [x |-> Min({((s.time - r.minTime) * XBuckets) \div OrOne(r.maxTime - r.minTime),
              XBuckets - 1}),
   y |-> Min({Floored(Usable * (DrawnLevel(axis, s.dur) - r.minLevel) * YBuckets,
                      OrOne(r.maxLevel - r.minLevel) * PlotH),
              YBuckets - 1})]

InGrid(c) == c.x >= 0 /\ c.y >= 0

\* A cell reaches from one multiple of the cell's size to the next.
CellInside(b, c) ==
  /\ b.x1 * XBuckets <= c.x * PlotW /\ (c.x + 1) * PlotW <= b.x2 * XBuckets
  /\ b.h1 * YBuckets <= c.y * PlotH /\ (c.y + 1) * PlotH <= b.h2 * YBuckets
CellTouched(b, c) ==
  /\ b.x1 * XBuckets <= (c.x + 1) * PlotW /\ c.x * PlotW <= b.x2 * XBuckets
  /\ b.h1 * YBuckets <= (c.y + 1) * PlotH /\ c.y * PlotH <= b.h2 * YBuckets

\* Where the line of the time series has a point, in pixels times the range.
PointIn(b, r, t) ==
  LET range == OrOne(r.maxTime - r.minTime)
  IN  /\ b.x1 * range <= (t - r.minTime) * PlotW
      /\ (t - r.minTime) * PlotW <= b.x2 * range
=============================================================================
