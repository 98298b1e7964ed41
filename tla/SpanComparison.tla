--------------------------- MODULE SpanComparison ---------------------------
(***************************************************************************)
(* What the comparison panels compute once a region is selected: which     *)
(* spans are in it, the rows of the comparison query, the score of each    *)
(* value, the cards shown, and the saturation of the resources meanwhile.  *)
(*                                                                         *)
(* A span stands for the n spans of one trace that are alike.  Shares are  *)
(* whole thousandths, rounded so that a score errs on the low side.        *)
(***************************************************************************)
EXTENDS SelectionAxes

CONSTANTS
  Keys,           \* attributes: StatusCode, ServiceName, SpanAttributes
  Missing,        \* an attribute a span does not carry: ''
  MaxInlineIds,   \* MAX_INLINE_TRACE_IDS, 5000
  ValuesPerKey,   \* VALUES_PER_ATTRIBUTE, 20
  MaxValues,      \* HIGH_CARDINALITY_MAX_VALUES, 200
  MaxBars,        \* values drawn on a card, 10
  MaxCards        \* saturation cards, 10

ASSUME KeysAssumption == IsFiniteSet(Keys)
ASSUME LimitAssumption ==
  {MaxInlineIds, ValuesPerKey, MaxValues, MaxBars, MaxCards} \subseteq Nat \ {0}

MinOccurrences == 5   \* MIN_VALUE_OCCURRENCES
MinRows == 20         \* HIGH_CARDINALITY_MIN_ROWS

-----------------------------------------------------------------------------
(* The selection, as the query's predicate.                                *)

\* Bounds of time are rounded down to whole milliseconds.
Ms(range) == [from |-> Time(range.from \div PlotW), to |-> Time(range.to \div PlotW)]

\* The stored Duration decides, whatever the panel read its column as.
InBox(axis, sel, s) ==
  /\ Within(Ms(sel.time), Time(s.time))
  /\ sel.latency # Null => Within(sel.latency, Usable * StoredLevel(axis, s.dur))

\* Mutant of ByIds: a selection without ids is taken for an empty list.
ByIdsAlways(sel) == Cardinality(sel.traces) <= MaxInlineIds

\* The ids are the exact selection; when there are none or too many of them
\* the box stands in for them.
ByIds(sel) == sel.traces # {} /\ Cardinality(sel.traces) <= MaxInlineIds

InSelection(axis, sel, s) ==
  IF ByIds(sel) THEN s.trace \in sel.traces ELSE InBox(axis, sel, s)

-----------------------------------------------------------------------------
(* buildComparisonSql: one row for each attribute and value.               *)

Count(S) == MapThenSumSet(LAMBDA s : s.n, S)
Having(S, k, v) == {s \in S : s.attrs[k] = v}
Carrying(S, k) == {s \in S : s.attrs[k] # Missing}
ValuesOf(S, k) == {s.attrs[k] : s \in Carrying(S, k)}

\* Totals and distinct values are window functions, over every value of the
\* key, before LIMIT n BY key.
Row(k, v, in, out) ==
  [value     |-> v,
   selCount  |-> Count(Having(in, k, v)),
   baseCount |-> Count(Having(out, k, v)),
   selTotal  |-> Count(Carrying(in, k)),
   baseTotal |-> Count(Carrying(out, k)),
   distinct  |-> Cardinality(ValuesOf(in \cup out, k))]

AllRows(k, in, out) == {Row(k, v, in, out) : v \in ValuesOf(in \cup out, k)}

\* ORDER BY key, sel_cnt DESC LIMIT n BY key: of rows that tie for the last
\* place any may be kept, so there are several answers.
KeptOf(rows) ==
  {K \in SUBSET rows :
     /\ Cardinality(K) = Min({Cardinality(rows), ValuesPerKey})
     /\ \A r \in K, q \in rows \ K : r.selCount >= q.selCount}

\* Mutant of Rows: the totals are the sums of the rows that were kept, as they
\* were with a query per attribute.
RowsTruncated(k, in, out) ==
  LET sums(K) == {[r EXCEPT !.selTotal = MapThenSumSet(LAMBDA q : q.selCount, K),
                            !.baseTotal = MapThenSumSet(LAMBDA q : q.baseCount, K)] :
                    r \in K}
  IN  {sums(K) : K \in KeptOf(AllRows(k, in, out))}

Rows(k, in, out) == KeptOf(AllRows(k, in, out))

-----------------------------------------------------------------------------
(* comparisonStats and computeComparison.                                  *)

Root(n) == CHOOSE r \in 0 .. 1000 : r * r <= n /\ n < (r + 1) * (r + 1)

\* Lower bound of the 95% Agresti-Caffo interval, in thousandths: one success
\* and one failure are added to each group.
DifferenceLowerBound(selCount, selTotal, baseCount, baseTotal) ==
  LET n1 == selTotal + 2
      n2 == baseTotal + 2
      p1 == (1000 * (selCount + 1)) \div n1
      p2 == (1000 * (baseCount + 1) + n2 - 1) \div n2
      se == Root((p1 * (1000 - p1)) \div n1 + (p2 * (1000 - p2)) \div n2) + 1
  IN  IF selTotal <= 0 \/ baseTotal <= 0 THEN 0
      ELSE p1 - p2 - (196 * se) \div 100

\* An identifier: too many values, or nearly one for each of enough rows.
IsHighCardinality(distinct, rows) ==
  \/ distinct > MaxValues
  \/ rows >= MinRows /\ 10 * distinct > 9 * rows

\* The difference a reader is shown: highestDiffPct, in thousandths.
Effect(r) ==
  LET base == Max({r.baseTotal, 1})
  IN  (1000 * (r.selCount * base - r.baseCount * r.selTotal)) \div (r.selTotal * base)

Score(r) == DifferenceLowerBound(r.selCount, r.selTotal, r.baseCount, r.baseTotal)

\* Mutant of Eligible: a value the rest of the window lacks is not compared.
EligibleInBoth(rows) ==
  {r \in rows : /\ r.selCount >= MinOccurrences
                /\ r.baseCount > 0
                /\ r.selCount * r.baseTotal > r.baseCount * r.selTotal}

\* Values seen often enough, and over-represented in the selection.
Eligible(rows) ==
  {r \in rows : /\ r.selCount >= MinOccurrences
                /\ r.selCount * Max({r.baseTotal, 1}) > r.baseCount * r.selTotal}

\* Those whose difference is beyond doubt.
Signals(rows) ==
  {c \in {[row |-> r, score |-> Score(r)] : r \in Eligible(rows)} : c.score > 0}

\* The strictly greater score wins, and rows come with the greatest sel_cnt
\* first.
Winner(signals) ==
  CHOOSE c \in signals :
    \A d \in signals :
      \/ c.score > d.score
      \/ c.score = d.score /\ c.row.selCount >= d.row.selCount

\* The bars of a card: the winner, then the most frequent values.
TopDisplayValues(rows, winner) ==
  LET others == rows \ {winner}
      top    == CHOOSE T \in SUBSET others :
                  /\ Cardinality(T) = Min({Cardinality(others), MaxBars - 1})
                  /\ \A r \in T, q \in others \ T :
                       r.selCount + r.baseCount >= q.selCount + q.baseCount
  IN  {r.value : r \in top \cup {winner}}

\* The card's badge: Strong, Moderate, Weak or No signal.
Significance(effect) ==
  CASE effect >= 300         -> "high"
    [] effect \in 100 .. 299 -> "medium"
    [] effect \in 30 .. 99   -> "low"
    [] OTHER                 -> "none"

Card(k, rows) ==
  LET best == Winner(Signals(rows))
  IN  [key |-> k, winner |-> best.row.value,
       effect |-> Effect(best.row), score |-> best.score,
       level |-> Significance(Effect(best.row)),
       bars |-> TopDisplayValues(rows, best.row)]

Identifies(rows) ==
  LET r == CHOOSE r \in rows : TRUE
  IN  IsHighCardinality(r.distinct, r.selTotal + r.baseTotal)

\* One card for each attribute that explains something.
ToResults(rowsOf) ==
  {Card(k, rowsOf[k]) :
     k \in {k \in Keys : /\ rowsOf[k] # {}
                         /\ ~Identifies(rowsOf[k])
                         /\ Signals(rowsOf[k]) # {}}}

-----------------------------------------------------------------------------
(* buildSaturationComparisonSql and scoreSaturation.                       *)

\* quantile(0.95) of at most 20 values lies between the two greatest: 20
\* times what ClickHouse interpolates.
P95(S) ==
  LET top  == CHOOSE p \in S : \A q \in S : p.value >= q.value
      next == Max({p.value : p \in S \ {top}})
      n    == Cardinality(S)
  IN  IF n = 1 THEN 20 * top.value ELSE (n - 1) * next + (21 - n) * top.value

\* Fewer than MIN_SELECTION_SAMPLES: the greatest value stands in.
LowConfidence(S) == Cardinality(S) < 3

\* Mutant of SelectionValue: without enough samples there is no value.
SelectionValueStrict(S) == IF LowConfidence(S) THEN 0 ELSE P95(S)

\* No sample at all: maxIf answers 0.
SelectionValue(S) ==
  IF S = {} THEN 0
  ELSE IF LowConfidence(S) THEN 20 * Max({p.value : p \in S}) ELSE P95(S)

BaselineValue(S) == IF S = {} THEN 0 ELSE P95(S)

\* Utilization in points, counters in multiples of the baseline: a fraction
\* num / den, den 0 standing for the quotient by COUNTER_EPSILON.
Saturation(r, in, out) ==
  LET sel == SelectionValue(in)
      base == BaselineValue(out)
  IN  [resource |-> r, num |-> sel - base,
       den |-> IF r.kind = "utilization" THEN 2000 ELSE base,
       lowConfidence |-> LowConfidence(in)]

Higher(a, b) == a.num * b.den > b.num * a.den

\* scoreSaturation and the cut at MAX_CARDS, best first.
ScoreSaturation(in, out) ==
  LET of(S, r) == {p \in S : p.resource = r}
      scores == {c \in {Saturation(r, of(in, r), of(out, r)) :
                          r \in {p.resource : p \in in \cup out}} : c.num > 0}
  IN  CHOOSE C \in SUBSET scores :
        /\ Cardinality(C) = Min({Cardinality(scores), MaxCards})
        /\ \A c \in C, d \in scores \ C : ~Higher(d, c)
=============================================================================
