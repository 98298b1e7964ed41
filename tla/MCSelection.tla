----------------------------- MODULE MCSelection -----------------------------
(* SelectionAnalysis on a few spans, in one plot of 40 by 40 pixels.       *)
EXTENDS SelectionAnalysis, TLC

CONSTANTS status, route, host,   \* attributes
          ok, err,               \* values of status
          va, vb, vc, vd,        \* values of route and of host
          t1, t2, t3, t4, t5     \* traces

MCKeys == {status, route, host}

\* 0.01, 0.05, 1, 10, 50 and 100 ms.
MCLog10 == 1 :> -2000 @@ 5 :> -1301 @@ 100 :> 0 @@ 1000 :> 1000
             @@ 5000 :> 1699 @@ 10000 :> 2000

Span(trace, time, dur, n, st, ro, ho) ==
  [trace |-> trace, time |-> time, dur |-> dur, n |-> n,
   attrs |-> (status :> st @@ route :> ro @@ host :> ho)]

\* A slow cluster of errors late in the window, on two routes, one
\* trace of which has a fast span too; spans shorter than the axis floor; an
\* attribute, host, that has too many values once all spans are in.
Fast   == Span(t1, 0, 100, 40, ok, va, va)
Short  == Span(t2, 1, 5, 9, ok, vb, vb)
Medium == Span(t3, 4, 1000, 12, ok, vb, vc)
Errors == Span(t4, 6, 10000, 9, err, vc, vd)
Tail   == Span(t4, 2, 100, 3, ok, va, Missing)
Slow   == Span(t5, 8, 5000, 6, err, va, vc)

MCPopulation == {Fast, Short, Medium, Errors, Tail, Slow}
MCSamples == {MCPopulation, {Fast, Short, Errors}}

\* Half a second and two seconds, of a column of nanoseconds.
MCNanoLog10 == 1 :> -2000 @@ 50000 :> 2699 @@ 200000 :> 3301
MCNanoPopulation == {Span(t1, 0, 50000, 1, ok, va, va), Span(t2, 4, 200000, 1, ok, va, va)}
MCNanoSamples == {MCNanoPopulation}
MCLogAxis == {"log"}

MCPoints == [x : {0, 15, 40}, h : {0, 14, 40}] \cup {[x |-> -3, h |-> 20]}
MCFullWindow == [from |-> Time(0), to |-> Time(8)]
MCBothAxes == {"log", "linear"}

Cpu   == [kind |-> "utilization", name |-> "cpu"]
Queue == [kind |-> "counter", name |-> "queue"]
Sample(r, time, value) == [resource |-> r, time |-> time, value |-> value]
MCMetrics ==
  {Sample(Cpu, 0, 20), Sample(Cpu, 2, 30), Sample(Cpu, 4, 40), Sample(Cpu, 6, 90),
   Sample(Cpu, 7, 95), Sample(Cpu, 8, 92), Sample(Queue, 1, 0), Sample(Queue, 5, 3),
   Sample(Queue, 7, 0)}
=============================================================================
