\* A heatmap whose durationNano column holds spans of 0.5 s and 2 s.
CONSTANTS
  PlotW = 40  PlotH = 40  YBuckets = 10
  Log10 <- MCNanoLog10
  Column = "nano"
  Null = Null
  Samples <- MCNanoSamples
  Points <- MCPoints
  FullWindow <- MCFullWindow
  OffersAxes <- MCLogAxis
  MaxPresses = 2
  Keys <- MCKeys
  Missing = Missing
  MaxInlineIds = 2
  ValuesPerKey = 2
  MaxValues = 3
  MaxBars = 2
  MaxCards = 2
  Population <- MCNanoPopulation
  Metrics <- MCMetrics
  status = status  route = route  host = host
  ok = ok  err = err  va = va  vb = vb  vc = vc  vd = vd
  t1 = t1  t2 = t2  t3 = t3  t4 = t4  t5 = t5
SPECIFICATION Spec
INVARIANT LongerIsHigher
CHECK_DEADLOCK FALSE
