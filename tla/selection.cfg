\* Both panels, drags between any of 10 points, two presses of the mouse.
CONSTANTS
  PlotW = 40  PlotH = 40  YBuckets = 10
  Log10 <- MCLog10
  Column = "ms"
  Null = Null
  Samples <- MCSamples
  Points <- MCPoints
  FullWindow <- MCFullWindow
  OffersAxes <- MCBothAxes
  MaxPresses = 2
  Keys <- MCKeys
  Missing = Missing
  MaxInlineIds = 2
  ValuesPerKey = 2
  MaxValues = 3
  MaxBars = 2
  MaxCards = 2
  Population <- MCPopulation
  Metrics <- MCMetrics
  status = status  route = route  host = host
  ok = ok  err = err  va = va  vb = vb  vc = vc  vd = vd
  t1 = t1  t2 = t2  t3 = t3  t4 = t4  t5 = t5
SPECIFICATION Spec
INVARIANTS
  TypeOK BoxSelectsWhatItCovers BandIsRange
  CardsAreTrue SeparatorsAreShown TracesAreWhole SaturationFollowsSamples
PROPERTY ClearIsAnnounced
CHECK_DEADLOCK FALSE
