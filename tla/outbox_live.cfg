\* Nothing worse than a rolled-back claim, a ClickHouse that refuses and a view
\* that misses events.
CONSTANTS
  e1 = e1  e2 = e2  e3 = e3
  w1 = w1  w2 = w2
  None = None
  Events <- MCTwo
  Workers <- MCWorkers
  BatchSize = 2
  Faults <- LiveFaults
  MaxRetry = 2
  MaxFaults = 0
SPECIFICATION FairSpec
PROPERTY EveryEventDelivered
