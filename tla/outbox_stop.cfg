\* A worker may be stopped once.
CONSTANTS
  e1 = e1  e2 = e2  e3 = e3
  w1 = w1  w2 = w2
  None = None
  Events <- MCTwo
  Workers <- MCWorkers
  BatchSize = 2
  Faults <- StopFault
  MaxRetry = 1
  MaxFaults = 1
SPECIFICATION FairSpec
PROPERTY EveryEventDelivered
