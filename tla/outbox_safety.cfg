\* Two workers, three events, every fault.
CONSTANTS
  e1 = e1  e2 = e2  e3 = e3
  w1 = w1  w2 = w2
  None = None
  Events <- MCEvents
  Workers <- MCWorkers
  BatchSize = 2
  Faults <- AllFaults
  MaxRetry = 1
  MaxFaults = 2
SPECIFICATION Spec
INVARIANTS
  TypeOK
  ClaimsAreExclusive
  ClaimsAreCurrent
  AttemptsComplete
  DuplicatesBounded
  DeliveredWasWritten
  DeliveredIsVisible
  OrphansBounded
PROPERTIES
  DeliveredIsFinal
  ImplementsDelivery
SYMMETRY Symmetry
