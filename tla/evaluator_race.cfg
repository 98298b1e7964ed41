\* Two evaluators of an SLO that has never been evaluated.
CONSTANTS
  s1 = s1
  v1 = v1  v2 = v2
  None = None
  Slos <- MCSlos
  Evaluated <- MCNone
  Evaluators <- MCTwo
  Scale = 100
  Target = 99
  Compliances <- MCCompliances
  FastThreshold = 144
  SlowThreshold = 20
  ContinueInterval = 2
  Minute = 2
  MaxClock = 3
SPECIFICATION Spec
INVARIANT
  LogMatchesState
CHECK_DEADLOCK FALSE
