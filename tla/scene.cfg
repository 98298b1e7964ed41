\* Both scenes, three things done by the person, answers in any order.
CONSTANTS
  s1 = s1  s2 = s2  v1 = v1  pod1 = pod1  n1 = n1  n2 = n2
  All = All  None = None  Route = Route  Gateway = Gateway
  Selections <- MCSelections
  Services <- MCServices
  Samples <- MCSamples
  Attributes <- MCAttributes
  Pods <- MCPods
  Operators <- MCOperators
  Default = n1
  MaxActions = 3
  MaxPending = 1
SPECIFICATION FairSpec
INVARIANTS TypeOK ScopesAgree LoadingIsAwaited NeverStale StaleOnlyByOverlap
PROPERTIES LoadingEnds PromiseSpec
CHECK_DEADLOCK FALSE
