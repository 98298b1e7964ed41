SPECIFICATION Spec
CHECK_DEADLOCK FALSE
CONSTANTS
  s1 = s1
  s2 = s2
  s3 = s3
  latencyText = latencyText
  errorText = errorText
  brokenText = brokenText
  o1 = o1
  o2 = o2
  d1 = d1
  d2 = d2
  d3 = d3
  d4 = d4
  d5 = d5
  d6 = d6
  d7 = d7
  Null = Null
  Slugs <- MCSlugs
  Texts <- MCTexts
  Malformed <- MCMalformed
  ObjectsIn <- MCObjectsIn
  BurnTypes <- MCBurnTypes
  Severities <- MCSeverities
  Runtime <- MCRuntime
  DefaultIds <- MCDefaultIds
  Measured <- MCMeasured
  Stores <- MCStores
  MaxChanges = 2
  MaxId = 8
  MaxUpdates = 1
  PageSize = 2
  QueueLength = 1
  BurnsShown = 1
  TeamsShown = 1
  MaxRefreshes = 2
  MaxPosts = 1
INVARIANTS
  TypeOK
  StoreIsSound
  PagesAgree
PROPERTIES
  CreatedIsShown
