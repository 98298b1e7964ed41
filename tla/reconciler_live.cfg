\* Two replicas that go on for ever after the last change and the last fault.
CONSTANTS
  s1 = s1  s2 = s2
  w1 = w1  w2 = w2
  None = None
  Slos <- MCSlos
  Reconcilers <- MCTwo
  Docs <- MCDocs
  Names <- MCNames
  Texts <- MCTexts
  Groups <- MCSlos
  Group <- MCGroup
  BatchSize = 2
  MaxChanges = 2
  MaxFaults = 1
SPECIFICATION FairSpec
INVARIANTS
  TypeOK
  OneRulePerAlert
PROPERTIES
  OnlyOrphansDeleted
  Converges
