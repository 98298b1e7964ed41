\* One replica, more SLOs than a batch holds.
CONSTANTS
  s1 = s1  s2 = s2
  w1 = w1  w2 = w2
  None = None
  Slos <- MCSlos
  Reconcilers <- MCOne
  Docs <- MCDocs
  Names <- MCNames
  Texts <- MCTexts
  Groups <- MCSlos
  Group <- MCGroup
  BatchSize = 1
  MaxChanges = 2
  MaxFaults = 0
SPECIFICATION Spec
PROPERTY OnlyOrphansDeleted
