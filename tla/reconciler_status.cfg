\* An alert is taken out of a document.
CONSTANTS
  s1 = s1  s2 = s2
  w1 = w1  w2 = w2
  None = None
  Slos <- MCSlos
  Reconcilers <- MCOne
  Docs <- MCDocs
  Names <- MCNames
  Texts <- MCTexts
  Groups <- MCSlos
  Group <- MCGroup
  BatchSize = 2
  MaxChanges = 2
  MaxFaults = 0
SPECIFICATION FairSpec
PROPERTY StatusSettles
