SPECIFICATION FairSpec
CONSTANTS
  d1 = d1
  d2 = d2
  d3 = d3
  t1 = t1
  x1 = x1
  x2 = x2
  None = None
  Docs = {d1, d2, d3}
  Texts = {t1}
  TextOf <- MCSameText
  OldDocs = {d3}
  NClients = 2
  Slots = {x1}
  Attempts = 2
  MaxStalledCount = 1
  Budget <- MCAsk
INVARIANTS TypeOK QuietMeansSettled ClassifiedIsComplete
PROPERTIES EveryDocumentSettles
CHECK_DEADLOCK FALSE
