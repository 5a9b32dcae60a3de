SPECIFICATION Spec
CONSTANTS
  d1 = d1
  d2 = d2
  d3 = d3
  t1 = t1
  x1 = x1
  x2 = x2
  None = None
  Docs = {d1, d2}
  Texts = {t1}
  TextOf <- MCSameText
  OldDocs = {}
  NClients = 1
  Slots = {x1, x2}
  Attempts = 1
  MaxStalledCount = 1
  Budget <- MCRaces
SYMMETRY Symmetry
INVARIANTS OneAnalysisPerText ContentKeepsCanonical
CHECK_DEADLOCK FALSE
