SPECIFICATION Spec
CONSTANTS
  None = None
  d1 = d1
  d2 = d2
  r1 = r1
  r2 = r2
  ana = ana
  eva = eva
  Docs = {d1, d2}
  NormOf <- MCNormOf
  ReportIds = {r1, r2}
  Desk = {ana}
  Editors = {eva}
  AutoSend = TRUE
  Budget <- MCDay
INVARIANTS TypeOK BurnedWasMailed FileIsWhatWasMailed NoteMeansMailed
SYMMETRY MCSymmetry
CHECK_DEADLOCK FALSE
