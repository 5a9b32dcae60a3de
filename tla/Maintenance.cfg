SPECIFICATION Spec
CONSTANTS
  page = page
  again = again
  file = file
  dof = dof
  Docs <- MCDocs
  SourceOf <- MCSourceOf
  TextOf <- MCTextOf
  Pages <- MCPages
  OldDocs = {again}
  Runs = {r1}
  LastDay = 2
  MaxScripts = 1
  None = None
INVARIANTS TypeOK OnePageComesBack  UsersCanBeDeleted WipedMeansEmpty
PROPERTIES OthersAreKept OnlyLateDuplicatesAreOrphaned
CHECK_DEADLOCK FALSE
