SPECIFICATION FairSpec
CONSTANTS
  None = None
  crawl = crawl
  again = again
  extract = extract
  reader = reader
  page = page
  text = text
  v1 = v1
  v2 = v2
  Calls = {crawl, again, extract, reader}
  Paths = {page, text}
  Versions = {v1, v2}
  Kind <- MCKind
  Path <- MCPath
  Body <- MCBody
  Lookalikes = {page}
  Max = 1
  MaxRetries = 1
  Burst = 2
INVARIANTS TypeOK GateLimit NoPlaceWasted RowHasObject
PROPERTIES RawIsKept CallsEnd
