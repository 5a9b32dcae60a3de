SPECIFICATION FairSpec
CONSTANTS
  None = None
  c1 = c1
  c2 = c2
  Urls <- MCUrls
  Cookies = {c1, c2}
  Answers <- MCAnswers
  Web <- MCWeb
  MaxRedirects = 2
  Starts <- MCStarts
  MaxPages = 5
  MaxDepth = 2
  MaxFetchAttempts = 6
  MaxQueue = 6
  CircuitFailures = 3
  MinYear = 2026
INVARIANTS TypeOK FrontierBounded SavedOnceAndInScope
PROPERTIES ImplementsOutcome CrawlEnds
CHECK_DEADLOCK FALSE
