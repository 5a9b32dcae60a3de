SPECIFICATION FairSpec
CONSTANTS
  None = None
  s1 = s1
  s2 = s2
  cron = cron
  admin1 = admin1
  admin2 = admin2
  Slots = {s1, s2}
  Callers = {admin1}
  KeyOf <- MCKeyOf
  Attempts = 2
  MaxStalledCount = 1
  Budget <- MCFailures
INVARIANTS TypeOK QuietMeansClosed
PROPERTIES EveryRunCloses
CHECK_DEADLOCK FALSE
