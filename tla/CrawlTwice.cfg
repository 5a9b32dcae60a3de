SPECIFICATION Spec
CONSTANTS
  None = None
  s1 = s1
  s2 = s2
  cron = cron
  admin1 = admin1
  admin2 = admin2
  Slots = {s1}
  Callers = {cron, admin1}
  KeyOf <- MCKeyOf
  Attempts = 2
  MaxStalledCount = 1
  Budget <- MCNothing
INVARIANTS DayCrawledOnce
CHECK_DEADLOCK FALSE
