SPECIFICATION Spec
CONSTANTS
  None = None
  page1 = page1
  page2 = page2
  Zones = {"mexico", "other"}
  Horizon <- MCHorizon
  Offset <- MCOffset
  TrackingZone = "mexico"
  Schedule <- MCSchedule
  Instants = {50, 51, 54, 74, 75}
  Dates = {2}
  Pages = {page1, page2}
  Pref <- MCPref
  Attempts = 2
  Budget <- MCBudget
INVARIANTS TypeOK HourIsInItsDay ScheduledDaysAreCrawled DoneMeansDone FailuresAreShown
CHECK_DEADLOCK FALSE
