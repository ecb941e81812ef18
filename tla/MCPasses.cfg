SPECIFICATION FairSpec
CONSTANTS
  Slugs <- TwoSlugs
  Schedules <- DayFridayAndUnknown
  Timeline <- OneHour
  Requests = {r1}
  RequestDates = {}
  Ticker = Ticker
  None = None
  DryRun = FALSE
  MaxEdits = 0
  MaxFaults = 2
INVARIANTS
  PassAccountsForAll
  AtMostOneLatePublish
PROPERTIES
  RequestsEnd
