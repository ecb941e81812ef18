SPECIFICATION FairSpec
CONSTANTS
  Slugs <- OneSlug
  Schedules <- WeekAndDay
  Timeline <- TwoHours
  Requests = {}
  RequestDates = {}
  Ticker = Ticker
  None = None
  DryRun = FALSE
  MaxEdits = 1
  MaxFaults = 2
PROPERTIES
  EventuallyMaterialised
  StopCompletes
