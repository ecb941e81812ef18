SPECIFICATION FairSpec
CONSTANTS
  Slugs <- OneSlug
  Schedules <- HourOnly
  Timeline <- TwoHours
  Requests = {}
  RequestDates = {}
  Ticker = Ticker
  None = None
  DryRun = FALSE
  MaxEdits = 0
  MaxFaults = 1
PROPERTIES
  SkippedTickIsRetried
