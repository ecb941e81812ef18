SPECIFICATION Spec
CONSTANTS
  Slugs <- OneSlug
  Schedules <- WeekAndDay
  Timeline <- NewYearsNight
  Requests = {r1}
  RequestDates <- NewYearsDay
  Ticker = Ticker
  None = None
  DryRun = FALSE
  MaxEdits = 1
  MaxFaults = 1
INVARIANTS
  TypeOK
  SnapshotsAreApplied
  Provenance
  OneTaskPerPeriod
  ReplaysAreOfOnePeriod
  CountedIsSent
PROPERTIES
  ImplementsBoard
