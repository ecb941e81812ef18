SPECIFICATION Spec
CONSTANTS
  Years <- MCYears
  Offsets <- MCOffsets
INVARIANTS
  TypeOK
  KindsShareOnlyTheYear
  DeferDateIsPeriodStart
  WeekendInCurrentWeek
  WeekdayIsCounted
PROPERTIES
  TokenFollowsPeriod
  TokenNeverReturns
  PlaceholdersTurnWithPeriods
CHECK_DEADLOCK FALSE
