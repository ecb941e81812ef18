---------------------------- MODULE PeriodToken ----------------------------
(***************************************************************************)
(* What the publisher derives from a schedule definition and a civil date: *)
(* whether it fires (pkg/schedule), the period token and task identifier   *)
(* (pkg/publisher), the defer_date stamp, and the values of the template   *)
(* placeholders.                                                           *)
(*                                                                         *)
(* A token is a layout and the numbers printed into it.  Every number has  *)
(* a fixed width (years have four digits) and no two layouts can print the *)
(* same string, so two tokens are equal here iff their strings are.        *)
(***************************************************************************)
EXTENDS Calendar

PeriodKinds == {"monthly", "quarterly", "yearly"}
AlwaysFire  == {"daily", "weekly", "hourly"} \union PeriodKinds
AllRecurrenceKinds == AlwaysFire \union {"weekday", "ondate"}

(* schedule.filterInventoryByDate: does definition def fire on date d?     *)
Fires(def, d) ==
  \/ def.kind \in AlwaysFire
  \/ def.kind = "weekday" /\ Weekday(d) \in def.weekdays
  \/ def.kind = "ondate" /\ def.month = d.month /\ def.day = d.day

-----------------------------------------------------------------------------
quarterOf(m) == (m - 1) \div 3 + 1

fmtDate(d)        == [layout |-> "YYYY-MM-DD", fields |-> <<d.year, d.month, d.day>>]
fmtHourToken(d)   == [layout |-> "YYYYMMDDHH", fields |-> <<d.year, d.month, d.day, d.hour>>]
fmtIsoWeek(w)     == [layout |-> "YYYYWNN", fields |-> <<w.year, w.week>>]
fmtWeekday(w, wd) == [layout |-> "YYYYWNN-ddd", fields |-> <<w.year, w.week, wd>>]
fmtMonthYear(m)   == [layout |-> "YYYY-MM", fields |-> <<m.year, m.month>>]
fmtQuarter(y, q)  == [layout |-> "YYYYQN", fields |-> <<y, q>>]
fmtYear(y)        == [layout |-> "YYYY", fields |-> <<y>>]

(* Build returns an error instead of a token for a date whose weekday the  *)
(* definition does not list, and for an unknown kind.                      *)
NoToken == [layout |-> "error", fields |-> <<>>]

(* The month-anchored kinds shift from the first of the month.             *)
MonthToken(d, offset) == fmtMonthYear(AddMonths(d.year, d.month, offset))

(* Mutant: the year is that of the date, not of the shifted quarter.       *)
QuarterTokenOwnYear(d, offset) ==
  fmtQuarter(d.year, quarterOf(AddMonths(d.year, d.month, offset * 3).month))

QuarterToken(d, offset) ==
  LET shifted == AddMonths(d.year, d.month, offset * 3)
  IN  fmtQuarter(shifted.year, quarterOf(shifted.month))

YearToken(d, offset) == fmtYear(d.year + offset)

(* Mutant: a week token with the calendar year in place of the ISO year.   *)
BuildWithCalendarYear(def, d) ==
  CASE def.kind = "weekly"    -> fmtIsoWeek([ISOWeek(d) EXCEPT !.year = d.year])
    [] def.kind = "monthly"   -> MonthToken(d, def.offset)
    [] def.kind = "quarterly" -> QuarterToken(d, def.offset)
    [] def.kind = "yearly"    -> YearToken(d, def.offset)
    [] OTHER                  -> fmtDate(d)

(* Mutant: a weekday task named by its week alone.                         *)
BuildWithoutDay(def, d) ==
  CASE def.kind = "weekly"    -> fmtIsoWeek(ISOWeek(d))
    [] def.kind = "weekday"   -> fmtIsoWeek(ISOWeek(d))
    [] def.kind = "monthly"   -> MonthToken(d, def.offset)
    [] def.kind = "quarterly" -> QuarterToken(d, def.offset)
    [] def.kind = "yearly"    -> YearToken(d, def.offset)
    [] def.kind = "ondate"    -> fmtYear(d.year)
    [] def.kind = "hourly"    -> fmtHourToken(d)
    [] OTHER                  -> fmtDate(d)

Build(def, d) ==
  CASE def.kind = "daily"     -> fmtDate(d)
    [] def.kind = "hourly"    -> fmtHourToken(d)
    [] def.kind = "weekly"    -> fmtIsoWeek(ISOWeek(d))
    [] def.kind = "weekday"   -> IF Weekday(d) \in def.weekdays
                                 THEN fmtWeekday(ISOWeek(d), Weekday(d))
                                 ELSE NoToken
    [] def.kind = "monthly"   -> MonthToken(d, def.offset)
    [] def.kind = "quarterly" -> QuarterToken(d, def.offset)
    [] def.kind = "yearly"    -> YearToken(d, def.offset)
    [] def.kind = "ondate"    -> fmtYear(d.year)
    [] OTHER                  -> NoToken

(* Mutants: the identifier the service had before period tokens, and one   *)
(* whose token is too coarse.                                              *)
IdentifierByDate(slug, def, d) == <<slug, fmtDate(d)>>
IdentifierByYear(slug, def, d) == <<slug, fmtYear(d.year)>>

(* UUID5 over "recurring-<slug>-<token>": injective in the pair, because   *)
(* no suffix of a token after one of its hyphens is itself a token.        *)
Identifier(slug, def, d) == <<slug, Build(def, d)>>

-----------------------------------------------------------------------------
(* pkg/publisher/frontmatter.go                                            *)
(* Mutant: Sunday, numbered 0, counts as the day before Monday.            *)
mondayAfterSunday(d) == AddDays(d, Monday - Weekday(d))

mondayOfISOWeek(d) == AddDays(d, -((Weekday(d) - Monday + 7) % 7))

deferDateFor(kind, d) ==
  CASE kind = "weekly"    -> fmtDate(mondayOfISOWeek(d))
    [] kind = "monthly"   -> fmtDate(NewDate(d.year, d.month, 1))
    [] kind = "quarterly" -> fmtDate(NewDate(d.year, (quarterOf(d.month) - 1) * 3 + 1, 1))
    [] kind = "yearly"    -> fmtDate(NewDate(d.year, 1, 1))
    [] OTHER              -> fmtDate(d)

-----------------------------------------------------------------------------
(* pkg/publisher/placeholders.go                                           *)
(* Mutant: today is never the next weekday.                                *)
nextWeekdayAfter(d, target) ==
  LET delta == (target - Weekday(d) + 7) % 7
  IN  AddDays(d, IF delta = 0 THEN 7 ELSE delta)

nextWeekday(d, target) == AddDays(d, (target - Weekday(d) + 7) % 7)

(* Mutant: the fourth quarter of the same year.                            *)
previousQuarterSameYear(y, m) ==
  IF quarterOf(m) = 1 THEN <<y, 4>> ELSE <<y, quarterOf(m) - 1>>

previousQuarter(y, m) ==
  IF quarterOf(m) = 1 THEN <<y - 1, 4>> ELSE <<y, quarterOf(m) - 1>>

Placeholder(name, d) ==
  CASE name = "current_date"    -> fmtDate(d)
    [] name = "next_sat_date"   -> fmtDate(nextWeekday(d, Saturday))
    [] name = "next_sun_date"   -> fmtDate(nextWeekday(d, Sunday))
    [] name = "current_week"    -> fmtIsoWeek(ISOWeek(d))
    [] name = "next_week"       -> fmtIsoWeek(ISOWeek(AddDays(d, 7)))
    [] name = "current_month"   -> fmtMonthYear([year |-> d.year, month |-> d.month])
    [] name = "next_month"      -> fmtMonthYear(AddMonths(d.year, d.month, 1))
    [] name = "last_month"      -> fmtMonthYear(AddMonths(d.year, d.month, -1))
    [] name = "current_quarter" -> fmtQuarter(d.year, quarterOf(d.month))
    [] name = "last_quarter"    -> LET p == previousQuarter(d.year, d.month)
                                   IN  fmtQuarter(p[1], p[2])
    [] name = "current_year"    -> fmtYear(d.year)
    [] name = "next_year"       -> fmtYear(d.year + 1)
    [] name = "last_year"       -> fmtYear(d.year - 1)

-----------------------------------------------------------------------------
(* Reference definition of the period of definition def that date d lies   *)
(* in, by the days it consists of and not by the token's arithmetic.       *)
SamePeriod(def, d, e) ==
  LET sameDay == d.year = e.year /\ d.month = e.month /\ d.day = e.day
  IN  CASE def.kind = "hourly"                -> sameDay /\ d.hour = e.hour
        [] def.kind \in {"daily", "weekday"}  -> sameDay
        [] def.kind = "weekly"    -> (DayNumber(d) - Monday) \div 7 = (DayNumber(e) - Monday) \div 7
        [] def.kind = "monthly"   -> d.year = e.year /\ d.month = e.month
        [] def.kind = "quarterly" -> d.year = e.year /\ \E q \in {1, 4, 7, 10} :
                                       {d.month, e.month} \subseteq q..(q + 2)
        [] OTHER                  -> d.year = e.year
=============================================================================
