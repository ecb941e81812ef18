--------------------------- MODULE MCTaskCreator ---------------------------
(***************************************************************************)
(* Values for the constants of TaskCreator.  Every timeline crosses the    *)
(* night from Thursday 31 December 2026 to Friday 1 January 2027: another  *)
(* day, month, quarter and year, the same ISO week.                        *)
(***************************************************************************)
EXTENDS TaskCreatorProps

At(y, m, d, h) == [year |-> y, month |-> m, day |-> d, hour |-> h]

Sched(kind, offset) ==
  [kind |-> kind, weekdays |-> {}, month |-> 0, day |-> 0, offset |-> offset]

Daily       == Sched("daily", 0)
Hourly      == Sched("hourly", 0)
Weekly      == Sched("weekly", 0)
Fridays     == [Sched("weekday", 0) EXCEPT !.weekdays = {5}]
NewYear     == [Sched("ondate", 0) EXCEPT !.month = 1, !.day = 1]

(* A kind the code does not know: the store drops the Schedule.            *)
Fortnightly == Sched("fortnightly", 0)

OneSlug  == {1}
TwoSlugs == {1, 2}

(* A task that two dates of one week share, and one of a single day.       *)
WeekAndDay == {Weekly, NewYear}

(* A task of every day, one that Thursdays have not, and one that is never *)
(* listed.                                                                 *)
DayFridayAndUnknown == {Daily, Fridays, Fortnightly}

HourOnly == {Hourly}

LastHour      == At(2026, 12, 31, 23)
FirstHour     == At(2027, 1, 1, 0)
NextWeek      == At(2027, 1, 4, 0)

(* The last entry is the Monday after, in the next ISO week.               *)
NewYearsNight == <<LastHour, FirstHour, NextWeek>>
TwoHours      == <<LastHour, FirstHour>>
OneHour       == <<LastHour>>

(* A date that lies ahead when the service starts.                         *)
NewYearsDay   == {FirstHour}
=============================================================================
