----------------------------- MODULE CivilDays -----------------------------
(***************************************************************************)
(* Reference behaviour for PeriodToken: a walk over the civil calendar,    *)
(* one day a step, that keeps by counting alone what the publisher         *)
(* computes from a date: the weekday, and for every kind of recurrence the *)
(* day its current period started.  Each walk covers one year and the      *)
(* first week of the next.                                                 *)
(***************************************************************************)
EXTENDS PeriodToken, Sequences

CONSTANTS
  Years,    \* the years to walk through
  Offsets   \* the values of periodOffset to consider

ASSUME YearsAssumption   == Years \subseteq Nat \ {0}
ASSUME OffsetsAssumption == Offsets \subseteq Int /\ 0 \in Offsets

VARIABLES
  from,     \* the year this walk started in
  date,     \* today
  weekday,  \* today's weekday, counted from the first day of the walk
  since     \* [kind -> first day of the current period, or Unknown]

vars == <<from, date, weekday, since>>

Unknown == NewDate(0, 0, 0)

(* The kinds whose periods are longer than the day they fire on.           *)
SpanKinds == {"weekly"} \union PeriodKinds

DayKinds == {"daily", "weekday"}

TypeOK ==
  /\ from \in Years
  /\ IsCivilDate(date) /\ date.year \in from..(from + 1)
  /\ weekday \in 0..6
  /\ DOMAIN since = SpanKinds
  /\ \A k \in SpanKinds : since[k] = Unknown \/ IsCivilDate(since[k])

-----------------------------------------------------------------------------
(* When a period starts, from what the kind means: a week on a Monday, a   *)
(* month on its first, a quarter every third month, a year in January.     *)
PeriodStarts(kind, d, wd) ==
  CASE kind = "weekly"    -> wd = Monday
    [] kind = "monthly"   -> d.day = 1
    [] kind = "quarterly" -> d.day = 1 /\ d.month \in {1, 4, 7, 10}
    [] kind = "yearly"    -> d.day = 1 /\ d.month = 1
    [] kind \in DayKinds  -> TRUE

Tomorrow(d) ==
  IF d.day < DaysIn(d.year, d.month) THEN NewDate(d.year, d.month, d.day + 1)
  ELSE IF d.month < 12 THEN NewDate(d.year, d.month + 1, 1)
  ELSE NewDate(d.year + 1, 1, 1)

Init ==
  /\ from \in Years
  /\ date = NewDate(from, 1, 1)
  /\ weekday = Weekday(date)
  /\ since = [k \in SpanKinds |-> IF PeriodStarts(k, date, weekday) THEN date ELSE Unknown]

NextDay ==
  /\ date.year = from \/ date.day <= 7
  /\ date' = Tomorrow(date)
  /\ weekday' = (weekday + 1) % 7
  /\ since' = [k \in SpanKinds |-> IF PeriodStarts(k, date', weekday') THEN date' ELSE since[k]]
  /\ UNCHANGED from

Spec == Init /\ [][NextDay]_vars

-----------------------------------------------------------------------------
Def(kind, offset) == [kind |-> kind, weekdays |-> 0..6, offset |-> offset]

Definitions == [kind : SpanKinds \union DayKinds, weekdays : {0..6}, offset : Offsets]

(* The order of two tokens of one layout.                                  *)
Precedes(s, t) ==
  \E i \in 1..Len(s) : s[i] < t[i] /\ \A j \in 1..(i - 1) : s[j] = t[j]

(* From one day to the next the identifier of a schedule changes exactly   *)
(* when its period ends: the 24 ticks of every further day of the period   *)
(* collapse in the controller, and no period is swallowed by the one       *)
(* before (periodTokenBuilder.Build).                                      *)
TokenFollowsPeriod ==
  [][\A def \in Definitions :
       Build(def, date') # Build(def, date) <=> PeriodStarts(def.kind, date', weekday')]_vars

(* A token never comes back: of two days the later one has the same token  *)
(* or a later one.  A weekday token is ordered only within its week, whose *)
(* last day is printed as 0, so it is left to TokenFollowsPeriod.          *)
TokenNeverReturns ==
  [][\A def \in Definitions :
       LET s == Build(def, date)
           t == Build(def, date')
       IN  def.kind = "weekday" \/ s = t \/ Precedes(s.fields, t.fields)]_vars

(* A Schedule whose recurrence is edited gets its task all the same, since *)
(* no two kinds print one token and the controller does not take the new   *)
(* task for the old one: with one exception, between yearly and ondate     *)
(* (Build prints YYYY for both).                                           *)
KindsShareOnlyTheYear ==
  LET tokens == [k \in AllRecurrenceKinds |-> {Build(Def(k, o), date) : o \in Offsets}]
  IN  \A k, l \in DOMAIN tokens :
        k # l => (tokens[k] \intersect tokens[l] # {} <=> {k, l} = {"yearly", "ondate"})

(* defer_date is the first day of the running period, whatever the offset, *)
(* so that a task surfaces on every day it can be created on               *)
(* (deferDateFor).                                                         *)
DeferDateIsPeriodStart ==
  \A k \in SpanKinds :
    since[k] # Unknown => deferDateFor(k, date) = fmtDate(since[k])

(* The placeholders that name a period, from the one before to the next.   *)
Neighbours(kind) ==
  CASE kind = "weekly"    -> <<"current_week", "next_week">>
    [] kind = "monthly"   -> <<"last_month", "current_month", "next_month">>
    [] kind = "quarterly" -> <<"last_quarter", "current_quarter">>
    [] kind = "yearly"    -> <<"last_year", "current_year", "next_year">>

(* The title of a period's task reads alike on every day of the period,    *)
(* and what it calls the next or the last period is what that period's own *)
(* tasks call the current one: a placeholder changes exactly when a period *)
(* begins, and takes the value its successor had the day before            *)
(* (firstOfPreviousMonth, firstOfNextMonth, previousQuarter, nextWeek).    *)
PlaceholdersTurnWithPeriods ==
  [][\A k \in SpanKinds :
       LET names  == Neighbours(k)
           begins == PeriodStarts(k, date', weekday')
       IN  /\ \A i \in 1..Len(names) :
                Placeholder(names[i], date') # Placeholder(names[i], date) <=> begins
           /\ begins => \A i \in 2..Len(names) :
                Placeholder(names[i - 1], date') = Placeholder(names[i], date)]_vars

(* The weekend a task is planned for lies in the ISO week its title names, *)
(* today included, and next_week is the week that starts after it.         *)
WeekendInCurrentWeek ==
  LET week == Placeholder("current_week", date)
      sat  == nextWeekday(date, Saturday)
      sun  == nextWeekday(date, Sunday)
  IN  /\ fmtIsoWeek(ISOWeek(sun)) = week
      /\ weekday # Sunday => fmtIsoWeek(ISOWeek(sat)) = week
      /\ fmtIsoWeek(ISOWeek(AddDays(sun, 1))) = Placeholder("next_week", date)
      /\ sat = AddDays(sun, IF weekday = Sunday THEN 6 ELSE -1)

(* A closed form of the calendar agrees with counting days.                *)
WeekdayIsCounted == Weekday(date) = weekday
=============================================================================
