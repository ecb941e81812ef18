------------------------------ MODULE Calendar ------------------------------
(***************************************************************************)
(* The part of Go's time package the publisher computes with: civil dates  *)
(* of the proleptic Gregorian calendar carried as midnight UTC             *)
(* (schedule.Date.Time), their weekday, their ISO week, and the two        *)
(* normalising forms of AddDate it calls: a few days from a date, and some *)
(* months from the first of a month.                                       *)
(***************************************************************************)
EXTENDS Integers

(* pkg/schedule/date.go Date; hour is 0 wherever only a civil date is      *)
(* known.                                                                  *)
NewDate(y, m, d) == [year |-> y, month |-> m, day |-> d, hour |-> 0]

IsLeap(y) == y % 4 = 0 /\ (y % 100 # 0 \/ y % 400 = 0)

DaysIn(y, m) ==
  CASE m = 2                -> IF IsLeap(y) THEN 29 ELSE 28
    [] m \in {4, 6, 9, 11}  -> 30
    [] OTHER                -> 31

IsCivilDate(d) ==
  /\ d.year \in Nat /\ d.month \in 1..12
  /\ d.day \in 1..DaysIn(d.year, d.month)
  /\ d.hour \in 0..23

-----------------------------------------------------------------------------
(* Days since the start of the year, 1..366, and since 31 December 0000,   *)
(* a Sunday.                                                               *)
YearDay(d) ==
  (367 * d.month - 362) \div 12
    - (IF d.month <= 2 THEN 0 ELSE IF IsLeap(d.year) THEN 1 ELSE 2)
    + d.day

DayNumber(d) ==
  LET y == d.year - 1
  IN  365 * y + y \div 4 - y \div 100 + y \div 400 + YearDay(d)

(* Mutant: the weekday as ISO 8601 numbers it.                             *)
WeekdayISO(d) == ((DayNumber(d) + 6) % 7) + 1

(* time.Weekday: Sunday is 0, Saturday 6.                                  *)
Weekday(d) == DayNumber(d) % 7

Sunday   == 0
Monday   == 1
Thursday == 4
Saturday == 6

-----------------------------------------------------------------------------
(* AddDate(0, n, 0) from the first of a month: the month n months on.      *)
AddMonths(y, m, n) ==
  LET k == m - 1 + n
  IN  [year |-> y + k \div 12, month |-> (k % 12) + 1]

(* AddDate(0, 0, n) for |n| <= 28: at most one month boundary is crossed.  *)
AddDays(d, n) ==
  LET day  == d.day + n
      prev == AddMonths(d.year, d.month, -1)
      next == AddMonths(d.year, d.month, 1)
  IN  CASE day < 1 ->
             NewDate(prev.year, prev.month, day + DaysIn(prev.year, prev.month))
        [] day > DaysIn(d.year, d.month) ->
             NewDate(next.year, next.month, day - DaysIn(d.year, d.month))
        [] OTHER -> NewDate(d.year, d.month, day)

(* time.Time.ISOWeek: a week belongs to the year its Thursday lies in.     *)
ISOWeek(d) ==
  LET thursday == AddDays(d, Thursday - (IF Weekday(d) = Sunday THEN 7 ELSE Weekday(d)))
  IN  [year |-> thursday.year, week |-> (YearDay(thursday) - 1) \div 7 + 1]
=============================================================================
