-------------------------- MODULE CivilDaysProofs --------------------------
(***************************************************************************)
(* Proofs about the tokens, placeholders and defer dates of PeriodToken    *)
(* along the calendar walk of CivilDays, for every year and every offset.  *)
(***************************************************************************)
EXTENDS CivilDays, PeriodTokenProofs, TLAPS

(* The first day of a date's period, as deferDateFor computes it.          *)
FirstDay(kind, d) ==
  CASE kind = "weekly"    -> mondayOfISOWeek(d)
    [] kind = "monthly"   -> NewDate(d.year, d.month, 1)
    [] kind = "quarterly" -> NewDate(d.year, (quarterOf(d.month) - 1) * 3 + 1, 1)
    [] kind = "yearly"    -> NewDate(d.year, 1, 1)

(* Tomorrow is the day after: the calendar by months and leap years agrees *)
(* with counting.                                                          *)
LEMMA TomorrowFollows ==
  ASSUME NEW d \in CivilDates, d.hour = 0
  PROVE  /\ Tomorrow(d) \in CivilDates /\ Tomorrow(d).hour = 0
         /\ DayNumber(Tomorrow(d)) = DayNumber(d) + 1
<1>1. PICK y \in Int, m \in 1..12, n \in Int : d = NewDate(y, m, n) /\ n \in 1..DaysIn(y, m)
  <2>1. d.year \in Int /\ d.month \in 1..12 /\ d.day \in 1..DaysIn(d.year, d.month)
    BY DayNumberParts
  <2>2. d = [year |-> d.year, month |-> d.month, day |-> d.day, hour |-> 0]
    BY DEF CivilDates
  <2> QED BY <2>1, <2>2 DEF NewDate
<1>2. d.year = y /\ d.month = m /\ d.day = n /\ d.hour = 0
  BY <1>1 DEF NewDate
<1>3. DayNumber(d) = YearStart(y) + MonthStart(y, m) + n
  BY <1>1, NewDateIsCivil
<1>4. DaysIn(y, m) \in 28..31 /\ YearStart(y) \in Int /\ MonthStart(y, m) \in Int
  <2>1. DaysIn(y, m) \in 28..31
    BY MonthLength
  <2>2. YearStart(y) \in Int
    BY YearsFollow
  <2>3. MonthStart(y, m) \in Nat
    BY MonthsFollow
  <2> QED BY <2>1, <2>2, <2>3
<1>5. CASE n < DaysIn(y, m)
  <2>1. Tomorrow(d) = NewDate(y, m, n + 1)
    BY <1>2, <1>5 DEF Tomorrow
  <2>2. n + 1 \in 1..DaysIn(y, m)
    BY <1>1, <1>4, <1>5
  <2>3. /\ NewDate(y, m, n + 1) \in CivilDates
        /\ DayNumber(NewDate(y, m, n + 1)) = YearStart(y) + MonthStart(y, m) + (n + 1)
    BY <2>2, NewDateIsCivil
  <2>4. NewDate(y, m, n + 1).hour = 0
    BY DEF NewDate
  <2> QED BY <1>3, <1>4, <2>1, <2>3, <2>4
<1>6. CASE n = DaysIn(y, m) /\ m < 12
  <2>1. Tomorrow(d) = NewDate(y, m + 1, 1)
    BY <1>2, <1>4, <1>6 DEF Tomorrow
  <2>2. m + 1 \in 1..12
    BY <1>6
  <2>3. 1 \in 1..DaysIn(y, m + 1)
    BY <2>2, MonthLength
  <2>4. /\ NewDate(y, m + 1, 1) \in CivilDates
        /\ DayNumber(NewDate(y, m + 1, 1)) = YearStart(y) + MonthStart(y, m + 1) + 1
    BY <2>2, <2>3, NewDateIsCivil
  <2>5. MonthStart(y, m + 1) = MonthStart(y, m) + DaysIn(y, m)
    BY <1>6, MonthsFollow
  <2>6. NewDate(y, m + 1, 1).hour = 0
    BY DEF NewDate
  <2> QED BY <1>3, <1>4, <1>6, <2>1, <2>4, <2>5, <2>6
<1>7. CASE n = DaysIn(y, m) /\ m = 12
  <2>1. Tomorrow(d) = NewDate(y + 1, 1, 1)
    BY <1>2, <1>4, <1>7 DEF Tomorrow
  <2>2. 1 \in 1..DaysIn(y + 1, 1)
    BY MonthLength
  <2>3. /\ NewDate(y + 1, 1, 1) \in CivilDates
        /\ DayNumber(NewDate(y + 1, 1, 1)) = YearStart(y + 1) + MonthStart(y + 1, 1) + 1
    BY <2>2, NewDateIsCivil
  <2>4. MonthStart(y + 1, 1) = 0 /\ MonthStart(y, m) + DaysIn(y, m) = YearLength(y)
    BY <1>7, MonthsFollow
  <2>5. YearStart(y + 1) = YearStart(y) + YearLength(y)
    BY YearsFollow
  <2>6. NewDate(y + 1, 1, 1).hour = 0
    BY DEF NewDate
  <2> QED BY <1>3, <1>4, <1>7, <2>1, <2>3, <2>4, <2>5, <2>6
<1> QED BY <1>1, <1>4, <1>5, <1>6, <1>7

(* Where tomorrow stands in the month and the year.                        *)
LEMMA TomorrowByMonths ==
  ASSUME NEW d \in CivilDates
  PROVE  LET t == Tomorrow(d)
         IN  \/ t.year = d.year /\ t.month = d.month /\ t.day = d.day + 1
             \/ t.year = d.year /\ t.month = d.month + 1 /\ t.day = 1
             \/ t.year = d.year + 1 /\ d.month = 12 /\ t.month = 1 /\ t.day = 1
BY DEF Tomorrow, NewDate, CivilDates

(* Counting by sevens.                                                     *)
LEMMA NextInSevens ==
  ASSUME NEW n \in Int
  PROVE  /\ (n + 1) % 7 = ((n % 7) + 1) % 7
         /\ (n + 1) % 7 = 1 => n \div 7 = (n - 1) \div 7 + 1
         /\ (n + 1) % 7 # 1 => n \div 7 = (n - 1) \div 7
OBVIOUS

(* Tomorrow's weekday and week.                                            *)
LEMMA TomorrowByWeeks ==
  ASSUME NEW d \in CivilDates, d.hour = 0
  PROVE  LET t == Tomorrow(d)
         IN  /\ Weekday(t) = (Weekday(d) + 1) % 7
             /\ Weekday(t) = Monday => WeekNumber(t) = WeekNumber(d) + 1
             /\ Weekday(t) # Monday => WeekNumber(t) = WeekNumber(d)
<1> DEFINE t == Tomorrow(d)
<1>1. PICK n \in Int : n = DayNumber(d) /\ n + 1 = DayNumber(t)
  BY TomorrowFollows, DayNumberParts
<1>2. Weekday(d) = n % 7 /\ Weekday(t) = (n + 1) % 7
  BY <1>1 DEF Weekday
<1>3. WeekNumber(d) = (n - 1) \div 7 /\ WeekNumber(t) = n \div 7
  <2>1. (n + 1) - 1 = n
    BY <1>1
  <2> QED BY <1>1, <2>1 DEF WeekNumber, Monday
<1> HIDE DEF t
<1>4. /\ Weekday(t) = (Weekday(d) + 1) % 7
      /\ Weekday(t) = Monday => WeekNumber(t) = WeekNumber(d) + 1
      /\ Weekday(t) # Monday => WeekNumber(t) = WeekNumber(d)
  BY <1>2, <1>3, NextInSevens DEF Monday
<1> QED BY <1>4 DEF t

-----------------------------------------------------------------------------
(* The first day of a period is in it, and is the same for all its days.   *)
LEMMA PeriodsStart ==
  ASSUME NEW d \in CivilDates, d.hour = 0, NEW k \in SpanKinds
  PROVE  LET t == Tomorrow(d)
         IN  FirstDay(k, t) = IF PeriodStarts(k, t, Weekday(t)) THEN t ELSE FirstDay(k, d)
<1> DEFINE t == Tomorrow(d)
<1>1. t \in CivilDates /\ t.hour = 0 /\ DayNumber(t) = DayNumber(d) + 1
  BY TomorrowFollows
<1>2. \/ t.year = d.year /\ t.month = d.month /\ t.day = d.day + 1
      \/ t.year = d.year /\ t.month = d.month + 1 /\ t.day = 1
      \/ t.year = d.year + 1 /\ d.month = 12 /\ t.month = 1 /\ t.day = 1
  BY TomorrowByMonths
<1>3. /\ Weekday(t) = Monday => WeekNumber(t) = WeekNumber(d) + 1
      /\ Weekday(t) # Monday => WeekNumber(t) = WeekNumber(d)
  BY TomorrowByWeeks
<1> HIDE DEF t
<1>4. /\ d.year \in Int /\ d.month \in 1..12 /\ d.day \in Nat
      /\ t.year \in Int /\ t.month \in 1..12 /\ t.day \in Nat
  BY <1>1 DEF CivilDates
<1>5. t = NewDate(t.year, t.month, t.day)
  BY <1>1 DEF CivilDates, NewDate
<1>6. CASE k = "weekly"
  <2>1. /\ mondayOfISOWeek(t) \in CivilDates /\ mondayOfISOWeek(t).hour = 0
        /\ mondayOfISOWeek(d) \in CivilDates /\ mondayOfISOWeek(d).hour = 0
        /\ DayNumber(mondayOfISOWeek(t)) = 7 * WeekNumber(t) + Monday
        /\ DayNumber(mondayOfISOWeek(d)) = 7 * WeekNumber(d) + Monday
    BY <1>1, MondayIsOfTheWeek
  <2>2. ASSUME Weekday(t) = Monday PROVE mondayOfISOWeek(t) = t
    <3>1. DayNumber(t) = 7 * WeekNumber(t) + Monday + ((Weekday(t) + 6) % 7)
      BY <1>1, WeekdayInWeek
    <3>2. (Weekday(t) + 6) % 7 = 0
      BY <1>1, <2>2, WeekdayInWeek DEF Monday, Sunday
    <3>3. DayNumber(t) = 7 * WeekNumber(t) + Monday
      BY <1>1, <3>1, <3>2, WeekdayInWeek DEF Monday
    <3> QED BY <1>1, <2>1, <3>3, DayNumberNamesTheDate
  <2>3. ASSUME Weekday(t) # Monday PROVE mondayOfISOWeek(t) = mondayOfISOWeek(d)
    BY <1>3, <2>1, <2>3, DayNumberNamesTheDate
  <2>4. FirstDay(k, t) = mondayOfISOWeek(t) /\ FirstDay(k, d) = mondayOfISOWeek(d)
    BY <1>6 DEF FirstDay
  <2>5. PeriodStarts(k, t, Weekday(t)) <=> Weekday(t) = Monday
    BY <1>6 DEF PeriodStarts, DayKinds
  <2> QED BY <2>2, <2>3, <2>4, <2>5 DEF t
<1>7. CASE k = "monthly"
  <2>1. FirstDay(k, t) = NewDate(t.year, t.month, 1) /\ FirstDay(k, d) = NewDate(d.year, d.month, 1)
    BY <1>7 DEF FirstDay
  <2>2. PeriodStarts(k, t, Weekday(t)) <=> t.day = 1
    BY <1>7 DEF PeriodStarts, DayKinds
  <2>3. t.day # 1 => t.year = d.year /\ t.month = d.month
    BY <1>2
  <2> QED BY <1>5, <2>1, <2>2, <2>3 DEF t
<1>8. CASE k = "quarterly"
  <2>1. /\ FirstDay(k, t) = NewDate(t.year, (quarterOf(t.month) - 1) * 3 + 1, 1)
        /\ FirstDay(k, d) = NewDate(d.year, (quarterOf(d.month) - 1) * 3 + 1, 1)
    BY <1>8 DEF FirstDay
  <2>2. PeriodStarts(k, t, Weekday(t)) <=> t.day = 1 /\ t.month \in {1, 4, 7, 10}
    BY <1>8 DEF PeriodStarts, DayKinds
  <2>3. t.month \in {1, 4, 7, 10} => (quarterOf(t.month) - 1) * 3 + 1 = t.month
    BY DEF quarterOf
  <2>4. ~(t.day = 1 /\ t.month \in {1, 4, 7, 10})
          => t.year = d.year /\ quarterOf(t.month) = quarterOf(d.month)
    BY <1>2, <1>4 DEF quarterOf
  <2> QED BY <1>5, <2>1, <2>2, <2>3, <2>4 DEF t
<1>9. CASE k = "yearly"
  <2>1. FirstDay(k, t) = NewDate(t.year, 1, 1) /\ FirstDay(k, d) = NewDate(d.year, 1, 1)
    BY <1>9 DEF FirstDay
  <2>2. PeriodStarts(k, t, Weekday(t)) <=> t.day = 1 /\ t.month = 1
    BY <1>9 DEF PeriodStarts, DayKinds
  <2>3. ~(t.day = 1 /\ t.month = 1) => t.year = d.year
    BY <1>2
  <2> QED BY <1>5, <2>1, <2>2, <2>3 DEF t
<1> QED BY <1>6, <1>7, <1>8, <1>9 DEF SpanKinds, PeriodKinds

-----------------------------------------------------------------------------
(* The walk.  TypeOK is not inductive: the weekday has to be that of the   *)
(* date, and what a period's start is remembered as has to be its first    *)
(* day.                                                                    *)
WalkInv ==
  /\ TypeOK
  /\ date \in CivilDates /\ date.hour = 0
  /\ weekday = Weekday(date)
  /\ \A k \in SpanKinds : since[k] = Unknown \/ since[k] = FirstDay(k, date)

(* The calendar dates, as CivilDates and as IsCivilDate have them.         *)
LEMMA CivilFromYearZero ==
  ASSUME NEW d \in CivilDates, d.hour = 0, d.year \in Nat
  PROVE  IsCivilDate(d)
BY DEF CivilDates, IsCivilDate

(* The first of January starts every period but a week.                    *)
LEMMA JanuaryStarts ==
  ASSUME NEW y \in Int, NEW k \in SpanKinds, NEW d, d = NewDate(y, 1, 1)
  PROVE  PeriodStarts(k, d, Weekday(d)) => FirstDay(k, d) = d
<1>1. d.year = y /\ d.month = 1 /\ d.day = 1 /\ d.hour = 0
  BY DEF NewDate
<1>2. d \in CivilDates
  BY MonthLength, NewDateIsCivil
<1>3. CASE k = "weekly"
  <2>1. PeriodStarts(k, d, Weekday(d)) <=> Weekday(d) = Monday
    BY <1>3 DEF PeriodStarts, DayKinds
  <2>2. /\ mondayOfISOWeek(d) \in CivilDates /\ mondayOfISOWeek(d).hour = 0
        /\ DayNumber(mondayOfISOWeek(d)) = 7 * WeekNumber(d) + Monday
    BY <1>2, MondayIsOfTheWeek
  <2>3. Weekday(d) = Monday => DayNumber(d) = 7 * WeekNumber(d) + Monday
    BY <1>2, WeekdayInWeek DEF Monday, Sunday
  <2>4. Weekday(d) = Monday => mondayOfISOWeek(d) = d
    BY <1>1, <1>2, <2>2, <2>3, DayNumberNamesTheDate
  <2> QED BY <1>3, <2>1, <2>4 DEF FirstDay
<1>4. CASE k \in {"monthly", "yearly"}
  BY <1>1, <1>4 DEF FirstDay
<1>5. CASE k = "quarterly"
  <2>1. (quarterOf(d.month) - 1) * 3 + 1 = 1
    BY <1>1 DEF quarterOf
  <2> QED BY <1>1, <1>5, <2>1 DEF FirstDay
<1> QED BY <1>3, <1>4, <1>5 DEF SpanKinds, PeriodKinds

(* The walk starts on a first of January.                                  *)
LEMMA WalkStarts == Init => WalkInv
<1> SUFFICES ASSUME Init PROVE WalkInv
  OBVIOUS
<1>1. from \in Nat /\ from \in Years
  BY YearsAssumption DEF Init
<1>2. date = NewDate(from, 1, 1) /\ date.year = from /\ date.hour = 0
  BY DEF Init, NewDate
<1>3. date \in CivilDates
  BY <1>1, <1>2, MonthLength, NewDateIsCivil
<1>4. IsCivilDate(date)
  BY <1>1, <1>2, <1>3, CivilFromYearZero
<1>5. weekday = Weekday(date) /\ weekday \in 0..6
  BY <1>3, WeekdayInWeek DEF Init
<1>6. since = [k \in SpanKinds |-> IF PeriodStarts(k, date, weekday) THEN date ELSE Unknown]
  BY DEF Init
<1>7. ASSUME NEW k \in SpanKinds
      PROVE  since[k] = Unknown \/ (since[k] = FirstDay(k, date) /\ IsCivilDate(since[k]))
  BY <1>1, <1>2, <1>4, <1>5, <1>6, JanuaryStarts
<1>8. TypeOK
  BY <1>1, <1>2, <1>4, <1>5, <1>6, <1>7 DEF TypeOK
<1> QED BY <1>2, <1>3, <1>5, <1>7, <1>8 DEF WalkInv

(* A step of the walk, from one day to the next.                           *)
LEMMA WalkGoesOn ==
  ASSUME WalkInv, NextDay
  PROVE  WalkInv'
<1>1. date' = Tomorrow(date) /\ from' = from
  BY DEF NextDay
<1>2. date \in CivilDates /\ date.hour = 0 /\ weekday = Weekday(date)
  BY DEF WalkInv
<1>3. date' \in CivilDates /\ date'.hour = 0
  BY <1>1, <1>2, TomorrowFollows
<1>4. weekday' = Weekday(date') /\ weekday' \in 0..6
  BY <1>1, <1>2, <1>3, TomorrowByWeeks, WeekdayInWeek DEF NextDay
<1>5. from \in Years /\ from \in Nat /\ date.year \in from..(from + 1)
  BY YearsAssumption DEF WalkInv, TypeOK
<1>6. date'.year \in from..(from + 1)
  <2>1. date.year = from \/ date.day <= 7
    BY DEF NextDay
  <2>2. \/ date'.year = date.year
        \/ date'.year = date.year + 1 /\ date.month = 12 /\ date.day = DaysIn(date.year, date.month)
    BY <1>1, <1>2, DayNumberParts DEF Tomorrow, NewDate
  <2>3. DaysIn(date.year, date.month) \in 28..31
    BY <1>2, DayNumberParts
  <2> QED BY <1>5, <2>1, <2>2, <2>3
<1>7. IsCivilDate(date')
  BY <1>3, <1>5, <1>6, CivilFromYearZero
<1>8. since' = [k \in SpanKinds |-> IF PeriodStarts(k, date', weekday') THEN date' ELSE since[k]]
  BY DEF NextDay
<1>9. ASSUME NEW k \in SpanKinds
      PROVE  /\ since'[k] = Unknown \/ since'[k] = FirstDay(k, date')
             /\ since'[k] = Unknown \/ IsCivilDate(since'[k])
  <2>1. FirstDay(k, date') = IF PeriodStarts(k, date', weekday') THEN date' ELSE FirstDay(k, date)
    BY <1>1, <1>2, <1>4, PeriodsStart
  <2>2. /\ since[k] = Unknown \/ since[k] = FirstDay(k, date)
        /\ since[k] = Unknown \/ IsCivilDate(since[k])
    BY DEF WalkInv, TypeOK
  <2>3. since'[k] = IF PeriodStarts(k, date', weekday') THEN date' ELSE since[k]
    BY <1>8
  <2> QED BY <1>7, <2>1, <2>2, <2>3
<1>10. TypeOK'
  BY <1>1, <1>4, <1>5, <1>6, <1>7, <1>8, <1>9 DEF TypeOK
<1> QED BY <1>3, <1>4, <1>9, <1>10 DEF WalkInv

(* The walk keeps its invariant.                                           *)
LEMMA WalkInvHolds == Spec => []WalkInv
<1>1. WalkInv /\ [NextDay]_vars => WalkInv'
  <2>1. ASSUME WalkInv, UNCHANGED vars PROVE WalkInv'
    BY <2>1 DEF WalkInv, TypeOK, vars
  <2> QED BY <2>1, WalkGoesOn
<1> QED BY <1>1, WalkStarts, PTL DEF Spec

(* Every variable keeps its type, in every year.                           *)
THEOREM WalkIsTyped == Spec => []TypeOK
BY WalkInvHolds, PTL DEF WalkInv

(* The closed form of the calendar agrees with counting days.              *)
THEOREM WeekdaysAreCounted == Spec => []WeekdayIsCounted
<1>1. WalkInv => WeekdayIsCounted
  BY DEF WalkInv, WeekdayIsCounted
<1> QED BY <1>1, WalkInvHolds, PTL

(* The defer date is the first day of the running period.                  *)
THEOREM DeferDatesArePeriodStarts == Spec => []DeferDateIsPeriodStart
<1>1. \A k \in SpanKinds : deferDateFor(k, date) = fmtDate(FirstDay(k, date))
  BY DEF SpanKinds, PeriodKinds, deferDateFor, FirstDay
<1>2. WalkInv => DeferDateIsPeriodStart
  BY <1>1 DEF WalkInv, DeferDateIsPeriodStart
<1> QED BY <1>2, WalkInvHolds, PTL

-----------------------------------------------------------------------------
(* The tokens along the walk.                                              *)

(* The definitions of Definitions fire every day.                          *)
LEMMA DefinitionsFire ==
  ASSUME NEW def \in Definitions, NEW d \in CivilDates
  PROVE  /\ Fires(def, d) /\ def.offset \in Int
         /\ def.kind \in SpanKinds \union DayKinds
<1>1. /\ def.kind \in SpanKinds \union DayKinds
      /\ def.weekdays = 0..6
      /\ def.offset \in Int
  BY OffsetsAssumption DEF Definitions
<1>2. Weekday(d) \in 0..6
  BY WeekdayInWeek
<1> QED BY <1>1, <1>2 DEF Fires, AlwaysFire, SpanKinds, PeriodKinds, DayKinds

(* Tomorrow is in today's period unless it starts the next.                *)
LEMMA PeriodEnds ==
  ASSUME NEW def, def.kind \in SpanKinds \union DayKinds,
         NEW d \in CivilDates, d.hour = 0, NEW t, t = Tomorrow(d)
  PROVE  SamePeriod(def, d, t) <=> ~PeriodStarts(def.kind, t, Weekday(t))
<1>1. t \in CivilDates /\ DayNumber(t) = DayNumber(d) + 1 /\ DayNumber(d) \in Int
  BY TomorrowFollows, DayNumberParts
<1>2. \/ t.year = d.year /\ t.month = d.month /\ t.day = d.day + 1
      \/ t.year = d.year /\ t.month = d.month + 1 /\ t.day = 1
      \/ t.year = d.year + 1 /\ d.month = 12 /\ t.month = 1 /\ t.day = 1
  BY TomorrowByMonths
<1>3. /\ Weekday(t) = Monday => WeekNumber(t) = WeekNumber(d) + 1
      /\ Weekday(t) # Monday => WeekNumber(t) = WeekNumber(d)
  BY TomorrowByWeeks
<1>4. /\ d.year \in Int /\ d.month \in 1..12 /\ d.day \in Nat /\ d.day >= 1
      /\ t.year \in Int /\ t.month \in 1..12 /\ t.day \in Nat
  BY <1>1 DEF CivilDates
<1>5. CASE def.kind \in DayKinds
  <2>1. ~SameDay(d, t)
    BY <1>1, DayNumberIsOfOneDay
  <2>2. SamePeriod(def, d, t) <=> SameDay(d, t)
    BY <1>5 DEF SamePeriod, SameDay, DayKinds
  <2>3. PeriodStarts(def.kind, t, Weekday(t))
    BY <1>5 DEF PeriodStarts, DayKinds
  <2> QED BY <2>1, <2>2, <2>3
<1>6. CASE def.kind = "weekly"
  <2>1. SamePeriod(def, d, t) <=> WeekNumber(d) = WeekNumber(t)
    BY <1>6 DEF SamePeriod, WeekNumber
  <2>2. PeriodStarts(def.kind, t, Weekday(t)) <=> Weekday(t) = Monday
    BY <1>6 DEF PeriodStarts, DayKinds
  <2>3. WeekNumber(d) \in Int
    BY WeekdayInWeek
  <2> QED BY <1>3, <2>1, <2>2, <2>3
<1>7. CASE def.kind = "monthly"
  <2>1. SamePeriod(def, d, t) <=> d.year = t.year /\ d.month = t.month
    BY <1>7 DEF SamePeriod
  <2>2. PeriodStarts(def.kind, t, Weekday(t)) <=> t.day = 1
    BY <1>7 DEF PeriodStarts, DayKinds
  <2> QED BY <1>2, <1>4, <2>1, <2>2
<1>8. CASE def.kind = "quarterly"
  <2>1. SamePeriod(def, d, t) <=> d.year = t.year /\ quarterOf(d.month) = quarterOf(t.month)
    BY <1>4, <1>8, QuartersByMonths DEF SamePeriod
  <2>2. PeriodStarts(def.kind, t, Weekday(t)) <=> t.day = 1 /\ t.month \in {1, 4, 7, 10}
    BY <1>8 DEF PeriodStarts, DayKinds
  <2>3. d.year = t.year /\ quarterOf(d.month) = quarterOf(t.month)
          <=> ~(t.day = 1 /\ t.month \in {1, 4, 7, 10})
    BY <1>2, <1>4 DEF quarterOf
  <2> QED BY <2>1, <2>2, <2>3
<1>9. CASE def.kind = "yearly"
  <2>1. SamePeriod(def, d, t) <=> d.year = t.year
    BY <1>9 DEF SamePeriod
  <2>2. PeriodStarts(def.kind, t, Weekday(t)) <=> t.day = 1 /\ t.month = 1
    BY <1>9 DEF PeriodStarts, DayKinds
  <2> QED BY <1>2, <1>4, <2>1, <2>2
<1> QED BY <1>5, <1>6, <1>7, <1>8, <1>9 DEF SpanKinds, PeriodKinds

(* From one day to the next a schedule's identifier changes exactly when   *)
(* its period ends.                                                        *)
THEOREM TokensFollowPeriods == Spec => TokenFollowsPeriod
<1>1. ASSUME WalkInv, NextDay, NEW def \in Definitions
      PROVE  Build(def, date') # Build(def, date) <=> PeriodStarts(def.kind, date', weekday')
  <2>1. date' = Tomorrow(date) /\ date \in CivilDates /\ date.hour = 0
    BY <1>1 DEF WalkInv, NextDay
  <2>2. date' \in CivilDates
    BY <2>1, TomorrowFollows
  <2>3. Fires(def, date) /\ Fires(def, date') /\ def.offset \in Int
        /\ def.kind \in SpanKinds \union DayKinds
    BY <2>1, <2>2, DefinitionsFire
  <2>4. Build(def, date) = Build(def, date') <=> SamePeriod(def, date, date')
    BY <2>1, <2>2, <2>3, TokensNamePeriods
  <2>5. SamePeriod(def, date, date') <=> ~PeriodStarts(def.kind, date', Weekday(date'))
    BY <2>1, <2>3, PeriodEnds
  <2>6. weekday' = Weekday(date')
    BY <1>1, WalkGoesOn DEF WalkInv
  <2> QED BY <2>4, <2>5, <2>6
<1>2. WalkInv /\ [NextDay]_vars =>
        [\A def \in Definitions :
           Build(def, date') # Build(def, date) <=> PeriodStarts(def.kind, date', weekday')]_vars
  BY <1>1
<1> QED BY <1>2, WalkInvHolds, PTL DEF Spec, TokenFollowsPeriod

-----------------------------------------------------------------------------
(* The order of tokens of one number.                                      *)
LEMMA OneNumberPrecedes ==
  ASSUME NEW a \in Int, NEW p \in Int, a < p
  PROVE  Precedes(<<a>>, <<p>>)
<1>1. 1 \in 1..Len(<<a>>) /\ <<a>>[1] < <<p>>[1] /\ \A j \in 1..(1 - 1) : <<a>>[j] = <<p>>[j]
  OBVIOUS
<1> QED BY <1>1 DEF Precedes

(* The order of tokens of two numbers.                                     *)
LEMMA TwoNumbersPrecede ==
  ASSUME NEW a \in Int, NEW b \in Int, NEW p \in Int, NEW q \in Int, a < p \/ (a = p /\ b < q)
  PROVE  Precedes(<<a, b>>, <<p, q>>)
<1> DEFINE s == <<a, b>>
           t == <<p, q>>
<1>1. CASE a < p
  <2>1. 1 \in 1..Len(s) /\ s[1] < t[1] /\ \A j \in 1..(1 - 1) : s[j] = t[j]
    BY <1>1
  <2> QED BY <2>1 DEF Precedes
<1>2. CASE a = p /\ b < q
  <2>1. 2 \in 1..Len(s) /\ s[2] < t[2] /\ \A j \in 1..(2 - 1) : s[j] = t[j]
    BY <1>2
  <2> QED BY <2>1 DEF Precedes
<1> QED BY <1>1, <1>2

(* The order of tokens of three numbers.                                   *)
LEMMA ThreeNumbersPrecede ==
  ASSUME NEW a \in Int, NEW b \in Int, NEW c \in Int, NEW p \in Int, NEW q \in Int, NEW r \in Int,
         a < p \/ (a = p /\ b < q) \/ (a = p /\ b = q /\ c < r)
  PROVE  Precedes(<<a, b, c>>, <<p, q, r>>)
<1> DEFINE s == <<a, b, c>>
           t == <<p, q, r>>
<1>1. CASE a < p
  <2>1. 1 \in 1..Len(s) /\ s[1] < t[1] /\ \A j \in 1..(1 - 1) : s[j] = t[j]
    BY <1>1
  <2> QED BY <2>1 DEF Precedes
<1>2. CASE a = p /\ b < q
  <2>1. 2 \in 1..Len(s) /\ s[2] < t[2] /\ \A j \in 1..(2 - 1) : s[j] = t[j]
    BY <1>2
  <2> QED BY <2>1 DEF Precedes
<1>3. CASE a = p /\ b = q /\ c < r
  <2>1. 3 \in 1..Len(s) /\ s[3] < t[3] /\ \A j \in 1..(3 - 1) : s[j] = t[j]
    BY <1>3
  <2> QED BY <2>1 DEF Precedes
<1> QED BY <1>1, <1>2, <1>3

(* ISO weeks are in the order of their Thursdays.                          *)
LEMMA WeeksGrow ==
  ASSUME NEW d \in CivilDates, NEW t \in CivilDates, WeekNumber(d) <= WeekNumber(t)
  PROVE  \E a \in Int, b \in Int, c \in Int, f \in Int :
           /\ ISOWeek(d) = [year |-> a, week |-> b] /\ ISOWeek(t) = [year |-> c, week |-> f]
           /\ a < c \/ (a = c /\ b <= f)
<1> DEFINE u == ThursdayOf(d)
           v == ThursdayOf(t)
<1>1. u \in CivilDates /\ v \in CivilDates /\ DayNumber(u) <= DayNumber(v)
  <2>1. WeekNumber(d) \in Int /\ WeekNumber(t) \in Int
    BY WeekdayInWeek
  <2>2. /\ u \in CivilDates /\ DayNumber(u) = 7 * WeekNumber(d) + Thursday
        /\ v \in CivilDates /\ DayNumber(v) = 7 * WeekNumber(t) + Thursday
    BY ThursdayIsOfTheWeek
  <2> HIDE DEF u, v
  <2> QED BY <2>1, <2>2 DEF Thursday
<1>2. /\ ISOWeek(d) = [year |-> u.year, week |-> (YearDay(u) - 1) \div 7 + 1]
      /\ ISOWeek(t) = [year |-> v.year, week |-> (YearDay(v) - 1) \div 7 + 1]
  BY DEF ISOWeek, ThursdayOf
<1> HIDE DEF u, v
<1>3. /\ u.year \in Int /\ v.year \in Int
      /\ YearDay(u) \in 1..YearLength(u.year) /\ YearDay(v) \in 1..YearLength(v.year)
      /\ DayNumber(u) = YearStart(u.year) + YearDay(u)
      /\ DayNumber(v) = YearStart(v.year) + YearDay(v)
  BY <1>1, DayNumberParts
<1>4. YearDay(u) \in Nat /\ YearDay(v) \in Nat
  BY <1>3 DEF YearLength
<1>5. ~(v.year < u.year)
  <2>1. v.year < u.year => Before(v, u)
    BY DEF Before
  <2>2. Before(v, u) => DayNumber(v) < DayNumber(u)
    BY <1>1, DayNumberGrows
  <2>3. DayNumber(u) \in Int /\ DayNumber(v) \in Int
    BY <1>1, DayNumberParts
  <2> QED BY <1>1, <2>1, <2>2, <2>3
<1>6. u.year = v.year => YearDay(u) <= YearDay(v)
  <2>1. YearStart(u.year) \in Int
    BY <1>3, YearsFollow
  <2> QED BY <1>1, <1>3, <1>4, <2>1
<1>7. PICK x \in Int, y \in Int : x = (YearDay(u) - 1) \div 7 + 1 /\ y = (YearDay(v) - 1) \div 7 + 1
  BY <1>4
<1>8. u.year = v.year => x <= y
  BY <1>4, <1>6, <1>7
<1>9. u.year < v.year \/ (u.year = v.year /\ x <= y)
  BY <1>3, <1>5, <1>8
<1> QED BY <1>2, <1>3, <1>7, <1>9

(* Of two days the later one has the same token or a later one.            *)
LEMMA TokensGrow ==
  ASSUME NEW def \in Definitions, def.kind # "weekday",
         NEW d \in CivilDates, d.hour = 0, NEW t, t = Tomorrow(d)
  PROVE  Build(def, d) = Build(def, t) \/ Precedes(Build(def, d).fields, Build(def, t).fields)
<1>1. PICK y \in Int, m \in 1..12, i \in Int : y = d.year /\ m = d.month /\ i = d.day
  BY DEF CivilDates
<1>2. t \in CivilDates
  BY TomorrowFollows
<1>3. PICK z \in Int, o \in 1..12, j \in Int : z = t.year /\ o = t.month /\ j = t.day
  BY <1>2 DEF CivilDates
<1>4. \/ z = y /\ o = m /\ j = i + 1
      \/ z = y /\ o = m + 1 /\ j = 1
      \/ z = y + 1 /\ m = 12 /\ o = 1 /\ j = 1
  BY <1>1, <1>3, TomorrowByMonths
<1>5. y < z \/ (y = z /\ m <= o)
  BY <1>4
<1>6. def.offset \in Int /\ def.kind \in SpanKinds \union DayKinds
  BY <1>2, DefinitionsFire
<1>a. ASSUME NEW n \in Int
      PROVE  \E a \in Int, b \in 1..12, p \in Int, q \in 1..12 :
               /\ AddMonths(y, m, n).year = a /\ AddMonths(y, m, n).month = b
               /\ AddMonths(z, o, n).year = p /\ AddMonths(z, o, n).month = q
               /\ a < p \/ (a = p /\ b <= q)
  BY <1>5 DEF AddMonths
<1>7. CASE def.kind = "daily"
  <2>1. Build(def, d) = fmtDate(d) /\ Build(def, t) = fmtDate(t)
    BY <1>7 DEF Build
  <2>2. Build(def, d).fields = <<y, m, i>> /\ Build(def, t).fields = <<z, o, j>>
    BY <1>1, <1>3, <2>1 DEF fmtDate
  <2>3. y < z \/ (y = z /\ m < o) \/ (y = z /\ m = o /\ i < j)
    BY <1>4
  <2>4. Precedes(<<y, m, i>>, <<z, o, j>>)
    BY <2>3, ThreeNumbersPrecede
  <2> QED BY <2>2, <2>4
<1>8. CASE def.kind = "weekly"
  <2>1. WeekNumber(d) <= WeekNumber(t)
    <3>1. WeekNumber(d) \in Int
      BY WeekdayInWeek
    <3>2. WeekNumber(t) = WeekNumber(d) + 1 \/ WeekNumber(t) = WeekNumber(d)
      BY TomorrowByWeeks
    <3> QED BY <3>1, <3>2
  <2>2. PICK a \in Int, b \in Int, c \in Int, f \in Int :
          /\ ISOWeek(d) = [year |-> a, week |-> b] /\ ISOWeek(t) = [year |-> c, week |-> f]
          /\ a < c \/ (a = c /\ b <= f)
    BY <1>2, <2>1, WeeksGrow
  <2>3. /\ Build(def, d) = [layout |-> "YYYYWNN", fields |-> <<a, b>>]
        /\ Build(def, t) = [layout |-> "YYYYWNN", fields |-> <<c, f>>]
    BY <1>8, <2>2 DEF Build, fmtIsoWeek
  <2>4. CASE a = c /\ b = f
    BY <2>3, <2>4
  <2>5. CASE a < c \/ (a = c /\ b < f)
    <3>1. Precedes(<<a, b>>, <<c, f>>)
      BY <2>5, TwoNumbersPrecede
    <3> QED BY <2>3, <3>1
  <2> QED BY <2>2, <2>4, <2>5
<1>9. CASE def.kind = "monthly"
  <2>0. PICK n \in Int : n = def.offset
    BY <1>6
  <2>1. PICK a \in Int, b \in 1..12, p \in Int, q \in 1..12 :
          /\ AddMonths(y, m, n).year = a /\ AddMonths(y, m, n).month = b
          /\ AddMonths(z, o, n).year = p /\ AddMonths(z, o, n).month = q
          /\ a < p \/ (a = p /\ b <= q)
    BY <1>a
  <2>2. /\ Build(def, d) = [layout |-> "YYYY-MM", fields |-> <<a, b>>]
        /\ Build(def, t) = [layout |-> "YYYY-MM", fields |-> <<p, q>>]
    BY <1>1, <1>3, <1>9, <2>0, <2>1 DEF Build, MonthToken, fmtMonthYear
  <2>3. CASE a = p /\ b = q
    BY <2>2, <2>3
  <2>4. CASE a < p \/ (a = p /\ b < q)
    <3>1. Precedes(<<a, b>>, <<p, q>>)
      BY <2>4, TwoNumbersPrecede
    <3> QED BY <2>2, <3>1
  <2> QED BY <2>1, <2>3, <2>4
<1>10. CASE def.kind = "quarterly"
  <2>1. PICK n \in Int : n = def.offset * 3
    BY <1>6
  <2>2. PICK a \in Int, b \in 1..12, p \in Int, q \in 1..12 :
          /\ AddMonths(y, m, n).year = a /\ AddMonths(y, m, n).month = b
          /\ AddMonths(z, o, n).year = p /\ AddMonths(z, o, n).month = q
          /\ a < p \/ (a = p /\ b <= q)
    BY <1>a
  <2>3. PICK g \in Int, h \in Int : g = quarterOf(b) /\ h = quarterOf(q) /\ (b <= q => g <= h)
    BY DEF quarterOf
  <2>4. /\ Build(def, d) = [layout |-> "YYYYQN", fields |-> <<a, g>>]
        /\ Build(def, t) = [layout |-> "YYYYQN", fields |-> <<p, h>>]
    BY <1>1, <1>3, <1>10, <2>1, <2>2, <2>3 DEF Build, QuarterToken, fmtQuarter
  <2>5. CASE a = p /\ g = h
    BY <2>4, <2>5
  <2>6. CASE a < p \/ (a = p /\ g < h)
    <3>1. Precedes(<<a, g>>, <<p, h>>)
      BY <2>6, TwoNumbersPrecede
    <3> QED BY <2>4, <3>1
  <2> QED BY <2>2, <2>3, <2>5, <2>6
<1>11. CASE def.kind = "yearly"
  <2>1. PICK n \in Int : n = def.offset
    BY <1>6
  <2>2. /\ Build(def, d) = [layout |-> "YYYY", fields |-> <<y + n>>]
        /\ Build(def, t) = [layout |-> "YYYY", fields |-> <<z + n>>]
    BY <1>1, <1>3, <1>11, <2>1 DEF Build, YearToken, fmtYear
  <2>3. y + n \in Int /\ z + n \in Int /\ (y + n < z + n \/ y + n = z + n)
    BY <1>4
  <2>4. CASE y + n = z + n
    BY <2>2, <2>4
  <2>5. CASE y + n < z + n
    <3>1. Precedes(<<y + n>>, <<z + n>>)
      BY <2>3, <2>5, OneNumberPrecedes
    <3> QED BY <2>2, <3>1
  <2> QED BY <2>3, <2>4, <2>5
<1> QED BY <1>6, <1>7, <1>8, <1>9, <1>10, <1>11 DEF SpanKinds, PeriodKinds, DayKinds

(* A token never comes back.                                               *)
THEOREM TokensNeverReturn == Spec => TokenNeverReturns
<1>1. ASSUME WalkInv, NextDay, NEW def \in Definitions
      PROVE  \/ def.kind = "weekday" \/ Build(def, date) = Build(def, date')
             \/ Precedes(Build(def, date).fields, Build(def, date').fields)
  BY <1>1, TokensGrow DEF WalkInv, NextDay
<1>2. WalkInv /\ [NextDay]_vars =>
        [\A def \in Definitions :
           LET s == Build(def, date)
               t == Build(def, date')
           IN  def.kind = "weekday" \/ s = t \/ Precedes(s.fields, t.fields)]_vars
  BY <1>1
<1> QED BY <1>2, WalkInvHolds, PTL DEF Spec, TokenNeverReturns

-----------------------------------------------------------------------------
(* The weekend a task is planned for lies in the week its title names.     *)
LEMMA WeekendOfTheWeek ==
  ASSUME NEW d \in CivilDates, NEW wd, wd = Weekday(d),
         NEW sat, sat = nextWeekday(d, Saturday), NEW sun, sun = nextWeekday(d, Sunday)
  PROVE  /\ fmtIsoWeek(ISOWeek(sun)) = fmtIsoWeek(ISOWeek(d))
         /\ wd # Sunday => fmtIsoWeek(ISOWeek(sat)) = fmtIsoWeek(ISOWeek(d))
         /\ fmtIsoWeek(ISOWeek(AddDays(sun, 1))) = fmtIsoWeek(ISOWeek(AddDays(d, 7)))
         /\ sat = AddDays(sun, IF wd = Sunday THEN 6 ELSE -1)
<1>1. PICK n \in Int : n = DayNumber(d)
  BY DayNumberParts
<1>2. wd = n % 7
  BY <1>1 DEF Weekday
<1>3. PICK i \in 0..6 : i = (0 - wd + 7) % 7
  BY <1>2
<1>4. PICK j \in 0..6 : j = (6 - wd + 7) % 7
  BY <1>2
<1>5. sun \in CivilDates /\ sun.hour = 0 /\ DayNumber(sun) = n + i
  <2>1. sun = AddDays(d, i)
    BY <1>3 DEF nextWeekday, Sunday
  <2>2. i \in -28..28
    OBVIOUS
  <2>3. /\ AddDays(d, i) \in CivilDates /\ AddDays(d, i).hour = 0
        /\ DayNumber(AddDays(d, i)) = DayNumber(d) + i
    BY <2>2, AddDaysAdds
  <2> QED BY <1>1, <2>1, <2>3
<1>6. sat \in CivilDates /\ sat.hour = 0 /\ DayNumber(sat) = n + j
  <2>1. sat = AddDays(d, j)
    BY <1>4 DEF nextWeekday, Saturday
  <2>2. j \in -28..28
    OBVIOUS
  <2>3. /\ AddDays(d, j) \in CivilDates /\ AddDays(d, j).hour = 0
        /\ DayNumber(AddDays(d, j)) = DayNumber(d) + j
    BY <2>2, AddDaysAdds
  <2> QED BY <1>1, <2>1, <2>3
<1>7. /\ AddDays(sun, 1) \in CivilDates /\ DayNumber(AddDays(sun, 1)) = n + i + 1
  BY <1>5, AddDaysAdds
<1>8. /\ AddDays(d, 7) \in CivilDates /\ DayNumber(AddDays(d, 7)) = n + 7
  BY <1>1, AddDaysAdds
<1>9. /\ (n + i - 1) \div 7 = (n - 1) \div 7
      /\ wd # 0 => (n + j - 1) \div 7 = (n - 1) \div 7
      /\ (n + i + 1 - 1) \div 7 = (n + 7 - 1) \div 7
  BY <1>2, <1>3, <1>4
<1>10. wd = 0 => n + i + 6 = n + j
  BY <1>2, <1>3, <1>4
<1>11. wd # 0 => n + i + (-1) = n + j
  BY <1>2, <1>3, <1>4
<1>12. /\ WeekNumber(d) = (n - 1) \div 7
       /\ WeekNumber(sun) = (n + i - 1) \div 7
       /\ WeekNumber(sat) = (n + j - 1) \div 7
       /\ WeekNumber(AddDays(sun, 1)) = (n + i + 1 - 1) \div 7
       /\ WeekNumber(AddDays(d, 7)) = (n + 7 - 1) \div 7
  BY <1>1, <1>5, <1>6, <1>7, <1>8 DEF WeekNumber, Monday
<1>13. fmtIsoWeek(ISOWeek(sun)) = fmtIsoWeek(ISOWeek(d))
  BY <1>5, <1>9, <1>12, WeekTokens
<1>14. wd # Sunday => fmtIsoWeek(ISOWeek(sat)) = fmtIsoWeek(ISOWeek(d))
  BY <1>6, <1>9, <1>12, WeekTokens DEF Sunday
<1>15. fmtIsoWeek(ISOWeek(AddDays(sun, 1))) = fmtIsoWeek(ISOWeek(AddDays(d, 7)))
  BY <1>7, <1>8, <1>9, <1>12, WeekTokens
<1>16. sat = AddDays(sun, IF wd = Sunday THEN 6 ELSE -1)
  <2>1. CASE wd = 0
    <3>1. /\ AddDays(sun, 6) \in CivilDates /\ AddDays(sun, 6).hour = 0
          /\ DayNumber(AddDays(sun, 6)) = DayNumber(sun) + 6
      BY <1>5, 6 \in -28..28, AddDaysAdds
    <3>2. sat = AddDays(sun, 6)
      BY <1>5, <1>6, <1>10, <2>1, <3>1, DayNumberNamesTheDate
    <3> QED BY <2>1, <3>2 DEF Sunday
  <2>2. CASE wd # 0
    <3>1. /\ AddDays(sun, -1) \in CivilDates /\ AddDays(sun, -1).hour = 0
          /\ DayNumber(AddDays(sun, -1)) = DayNumber(sun) + (-1)
      BY <1>5, -1 \in -28..28, AddDaysAdds
    <3>2. sat = AddDays(sun, -1)
      BY <1>5, <1>6, <1>11, <2>2, <3>1, DayNumberNamesTheDate
    <3> QED BY <2>2, <3>2 DEF Sunday
  <2> QED BY <2>1, <2>2
<1> QED BY <1>13, <1>14, <1>15, <1>16

(* The weekend of the placeholders is that of the week the title names,    *)
(* at the turn of the year too.                                            *)
THEOREM WeekendsAreInTheirWeek == Spec => []WeekendInCurrentWeek
<1>1. ASSUME NEW d, NEW p, p = "current_week" PROVE Placeholder(p, d) = fmtIsoWeek(ISOWeek(d))
  BY <1>1 DEF Placeholder
<1>2. ASSUME NEW d, NEW p, p = "next_week" PROVE Placeholder(p, d) = fmtIsoWeek(ISOWeek(AddDays(d, 7)))
  BY <1>2 DEF Placeholder
<1>3. WalkInv => WeekendInCurrentWeek
  BY <1>1, <1>2, WeekendOfTheWeek DEF WalkInv, WeekendInCurrentWeek
<1> QED BY <1>3, WalkInvHolds, PTL

-----------------------------------------------------------------------------
(* The placeholders along the walk.                                        *)

(* Today's and next week's name, on Mondays and on other days.             *)
LEMMA WeeksTurn ==
  ASSUME NEW d \in CivilDates, d.hour = 0, NEW t, t = Tomorrow(d)
  PROVE  /\ Placeholder("current_week", t) # Placeholder("current_week", d) <=> Weekday(t) = Monday
         /\ Placeholder("next_week", t) # Placeholder("next_week", d) <=> Weekday(t) = Monday
         /\ Weekday(t) = Monday => Placeholder("current_week", t) = Placeholder("next_week", d)
<1>1. t \in CivilDates /\ DayNumber(t) = DayNumber(d) + 1
  BY TomorrowFollows
<1>2. /\ Weekday(t) = Monday => WeekNumber(t) = WeekNumber(d) + 1
      /\ Weekday(t) # Monday => WeekNumber(t) = WeekNumber(d)
  BY TomorrowByWeeks
<1>3. PICK e, u : e = AddDays(d, 7) /\ u = AddDays(t, 7)
  OBVIOUS
<1>4. /\ e \in CivilDates /\ DayNumber(e) = DayNumber(d) + 7
      /\ u \in CivilDates /\ DayNumber(u) = DayNumber(t) + 7
  BY <1>1, <1>3, 7 \in -28..28, AddDaysAdds
<1>5. PICK n \in Int, i \in Int : n = DayNumber(d) /\ i = DayNumber(t)
  BY <1>1, DayNumberParts
<1>6. WeekNumber(e) = WeekNumber(d) + 1 /\ WeekNumber(u) = WeekNumber(t) + 1
  BY <1>4, <1>5 DEF WeekNumber, Monday
<1>7. WeekNumber(d) \in Int /\ WeekNumber(t) \in Int
  BY <1>1, WeekdayInWeek
<1>8. /\ Placeholder("current_week", d) = fmtIsoWeek(ISOWeek(d))
      /\ Placeholder("current_week", t) = fmtIsoWeek(ISOWeek(t))
      /\ Placeholder("next_week", d) = fmtIsoWeek(ISOWeek(e))
      /\ Placeholder("next_week", t) = fmtIsoWeek(ISOWeek(u))
  BY <1>3 DEF Placeholder
<1>9. /\ fmtIsoWeek(ISOWeek(t)) = fmtIsoWeek(ISOWeek(d)) <=> WeekNumber(t) = WeekNumber(d)
      /\ fmtIsoWeek(ISOWeek(u)) = fmtIsoWeek(ISOWeek(e)) <=> WeekNumber(u) = WeekNumber(e)
      /\ fmtIsoWeek(ISOWeek(t)) = fmtIsoWeek(ISOWeek(e)) <=> WeekNumber(t) = WeekNumber(e)
  BY <1>1, <1>4, WeekTokens
<1>10. /\ WeekNumber(t) = WeekNumber(d) <=> Weekday(t) # Monday
       /\ WeekNumber(u) = WeekNumber(e) <=> Weekday(t) # Monday
       /\ Weekday(t) = Monday => WeekNumber(t) = WeekNumber(e)
  BY <1>2, <1>6, <1>7
<1> QED BY <1>8, <1>9, <1>10

(* The parts of a date and of the day after.                               *)
LEMMA TomorrowInParts ==
  ASSUME NEW d \in CivilDates, d.hour = 0, NEW t, t = Tomorrow(d)
  PROVE  \E y \in Int, m \in 1..12, z \in Int, o \in 1..12 :
           /\ y = d.year /\ m = d.month /\ z = t.year /\ o = t.month
           /\ t.day = 1 => \/ z = y /\ o = m + 1
                           \/ z = y + 1 /\ m = 12 /\ o = 1
           /\ t.day # 1 => z = y /\ o = m
<1>1. t \in CivilDates
  BY TomorrowFollows
<1>2. \/ t.year = d.year /\ t.month = d.month /\ t.day = d.day + 1
      \/ t.year = d.year /\ t.month = d.month + 1 /\ t.day = 1
      \/ t.year = d.year + 1 /\ d.month = 12 /\ t.month = 1 /\ t.day = 1
  BY TomorrowByMonths
<1>3. /\ d.year \in Int /\ d.month \in 1..12 /\ d.day \in Nat /\ d.day >= 1
      /\ t.year \in Int /\ t.month \in 1..12
  BY <1>1 DEF CivilDates
<1> QED BY <1>2, <1>3

(* The names of the months, on the first of a month and on other days.     *)
LEMMA MonthsTurn ==
  ASSUME NEW d \in CivilDates, d.hour = 0, NEW t, t = Tomorrow(d)
  PROVE  /\ Placeholder("last_month", t) # Placeholder("last_month", d) <=> t.day = 1
         /\ Placeholder("current_month", t) # Placeholder("current_month", d) <=> t.day = 1
         /\ Placeholder("next_month", t) # Placeholder("next_month", d) <=> t.day = 1
         /\ t.day = 1 => /\ Placeholder("last_month", t) = Placeholder("current_month", d)
                         /\ Placeholder("current_month", t) = Placeholder("next_month", d)
<1>1. PICK y \in Int, m \in 1..12, z \in Int, o \in 1..12 :
        /\ y = d.year /\ m = d.month /\ z = t.year /\ o = t.month
        /\ t.day = 1 => (z = y /\ o = m + 1) \/ (z = y + 1 /\ m = 12 /\ o = 1)
        /\ t.day # 1 => z = y /\ o = m
  BY TomorrowInParts
<1>2. PICK p, q, r, s : /\ p = AddMonths(y, m, -1) /\ q = AddMonths(z, o, -1)
                        /\ r = AddMonths(y, m, 1) /\ s = AddMonths(z, o, 1)
  OBVIOUS
<1>3. /\ Placeholder("last_month", d) = [layout |-> "YYYY-MM", fields |-> <<p.year, p.month>>]
      /\ Placeholder("last_month", t) = [layout |-> "YYYY-MM", fields |-> <<q.year, q.month>>]
      /\ Placeholder("next_month", d) = [layout |-> "YYYY-MM", fields |-> <<r.year, r.month>>]
      /\ Placeholder("next_month", t) = [layout |-> "YYYY-MM", fields |-> <<s.year, s.month>>]
      /\ Placeholder("current_month", d) = [layout |-> "YYYY-MM", fields |-> <<y, m>>]
      /\ Placeholder("current_month", t) = [layout |-> "YYYY-MM", fields |-> <<z, o>>]
  BY <1>1, <1>2 DEF Placeholder, fmtMonthYear
<1>4. /\ p.year \in Int /\ p.month \in 1..12 /\ 12 * p.year + p.month = 12 * y + m - 1
      /\ q.year \in Int /\ q.month \in 1..12 /\ 12 * q.year + q.month = 12 * z + o - 1
      /\ r.year \in Int /\ r.month \in 1..12 /\ 12 * r.year + r.month = 12 * y + m + 1
      /\ s.year \in Int /\ s.month \in 1..12 /\ 12 * s.year + s.month = 12 * z + o + 1
  BY <1>2 DEF AddMonths
<1>5. CASE t.day = 1
  <2>1. 12 * z + o = 12 * y + m + 1
    BY <1>1, <1>5
  <2>2. /\ ~(p.year = q.year /\ p.month = q.month) /\ ~(r.year = s.year /\ r.month = s.month)
        /\ ~(y = z /\ m = o)
    BY <1>4, <2>1
  <2>3. q.year = y /\ q.month = m /\ r.year = z /\ r.month = o
    BY <1>4, <2>1
  <2> QED BY <1>3, <1>5, <2>2, <2>3
<1>6. CASE t.day # 1
  <2>1. z = y /\ o = m /\ p = q /\ r = s
    BY <1>1, <1>2, <1>6
  <2> QED BY <1>3, <1>6, <2>1
<1> QED BY <1>5, <1>6

(* A quarter starts with its first month.                                  *)
FirstOfQuarter(d) == d.day = 1 /\ d.month \in {1, 4, 7, 10}

(* The quarters of one month and the next.                                 *)
LEMMA QuartersFollow ==
  ASSUME NEW m \in 1..11, NEW o, o = m + 1
  PROVE  /\ quarterOf(12) = 4 /\ quarterOf(1) = 1
         /\ o \in {1, 4, 7, 10} => quarterOf(o) = quarterOf(m) + 1 /\ quarterOf(m) \in 1..3
         /\ o \notin {1, 4, 7, 10} => quarterOf(o) = quarterOf(m)
BY DEF quarterOf

(* The names of the quarters, on the first of a quarter and on other days. *)
LEMMA QuartersTurn ==
  ASSUME NEW d \in CivilDates, d.hour = 0, NEW t, t = Tomorrow(d)
  PROVE  /\ Placeholder("last_quarter", t) # Placeholder("last_quarter", d) <=> FirstOfQuarter(t)
         /\ Placeholder("current_quarter", t) # Placeholder("current_quarter", d) <=> FirstOfQuarter(t)
         /\ FirstOfQuarter(t) => Placeholder("last_quarter", t) = Placeholder("current_quarter", d)
<1>1. PICK y \in Int, m \in 1..12, z \in Int, o \in 1..12 :
        /\ y = d.year /\ m = d.month /\ z = t.year /\ o = t.month
        /\ t.day = 1 => (z = y /\ o = m + 1) \/ (z = y + 1 /\ m = 12 /\ o = 1)
        /\ t.day # 1 => z = y /\ o = m
  BY TomorrowInParts
<1>2. PICK g \in 1..4, h \in 1..4 : g = quarterOf(m) /\ h = quarterOf(o)
  BY QuarterIsOneOfFour
<1>3. PICK a \in Int, b \in 1..4 :
        previousQuarter(y, m) = <<a, b>> /\ IF g = 1 THEN a = y - 1 /\ b = 4 ELSE a = y /\ b = g - 1
  BY <1>2 DEF previousQuarter
<1>4. PICK e \in Int, f \in 1..4 :
        previousQuarter(z, o) = <<e, f>> /\ IF h = 1 THEN e = z - 1 /\ f = 4 ELSE e = z /\ f = h - 1
  BY <1>2 DEF previousQuarter
<1>5. /\ Placeholder("last_quarter", d) = [layout |-> "YYYYQN", fields |-> <<a, b>>]
      /\ Placeholder("last_quarter", t) = [layout |-> "YYYYQN", fields |-> <<e, f>>]
      /\ Placeholder("current_quarter", d) = [layout |-> "YYYYQN", fields |-> <<y, g>>]
      /\ Placeholder("current_quarter", t) = [layout |-> "YYYYQN", fields |-> <<z, h>>]
  BY <1>1, <1>2, <1>3, <1>4 DEF Placeholder, fmtQuarter
<1>6. CASE FirstOfQuarter(t)
  <2>1. t.day = 1 /\ o \in {1, 4, 7, 10}
    BY <1>1, <1>6 DEF FirstOfQuarter
  <2>2. (z = y + 1 /\ m = 12 /\ o = 1) \/ (z = y /\ m \in 1..11 /\ o = m + 1)
    BY <1>1, <2>1
  <2>3. IF h = 1 THEN g = 4 /\ z = y + 1 ELSE g = h - 1 /\ z = y
    <3>1. CASE z = y + 1 /\ m = 12 /\ o = 1
      BY <1>2, <3>1, 1 \in 1..11, QuartersFollow
    <3>2. CASE z = y /\ m \in 1..11 /\ o = m + 1
      <4>1. h = g + 1 /\ g \in 1..3
        BY <1>2, <2>1, <3>2, QuartersFollow
      <4> QED BY <3>2, <4>1
    <3> QED BY <2>2, <3>1, <3>2
  <2>4. e = y /\ f = g
    BY <1>4, <2>3
  <2>5. ~(z = y /\ h = g)
    BY <2>3
  <2>6. ~(e = a /\ f = b)
    BY <1>3, <2>4
  <2> QED BY <1>5, <1>6, <2>4, <2>5, <2>6
<1>7. CASE ~FirstOfQuarter(t)
  <2>1. t.day # 1 \/ o \notin {1, 4, 7, 10}
    BY <1>1, <1>7 DEF FirstOfQuarter
  <2>2. z = y /\ h = g
    <3>1. (z = y /\ o = m) \/ (z = y /\ m \in 1..11 /\ o = m + 1 /\ o \notin {1, 4, 7, 10})
      BY <1>1, <2>1
    <3> QED BY <1>2, <3>1, QuartersFollow
  <2>3. e = a /\ f = b
    BY <1>3, <1>4, <2>2
  <2> QED BY <1>5, <1>7, <2>2, <2>3
<1> QED BY <1>6, <1>7

(* The names of the years, on New Year's Day and on other days.            *)
LEMMA YearsTurn ==
  ASSUME NEW d \in CivilDates, d.hour = 0, NEW t, t = Tomorrow(d)
  PROVE  /\ \A name \in {"last_year", "current_year", "next_year"} :
              Placeholder(name, t) # Placeholder(name, d) <=> t.day = 1 /\ t.month = 1
         /\ t.day = 1 /\ t.month = 1 =>
              /\ Placeholder("last_year", t) = Placeholder("current_year", d)
              /\ Placeholder("current_year", t) = Placeholder("next_year", d)
<1>1. PICK y \in Int, m \in 1..12, z \in Int, o \in 1..12 :
        /\ y = d.year /\ m = d.month /\ z = t.year /\ o = t.month
        /\ t.day = 1 => (z = y /\ o = m + 1) \/ (z = y + 1 /\ m = 12 /\ o = 1)
        /\ t.day # 1 => z = y /\ o = m
  BY TomorrowInParts
<1>2. /\ Placeholder("last_year", d) = [layout |-> "YYYY", fields |-> <<y - 1>>]
      /\ Placeholder("last_year", t) = [layout |-> "YYYY", fields |-> <<z - 1>>]
      /\ Placeholder("current_year", d) = [layout |-> "YYYY", fields |-> <<y>>]
      /\ Placeholder("current_year", t) = [layout |-> "YYYY", fields |-> <<z>>]
      /\ Placeholder("next_year", d) = [layout |-> "YYYY", fields |-> <<y + 1>>]
      /\ Placeholder("next_year", t) = [layout |-> "YYYY", fields |-> <<z + 1>>]
  BY <1>1 DEF Placeholder, fmtYear
<1>3. z = IF t.day = 1 /\ t.month = 1 THEN y + 1 ELSE y
  BY <1>1
<1>4. CASE t.day = 1 /\ t.month = 1
  <2>1. z = y + 1 /\ z - 1 = y
    BY <1>3, <1>4
  <2>2. z - 1 # y - 1 /\ z # y /\ z + 1 # y + 1
    BY <2>1
  <2> QED BY <1>2, <1>4, <2>1, <2>2
<1>5. CASE ~(t.day = 1 /\ t.month = 1)
  <2>1. z = y
    BY <1>3, <1>5
  <2> QED BY <1>2, <1>5, <2>1
<1> QED BY <1>4, <1>5

(* A title reads alike on every day of a period, and what it calls the     *)
(* next or the last period is what that period calls the current one.      *)
THEOREM PlaceholdersTurn == Spec => PlaceholdersTurnWithPeriods
<1> DEFINE Turns(k) ==
             LET names  == Neighbours(k)
                 begins == PeriodStarts(k, date', weekday')
             IN  /\ \A i \in 1..Len(names) :
                      Placeholder(names[i], date') # Placeholder(names[i], date) <=> begins
                 /\ begins => \A i \in 2..Len(names) :
                      Placeholder(names[i - 1], date') = Placeholder(names[i], date)
<1>1. ASSUME WalkInv, NextDay, NEW k \in SpanKinds
      PROVE  Turns(k)
  <2>1. date \in CivilDates /\ date.hour = 0 /\ date' = Tomorrow(date)
    BY <1>1 DEF WalkInv, NextDay
  <2>2. weekday' = Weekday(date')
    BY <1>1, WalkGoesOn DEF WalkInv
  <2>3. CASE k = "weekly"
    <3>1. PeriodStarts(k, date', weekday') <=> weekday' = Monday
      BY <2>3 DEF PeriodStarts, DayKinds
    <3>2. Neighbours(k) = <<"current_week", "next_week">>
      BY <2>3 DEF Neighbours
    <3>3. /\ Placeholder("current_week", date') # Placeholder("current_week", date) <=> weekday' = Monday
          /\ Placeholder("next_week", date') # Placeholder("next_week", date) <=> weekday' = Monday
          /\ weekday' = Monday => Placeholder("current_week", date') = Placeholder("next_week", date)
      BY <2>1, <2>2, WeeksTurn
    <3> QED BY <3>1, <3>2, <3>3
  <2>4. CASE k = "monthly"
    <3>1. PeriodStarts(k, date', weekday') <=> date'.day = 1
      BY <2>4 DEF PeriodStarts, DayKinds
    <3>2. Neighbours(k) = <<"last_month", "current_month", "next_month">>
      BY <2>4 DEF Neighbours
    <3>3. /\ Placeholder("last_month", date') # Placeholder("last_month", date) <=> date'.day = 1
          /\ Placeholder("current_month", date') # Placeholder("current_month", date) <=> date'.day = 1
          /\ Placeholder("next_month", date') # Placeholder("next_month", date) <=> date'.day = 1
          /\ date'.day = 1 => /\ Placeholder("last_month", date') = Placeholder("current_month", date)
                              /\ Placeholder("current_month", date') = Placeholder("next_month", date)
      BY <2>1, MonthsTurn
    <3> QED BY <3>1, <3>2, <3>3
  <2>5. CASE k = "quarterly"
    <3>1. PeriodStarts(k, date', weekday') <=> FirstOfQuarter(date')
      BY <2>5 DEF PeriodStarts, FirstOfQuarter, DayKinds
    <3>2. Neighbours(k) = <<"last_quarter", "current_quarter">>
      BY <2>5 DEF Neighbours
    <3>3. /\ Placeholder("last_quarter", date') # Placeholder("last_quarter", date)
                <=> FirstOfQuarter(date')
          /\ Placeholder("current_quarter", date') # Placeholder("current_quarter", date)
                <=> FirstOfQuarter(date')
          /\ FirstOfQuarter(date') => Placeholder("last_quarter", date') = Placeholder("current_quarter", date)
      BY <2>1, QuartersTurn
    <3> QED BY <3>1, <3>2, <3>3
  <2>6. CASE k = "yearly"
    <3>1. PeriodStarts(k, date', weekday') <=> date'.day = 1 /\ date'.month = 1
      BY <2>6 DEF PeriodStarts, DayKinds
    <3>2. Neighbours(k) = <<"last_year", "current_year", "next_year">>
      BY <2>6 DEF Neighbours
    <3>3. /\ \A name \in {"last_year", "current_year", "next_year"} :
               Placeholder(name, date') # Placeholder(name, date) <=> date'.day = 1 /\ date'.month = 1
          /\ date'.day = 1 /\ date'.month = 1 =>
               /\ Placeholder("last_year", date') = Placeholder("current_year", date)
               /\ Placeholder("current_year", date') = Placeholder("next_year", date)
      BY <2>1, YearsTurn
    <3> QED BY <3>1, <3>2, <3>3
  <2> QED BY <2>3, <2>4, <2>5, <2>6 DEF SpanKinds, PeriodKinds
<1>2. WalkInv /\ [NextDay]_vars => [\A k \in SpanKinds : Turns(k)]_vars
  BY <1>1
<1> QED BY <1>2, WalkInvHolds, PTL DEF Spec, PlaceholdersTurnWithPeriods

-----------------------------------------------------------------------------
(* The layout a kind prints its tokens in.                                 *)
LayoutOf(kind) ==
  CASE kind = "daily"              -> "YYYY-MM-DD"
    [] kind = "hourly"             -> "YYYYMMDDHH"
    [] kind = "weekly"             -> "YYYYWNN"
    [] kind = "weekday"            -> "YYYYWNN-ddd"
    [] kind = "monthly"            -> "YYYY-MM"
    [] kind = "quarterly"          -> "YYYYQN"
    [] kind \in {"yearly", "ondate"} -> "YYYY"

(* Every kind has one layout, whatever the date and the offset.            *)
LEMMA KindsHaveLayouts ==
  ASSUME NEW k \in AllRecurrenceKinds, NEW n, NEW d \in CivilDates
  PROVE  Build(Def(k, n), d).layout = LayoutOf(k)
<1>0. Def(k, n).kind = k /\ Def(k, n).weekdays = 0..6 /\ Def(k, n).offset = n
  BY DEF Def
<1>1. PICK def : def = Def(k, n) /\ def.kind = k /\ def.weekdays = 0..6 /\ def.offset = n
  BY <1>0
<1>2. CASE k = "daily"
  BY <1>1, <1>2 DEF Build, LayoutOf, fmtDate
<1>3. CASE k = "hourly"
  BY <1>1, <1>3 DEF Build, LayoutOf, fmtHourToken
<1>4. CASE k = "weekly"
  BY <1>1, <1>4 DEF Build, LayoutOf, fmtIsoWeek
<1>5. CASE k = "weekday"
  <2>1. Weekday(d) \in 0..6
    BY WeekdayInWeek
  <2> QED BY <1>1, <1>5, <2>1 DEF Build, LayoutOf, fmtWeekday
<1>6. CASE k = "monthly"
  BY <1>1, <1>6 DEF Build, LayoutOf, MonthToken, fmtMonthYear
<1>7. CASE k = "quarterly"
  BY <1>1, <1>7 DEF Build, LayoutOf, QuarterToken, fmtQuarter
<1>8. CASE k \in {"yearly", "ondate"}
  BY <1>1, <1>8 DEF Build, LayoutOf, YearToken, fmtYear
<1> QED BY <1>2, <1>3, <1>4, <1>5, <1>6, <1>7, <1>8 DEF AllRecurrenceKinds, AlwaysFire, PeriodKinds

(* A layout names its kind, but for the year.                              *)
LEMMA LayoutsNameKinds ==
  ASSUME NEW k \in AllRecurrenceKinds, NEW l \in AllRecurrenceKinds, k # l
  PROVE  LayoutOf(k) = LayoutOf(l) <=> {k, l} = {"yearly", "ondate"}
BY DEF AllRecurrenceKinds, AlwaysFire, PeriodKinds, LayoutOf

(* An edited recurrence gets its task all the same: no two kinds print one *)
(* token on one date, except yearly and ondate.                            *)
THEOREM KindsShareTheYearOnly == Spec => []KindsShareOnlyTheYear
<1>1. ASSUME WalkInv, NEW k \in AllRecurrenceKinds, NEW l \in AllRecurrenceKinds, k # l
      PROVE  {Build(Def(k, o), date) : o \in Offsets} \intersect {Build(Def(l, o), date) : o \in Offsets} # {}
               <=> {k, l} = {"yearly", "ondate"}
  <2>1. date \in CivilDates
    BY <1>1 DEF WalkInv
  <2>2. ASSUME NEW o \in Offsets, NEW p \in Offsets, Build(Def(k, o), date) = Build(Def(l, p), date)
        PROVE  {k, l} = {"yearly", "ondate"}
    <3>1. LayoutOf(k) = LayoutOf(l)
      BY <2>1, <2>2, KindsHaveLayouts
    <3> QED BY <1>1, <3>1, LayoutsNameKinds
  <2>3. ASSUME {k, l} = {"yearly", "ondate"}
        PROVE  Build(Def(k, 0), date) = Build(Def(l, 0), date)
    <3>1. date.year + 0 = date.year
      BY <2>1 DEF CivilDates
    <3>2. Build(Def("yearly", 0), date) = fmtYear(date.year)
      BY <3>1 DEF Build, Def, YearToken
    <3>3. Build(Def("ondate", 0), date) = fmtYear(date.year)
      BY DEF Build, Def
    <3>4. (k = "yearly" /\ l = "ondate") \/ (k = "ondate" /\ l = "yearly")
      BY <1>1, <2>3
    <3> QED BY <3>2, <3>3, <3>4
  <2>4. 0 \in Offsets
    BY OffsetsAssumption
  <2> QED BY <2>2, <2>3, <2>4
<1>2. WalkInv => KindsShareOnlyTheYear
  BY <1>1 DEF KindsShareOnlyTheYear
<1> QED BY <1>2, WalkInvHolds, PTL
=============================================================================
