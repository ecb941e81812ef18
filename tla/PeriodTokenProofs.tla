------------------------- MODULE PeriodTokenProofs -------------------------
(***************************************************************************)
(* Facts about the calendar and the tokens, for every date of every year   *)
(* and every offset.                                                       *)
(***************************************************************************)
EXTENDS PeriodToken, TLAPS

CivilDates ==
  {d \in [year : Int, month : 1..12, day : Nat, hour : Nat] : d.day \in 1..DaysIn(d.year, d.month)}

(* Days before a year begins, and the length of a year.                    *)
YearStart(y) == 365 * (y - 1) + (y - 1) \div 4 - (y - 1) \div 100 + (y - 1) \div 400

YearLength(y) == IF IsLeap(y) THEN 366 ELSE 365

(* Days of the year before a month begins.                                 *)
MonthStart(y, m) ==
  (367 * m - 362) \div 12 - (IF m <= 2 THEN 0 ELSE IF IsLeap(y) THEN 1 ELSE 2)

(* Weeks run from Monday to Sunday.                                        *)
WeekNumber(d) == (DayNumber(d) - Monday) \div 7

SameDay(d, e) == d.year = e.year /\ d.month = e.month /\ d.day = e.day

Before(d, e) ==
  \/ d.year < e.year
  \/ d.year = e.year /\ d.month < e.month
  \/ d.year = e.year /\ d.month = e.month /\ d.day < e.day

-----------------------------------------------------------------------------
(* A month has 28 days at least and 31 at most.                            *)
LEMMA MonthLength ==
  ASSUME NEW y \in Int, NEW m \in 1..12
  PROVE  DaysIn(y, m) \in 28..31
BY DEF DaysIn

(* The months of a year fill it without gaps.                              *)
LEMMA MonthsFollow ==
  ASSUME NEW y \in Int, NEW m \in 1..12
  PROVE  /\ MonthStart(y, m) \in Nat
         /\ m < 12 => MonthStart(y, m + 1) = MonthStart(y, m) + DaysIn(y, m)
         /\ m = 1 => MonthStart(y, m) = 0
         /\ m = 12 => MonthStart(y, m) + DaysIn(y, m) = YearLength(y)
BY DEF MonthStart, DaysIn, YearLength

(* Later months begin later.                                               *)
LEMMA MonthsGrow ==
  ASSUME NEW y \in Int, NEW m \in 1..12, NEW n \in 1..12, m < n
  PROVE  MonthStart(y, m) + DaysIn(y, m) <= MonthStart(y, n)
BY DEF MonthStart, DaysIn

(* A year ends where the next begins.                                      *)
LEMMA YearsFollow ==
  ASSUME NEW y \in Int
  PROVE  YearStart(y) \in Int /\ YearStart(y + 1) = YearStart(y) + YearLength(y)
BY DEF YearStart, YearLength, IsLeap

(* Later years begin later.                                                *)
LEMMA YearsGrow ==
  ASSUME NEW y \in Int, NEW z \in Int, y < z
  PROVE  YearStart(y) + YearLength(y) <= YearStart(z)
<1>1. (z - 1) \div 100 - y \div 100 <= (z - 1) - y
  OBVIOUS
<1>2. YearStart(y + 1) <= YearStart(z)
  BY <1>1 DEF YearStart
<1> QED BY <1>2, YearsFollow

(* A date's day number is the start of its year, its month and its day.    *)
LEMMA DayNumberParts ==
  ASSUME NEW d \in CivilDates
  PROVE  /\ d.year \in Int /\ d.month \in 1..12 /\ d.day \in 1..DaysIn(d.year, d.month)
         /\ DaysIn(d.year, d.month) \in 28..31
         /\ YearDay(d) = MonthStart(d.year, d.month) + d.day
         /\ DayNumber(d) = YearStart(d.year) + YearDay(d)
         /\ YearDay(d) \in 1..YearLength(d.year)
         /\ DayNumber(d) \in Int
<1>1. d.year \in Int /\ d.month \in 1..12 /\ d.day \in 1..DaysIn(d.year, d.month)
  BY DEF CivilDates
<1>2. DaysIn(d.year, d.month) \in 28..31
  BY <1>1, MonthLength
<1>3. MonthStart(d.year, d.month) \in Nat
  BY <1>1, MonthsFollow
<1>4. YearDay(d) = MonthStart(d.year, d.month) + d.day
  BY <1>1, <1>2 DEF YearDay, MonthStart
<1>5. DayNumber(d) = YearStart(d.year) + YearDay(d)
  BY <1>1, <1>2, <1>3, <1>4 DEF DayNumber, YearStart
<1>6. MonthStart(d.year, d.month) + DaysIn(d.year, d.month) <= YearLength(d.year)
  BY <1>1 DEF MonthStart, DaysIn, YearLength
<1>7. YearLength(d.year) \in {365, 366}
  BY DEF YearLength
<1>8. YearDay(d) \in 1..YearLength(d.year)
  BY <1>1, <1>2, <1>3, <1>4, <1>6, <1>7
<1>9. DayNumber(d) \in Int
  BY <1>1, <1>5, <1>7, <1>8, YearsFollow
<1> QED BY <1>1, <1>2, <1>4, <1>5, <1>8, <1>9

(* Counting days keeps the order of dates.                                 *)
LEMMA DayNumberGrows ==
  ASSUME NEW d \in CivilDates, NEW e \in CivilDates, Before(d, e)
  PROVE  DayNumber(d) < DayNumber(e)
<1> USE DayNumberParts
<1>1. CASE d.year < e.year
  <2>1. YearStart(d.year) + YearLength(d.year) <= YearStart(e.year)
    BY <1>1, YearsGrow
  <2>2. YearLength(d.year) \in {365, 366} /\ YearLength(e.year) \in {365, 366}
    BY DEF YearLength
  <2> QED BY <2>1, <2>2, YearsFollow
<1>2. ASSUME d.year = e.year PROVE DayNumber(e) - DayNumber(d) = YearDay(e) - YearDay(d)
  <2>1. YearStart(d.year) \in Int /\ YearLength(d.year) \in {365, 366}
    BY YearsFollow DEF YearLength
  <2> QED BY <1>2, <2>1
<1>3. CASE d.year = e.year /\ d.month < e.month
  <2>1. MonthStart(d.year, d.month) + DaysIn(d.year, d.month) <= MonthStart(d.year, e.month)
    BY <1>3, MonthsGrow
  <2>2. MonthStart(d.year, d.month) \in Nat /\ MonthStart(d.year, e.month) \in Nat
    BY <1>3, MonthsFollow
  <2>3. YearDay(d) < YearDay(e)
    BY <1>3, <2>1, <2>2
  <2> QED BY <1>2, <1>3, <2>2, <2>3
<1>4. CASE d.year = e.year /\ d.month = e.month /\ d.day < e.day
  <2>1. MonthStart(d.year, d.month) \in Nat
    BY MonthsFollow
  <2>2. YearDay(d) < YearDay(e)
    BY <1>4, <2>1
  <2> QED BY <1>2, <1>4, <2>1, <2>2
<1> QED BY <1>1, <1>3, <1>4 DEF Before

(* One of two dates comes first, or they are of one day.                   *)
LEMMA DayNumberIsOfOneDay ==
  ASSUME NEW d \in CivilDates, NEW e \in CivilDates
  PROVE  DayNumber(d) = DayNumber(e) <=> SameDay(d, e)
<1>1. SameDay(d, e) \/ Before(d, e) \/ Before(e, d)
  BY DayNumberParts DEF SameDay, Before
<1>2. SameDay(d, e) => DayNumber(d) = DayNumber(e)
  BY DEF SameDay, DayNumber, YearDay
<1> QED BY <1>1, <1>2, DayNumberGrows, DayNumberParts

-----------------------------------------------------------------------------
(* The month before ends where this one begins, in the old year if need be. *)
LEMMA PreviousMonth ==
  ASSUME NEW y \in Int, NEW m \in 1..12, NEW p, p = AddMonths(y, m, -1)
  PROVE  /\ p.year \in Int /\ p.month \in 1..12
         /\ YearStart(p.year) + MonthStart(p.year, p.month) + DaysIn(p.year, p.month)
              = YearStart(y) + MonthStart(y, m)
<1>1. CASE m < 2
  <2>1. AddMonths(y, m, -1) = [year |-> y - 1, month |-> 12]
    BY <1>1 DEF AddMonths
  <2> DEFINE z == y - 1
  <2>2. z \in Int /\ z + 1 = y
    OBVIOUS
  <2> HIDE DEF z
  <2>3. YearStart(z + 1) = YearStart(z) + YearLength(z) /\ YearStart(z) \in Int
    BY <2>2, YearsFollow
  <2>4. /\ MonthStart(z, 12) + DaysIn(z, 12) = YearLength(z)
        /\ MonthStart(z, 12) \in Nat /\ DaysIn(z, 12) \in 28..31
    <3>1. z \in Int /\ 12 \in 1..12
      BY <2>2
    <3>2. MonthStart(z, 12) + DaysIn(z, 12) = YearLength(z) /\ MonthStart(z, 12) \in Nat
      BY <3>1, MonthsFollow
    <3>3. DaysIn(z, 12) \in 28..31
      BY <3>1, MonthLength
    <3> QED BY <3>2, <3>3
  <2>5. MonthStart(y, 1) = 0
    BY MonthsFollow
  <2>6. p.year = z /\ p.month = 12
    BY <2>1 DEF z
  <2>7. m = 1
    BY <1>1
  <2> QED BY <2>2, <2>3, <2>4, <2>5, <2>6, <2>7
<1>2. CASE m > 1
  <2>1. p = [year |-> y, month |-> m - 1]
    BY <1>2 DEF AddMonths
  <2> DEFINE n == m - 1
  <2>2. n \in 1..12 /\ n < 12 /\ n + 1 = m
    BY <1>2
  <2>3. p.year = y /\ p.month = n
    BY <2>1
  <2> HIDE DEF n
  <2>4. /\ MonthStart(y, n + 1) = MonthStart(y, n) + DaysIn(y, n)
        /\ MonthStart(y, n) \in Nat /\ DaysIn(y, n) \in 28..31 /\ YearStart(y) \in Int
    BY <2>2, MonthsFollow, MonthLength, YearsFollow
  <2> QED BY <2>2, <2>3, <2>4
<1> QED BY <1>1, <1>2

(* The next month begins where this one ends.                              *)
LEMMA NextMonth ==
  ASSUME NEW y \in Int, NEW m \in 1..12, NEW q, q = AddMonths(y, m, 1)
  PROVE  /\ q.year \in Int /\ q.month \in 1..12
         /\ YearStart(q.year) + MonthStart(q.year, q.month)
              = YearStart(y) + MonthStart(y, m) + DaysIn(y, m)
<1>1. CASE m = 12
  <2>1. q = [year |-> y + 1, month |-> 1]
    BY <1>1 DEF AddMonths
  <2>2. YearStart(y + 1) = YearStart(y) + YearLength(y) /\ YearStart(y) \in Int
    BY YearsFollow
  <2>3. /\ MonthStart(y, 12) + DaysIn(y, 12) = YearLength(y)
        /\ MonthStart(y, 12) \in Nat /\ DaysIn(y, 12) \in 28..31
    BY MonthsFollow, MonthLength
  <2>4. MonthStart(y + 1, 1) = 0
    BY MonthsFollow
  <2>5. q.year = y + 1 /\ q.month = 1
    BY <2>1
  <2> QED BY <1>1, <2>2, <2>3, <2>4, <2>5
<1>2. CASE m < 12
  <2>1. q = [year |-> y, month |-> m + 1]
    BY <1>2 DEF AddMonths
  <2>2. /\ MonthStart(y, m + 1) = MonthStart(y, m) + DaysIn(y, m)
        /\ MonthStart(y, m) \in Nat /\ DaysIn(y, m) \in 28..31 /\ YearStart(y) \in Int
    BY <1>2, MonthsFollow, MonthLength, YearsFollow
  <2>3. q.year = y /\ q.month = m + 1
    BY <2>1
  <2> QED BY <1>2, <2>2, <2>3
<1> QED BY <1>1, <1>2

(* A date of its parts.                                                    *)
LEMMA NewDateIsCivil ==
  ASSUME NEW y \in Int, NEW m \in 1..12, NEW dd \in 1..DaysIn(y, m)
  PROVE  /\ NewDate(y, m, dd) \in CivilDates
         /\ DayNumber(NewDate(y, m, dd)) = YearStart(y) + MonthStart(y, m) + dd
<1>1. DaysIn(y, m) \in 28..31
  BY MonthLength
<1>2. NewDate(y, m, dd) \in CivilDates
  BY <1>1 DEF NewDate, CivilDates
<1>3. MonthStart(y, m) \in Nat /\ YearStart(y) \in Int
  BY MonthsFollow, YearsFollow
<1> QED BY <1>1, <1>2, <1>3, DayNumberParts DEF NewDate

(* Adding a few days adds to the day number, across the ends of months and *)
(* years.                                                                  *)
LEMMA AddDaysAdds ==
  ASSUME NEW d \in CivilDates, NEW n \in -28..28
  PROVE  /\ AddDays(d, n) \in CivilDates
         /\ AddDays(d, n).hour = 0
         /\ DayNumber(AddDays(d, n)) = DayNumber(d) + n
<1> DEFINE y == d.year
           m == d.month
           day == d.day + n
           p == AddMonths(y, m, -1)
           q == AddMonths(y, m, 1)
<1>1. /\ y \in Int /\ m \in 1..12 /\ d.day \in 1..DaysIn(y, m)
      /\ DaysIn(y, m) \in 28..31
      /\ DayNumber(d) = YearStart(y) + MonthStart(y, m) + d.day
      /\ YearStart(y) \in Int /\ MonthStart(y, m) \in Nat
  <2>1. y \in Int /\ m \in 1..12
    BY DayNumberParts
  <2>2. YearStart(y) \in Int /\ MonthStart(y, m) \in Nat
    BY <2>1, YearsFollow, MonthsFollow
  <2>3. d.day \in 1..DaysIn(y, m) /\ DaysIn(y, m) \in 28..31
    BY DayNumberParts
  <2>4. DayNumber(d) = YearStart(y) + (MonthStart(y, m) + d.day)
    BY DayNumberParts
  <2> HIDE DEF y, m
  <2> QED BY <2>1, <2>2, <2>3, <2>4
<1>a. y = d.year /\ m = d.month
  OBVIOUS
<1> HIDE DEF y, m
<1>2. CASE day < 1
  <2> DEFINE k == day + DaysIn(p.year, p.month)
  <2>1. AddDays(d, n) = NewDate(p.year, p.month, k)
    BY <1>1, <1>2, <1>a DEF AddDays
  <2>2. p.year \in Int /\ p.month \in 1..12
    BY <1>1, PreviousMonth
  <2> HIDE DEF p
  <2>3. DaysIn(p.year, p.month) \in 28..31
    BY <2>2, MonthLength
  <2>4. k \in 1..DaysIn(p.year, p.month)
    BY <1>1, <1>2, <2>3
  <2>5. /\ AddDays(d, n) \in CivilDates
        /\ DayNumber(AddDays(d, n)) = YearStart(p.year) + MonthStart(p.year, p.month) + k
    BY <2>1, <2>2, <2>4, NewDateIsCivil
  <2>6. YearStart(p.year) + MonthStart(p.year, p.month) + DaysIn(p.year, p.month)
          = YearStart(y) + MonthStart(y, m)
    BY <1>1, PreviousMonth DEF p
  <2>7. YearStart(p.year) \in Int /\ MonthStart(p.year, p.month) \in Nat
    BY <2>2, YearsFollow, MonthsFollow
  <2>8. DayNumber(AddDays(d, n)) = DayNumber(d) + n
    BY <1>1, <2>3, <2>5, <2>6, <2>7
  <2>9. AddDays(d, n).hour = 0
    BY <2>1 DEF NewDate
  <2> QED BY <2>5, <2>8, <2>9
<1>3. CASE day > DaysIn(y, m)
  <2> DEFINE k == day - DaysIn(y, m)
  <2>1. AddDays(d, n) = NewDate(q.year, q.month, k)
    BY <1>1, <1>3, <1>a DEF AddDays
  <2>2. q.year \in Int /\ q.month \in 1..12
    BY <1>1, NextMonth
  <2> HIDE DEF q
  <2>3. DaysIn(q.year, q.month) \in 28..31
    BY <2>2, MonthLength
  <2>4. k \in 1..DaysIn(q.year, q.month)
    BY <1>1, <1>3, <2>3
  <2>5. /\ AddDays(d, n) \in CivilDates
        /\ DayNumber(AddDays(d, n)) = YearStart(q.year) + MonthStart(q.year, q.month) + k
    BY <2>1, <2>2, <2>4, NewDateIsCivil
  <2>6. YearStart(q.year) + MonthStart(q.year, q.month)
          = YearStart(y) + MonthStart(y, m) + DaysIn(y, m)
    BY <1>1, NextMonth DEF q
  <2>7. YearStart(q.year) \in Int /\ MonthStart(q.year, q.month) \in Nat
    BY <2>2, YearsFollow, MonthsFollow
  <2>8. DayNumber(AddDays(d, n)) = DayNumber(d) + n
    BY <1>1, <2>3, <2>5, <2>6, <2>7
  <2>9. AddDays(d, n).hour = 0
    BY <2>1 DEF NewDate
  <2> QED BY <2>5, <2>8, <2>9
<1>4. CASE day \in 1..DaysIn(y, m)
  <2>1. AddDays(d, n) = NewDate(y, m, day)
    BY <1>1, <1>4, <1>a DEF AddDays
  <2>2. /\ AddDays(d, n) \in CivilDates
        /\ DayNumber(AddDays(d, n)) = YearStart(y) + MonthStart(y, m) + day
    BY <1>1, <1>4, <2>1, NewDateIsCivil
  <2>3. AddDays(d, n).hour = 0
    BY <2>1 DEF NewDate
  <2> QED BY <1>1, <2>2, <2>3
<1> QED BY <1>1, <1>2, <1>3, <1>4

(* Two dates without an hour and with one day number are equal.            *)
LEMMA DayNumberNamesTheDate ==
  ASSUME NEW d \in CivilDates, NEW e \in CivilDates,
         d.hour = 0, e.hour = 0, DayNumber(d) = DayNumber(e)
  PROVE  d = e
<1>1. SameDay(d, e)
  BY DayNumberIsOfOneDay
<1> QED BY <1>1 DEF SameDay, CivilDates

-----------------------------------------------------------------------------
(* The weekday, and the week's first and fourth day.                       *)
LEMMA WeekdayInWeek ==
  ASSUME NEW d \in CivilDates
  PROVE  /\ Weekday(d) \in 0..6
         /\ WeekNumber(d) \in Int
         /\ DayNumber(d) = 7 * WeekNumber(d) + Monday + ((Weekday(d) + 6) % 7)
         /\ (Weekday(d) + 6) % 7 = IF Weekday(d) = Sunday THEN 6 ELSE Weekday(d) - 1
BY DayNumberParts DEF Weekday, WeekNumber, Monday, Sunday

ThursdayOf(d) == AddDays(d, Thursday - (IF Weekday(d) = Sunday THEN 7 ELSE Weekday(d)))

(* The Thursday of the week, by which its year goes.                       *)
LEMMA ThursdayIsOfTheWeek ==
  ASSUME NEW d \in CivilDates
  PROVE  /\ ThursdayOf(d) \in CivilDates /\ ThursdayOf(d).hour = 0
         /\ DayNumber(ThursdayOf(d)) = 7 * WeekNumber(d) + Thursday
<1>1. Thursday - (IF Weekday(d) = Sunday THEN 7 ELSE Weekday(d)) \in -28..28
  BY WeekdayInWeek DEF Thursday
<1>2. /\ ThursdayOf(d) \in CivilDates /\ ThursdayOf(d).hour = 0
      /\ DayNumber(ThursdayOf(d))
           = DayNumber(d) + (Thursday - (IF Weekday(d) = Sunday THEN 7 ELSE Weekday(d)))
  BY <1>1, AddDaysAdds DEF ThursdayOf
<1> QED BY <1>2, WeekdayInWeek DEF Thursday, Sunday, Monday

(* deferDateFor's Monday.                                                  *)
LEMMA MondayIsOfTheWeek ==
  ASSUME NEW d \in CivilDates
  PROVE  /\ mondayOfISOWeek(d) \in CivilDates /\ mondayOfISOWeek(d).hour = 0
         /\ DayNumber(mondayOfISOWeek(d)) = 7 * WeekNumber(d) + Monday
<1>1. (Weekday(d) - Monday + 7) % 7 = (Weekday(d) + 6) % 7 /\ (Weekday(d) + 6) % 7 \in 0..6
  BY WeekdayInWeek DEF Monday
<1>2. -((Weekday(d) - Monday + 7) % 7) \in -28..28
  BY <1>1
<1>3. /\ mondayOfISOWeek(d) \in CivilDates /\ mondayOfISOWeek(d).hour = 0
      /\ DayNumber(mondayOfISOWeek(d)) = DayNumber(d) + (-((Weekday(d) - Monday + 7) % 7))
  BY <1>2, AddDaysAdds DEF mondayOfISOWeek
<1> QED BY <1>1, <1>3, WeekdayInWeek DEF Monday

(* Two dates have the same ISO week, in number and year, exactly when they *)
(* lie in one run from Monday to Sunday.                                   *)
LEMMA ISOWeekIsTheWeek ==
  ASSUME NEW d \in CivilDates, NEW e \in CivilDates
  PROVE  ISOWeek(d) = ISOWeek(e) <=> WeekNumber(d) = WeekNumber(e)
<1> DEFINE s == ThursdayOf(d)
           t == ThursdayOf(e)
<1>1. /\ s \in CivilDates /\ s.hour = 0 /\ DayNumber(s) = 7 * WeekNumber(d) + Thursday
      /\ t \in CivilDates /\ t.hour = 0 /\ DayNumber(t) = 7 * WeekNumber(e) + Thursday
      /\ WeekNumber(d) \in Int /\ WeekNumber(e) \in Int
  BY ThursdayIsOfTheWeek, WeekdayInWeek
<1>2. /\ ISOWeek(d) = [year |-> s.year, week |-> (YearDay(s) - 1) \div 7 + 1]
      /\ ISOWeek(e) = [year |-> t.year, week |-> (YearDay(t) - 1) \div 7 + 1]
  BY DEF ISOWeek, ThursdayOf
<1> HIDE DEF s, t
<1>3. ASSUME WeekNumber(d) = WeekNumber(e) PROVE ISOWeek(d) = ISOWeek(e)
  <2>1. s = t
    BY <1>1, <1>3, DayNumberNamesTheDate
  <2> QED BY <1>2, <2>1
<1>4. ASSUME ISOWeek(d) = ISOWeek(e) PROVE WeekNumber(d) = WeekNumber(e)
  <2>1. s.year = t.year /\ (YearDay(s) - 1) \div 7 = (YearDay(t) - 1) \div 7
    <3>1. YearDay(s) \in Int /\ YearDay(t) \in Int
      BY <1>1, DayNumberParts DEF YearLength
    <3> QED BY <1>2, <1>4, <3>1
  <2>2. DayNumber(s) - DayNumber(t) = YearDay(s) - YearDay(t)
    <3>1. YearStart(s.year) \in Int /\ YearLength(s.year) \in {365, 366}
      BY <1>1, DayNumberParts, YearsFollow DEF YearLength
    <3> QED BY <1>1, <2>1, <3>1, DayNumberParts
  <2>3. YearDay(s) \in Int /\ YearDay(t) \in Int
    BY <1>1, DayNumberParts DEF YearLength
  <2> QED BY <1>1, <2>1, <2>2, <2>3 DEF Thursday
<1> QED BY <1>3, <1>4

-----------------------------------------------------------------------------
(* What the tokens of one layout tell apart.                               *)

(* The day.                                                                *)
LEMMA DateTokens ==
  ASSUME NEW d \in CivilDates, NEW e \in CivilDates
  PROVE  fmtDate(d) = fmtDate(e) <=> SameDay(d, e)
BY DEF fmtDate, SameDay

(* The hour.                                                               *)
LEMMA HourTokens ==
  ASSUME NEW d \in CivilDates, NEW e \in CivilDates
  PROVE  fmtHourToken(d) = fmtHourToken(e) <=> SameDay(d, e) /\ d.hour = e.hour
BY DEF fmtHourToken, SameDay

(* The week from Monday to Sunday, at the turn of the year too.            *)
LEMMA WeekTokens ==
  ASSUME NEW d \in CivilDates, NEW e \in CivilDates
  PROVE  fmtIsoWeek(ISOWeek(d)) = fmtIsoWeek(ISOWeek(e)) <=> WeekNumber(d) = WeekNumber(e)
<1>1. \A a, b, c, f : fmtIsoWeek([year |-> a, week |-> b]) = fmtIsoWeek([year |-> c, week |-> f])
                        => a = c /\ b = f
  BY DEF fmtIsoWeek
<1>2. PICK a, b : ISOWeek(d) = [year |-> a, week |-> b]
  BY DEF ISOWeek
<1>3. PICK c, f : ISOWeek(e) = [year |-> c, week |-> f]
  BY DEF ISOWeek
<1>4. fmtIsoWeek(ISOWeek(d)) = fmtIsoWeek(ISOWeek(e)) => ISOWeek(d) = ISOWeek(e)
  BY <1>1, <1>2, <1>3
<1> QED BY <1>4, ISOWeekIsTheWeek

(* The week and the weekday, and so the day.                               *)
LEMMA WeekdayTokens ==
  ASSUME NEW d \in CivilDates, NEW e \in CivilDates
  PROVE  fmtWeekday(ISOWeek(d), Weekday(d)) = fmtWeekday(ISOWeek(e), Weekday(e)) <=> SameDay(d, e)
<1>1. ASSUME fmtWeekday(ISOWeek(d), Weekday(d)) = fmtWeekday(ISOWeek(e), Weekday(e))
      PROVE  SameDay(d, e)
  <2>1. Weekday(d) = Weekday(e) /\ ISOWeek(d).year = ISOWeek(e).year /\ ISOWeek(d).week = ISOWeek(e).week
    BY <1>1 DEF fmtWeekday
  <2>2. fmtIsoWeek(ISOWeek(d)) = fmtIsoWeek(ISOWeek(e))
    BY <2>1 DEF fmtIsoWeek
  <2>3. DayNumber(d) = DayNumber(e)
    BY <2>1, <2>2, WeekTokens, WeekdayInWeek
  <2> QED BY <2>3, DayNumberIsOfOneDay
<1>2. ASSUME SameDay(d, e)
      PROVE  fmtWeekday(ISOWeek(d), Weekday(d)) = fmtWeekday(ISOWeek(e), Weekday(e))
  <2>1. DayNumber(d) = DayNumber(e)
    BY <1>2, DayNumberIsOfOneDay
  <2>2. Weekday(d) = Weekday(e) /\ WeekNumber(d) = WeekNumber(e)
    BY <2>1 DEF Weekday, WeekNumber
  <2> QED BY <2>2, ISOWeekIsTheWeek
<1> QED BY <1>1, <1>2

(* The month, shifted or not.                                              *)
LEMMA MonthTokens ==
  ASSUME NEW d \in CivilDates, NEW e \in CivilDates, NEW n \in Int
  PROVE  MonthToken(d, n) = MonthToken(e, n) <=> d.year = e.year /\ d.month = e.month
<1>1. PICK y \in Int, m \in 1..12 : y = d.year /\ m = d.month
  BY DayNumberParts
<1>2. PICK z \in Int, o \in 1..12 : z = e.year /\ o = e.month
  BY DayNumberParts
<1>3. PICK a \in Int, b \in 1..12 :
        /\ AddMonths(y, m, n).year = a /\ AddMonths(y, m, n).month = b
        /\ 12 * a + b = 12 * y + m + n
  BY DEF AddMonths
<1>4. PICK p \in Int, q \in 1..12 :
        /\ AddMonths(z, o, n).year = p /\ AddMonths(z, o, n).month = q
        /\ 12 * p + q = 12 * z + o + n
  BY DEF AddMonths
<1>5. MonthToken(d, n) = MonthToken(e, n) <=> a = p /\ b = q
  BY <1>1, <1>2, <1>3, <1>4 DEF MonthToken, fmtMonthYear
<1>6. a = p /\ b = q <=> y = z /\ m = o
  BY <1>3, <1>4
<1> QED BY <1>1, <1>2, <1>5, <1>6

(* The quarter, shifted or not.                                            *)
LEMMA QuarterTokens ==
  ASSUME NEW d \in CivilDates, NEW e \in CivilDates, NEW n \in Int
  PROVE  QuarterToken(d, n) = QuarterToken(e, n)
           <=> d.year = e.year /\ quarterOf(d.month) = quarterOf(e.month)
<1>1. PICK y \in Int, m \in 1..12 : y = d.year /\ m = d.month
  BY DayNumberParts
<1>2. PICK z \in Int, o \in 1..12 : z = e.year /\ o = e.month
  BY DayNumberParts
<1>a. PICK s \in Int : s = n * 3
  OBVIOUS
<1>3. PICK a \in Int, b \in 1..12 :
        /\ AddMonths(y, m, s).year = a /\ AddMonths(y, m, s).month = b
        /\ 12 * a + b = 12 * y + m + s
  BY DEF AddMonths
<1>4. PICK p \in Int, q \in 1..12 :
        /\ AddMonths(z, o, s).year = p /\ AddMonths(z, o, s).month = q
        /\ 12 * p + q = 12 * z + o + s
  BY DEF AddMonths
<1>5. QuarterToken(d, n) = QuarterToken(e, n) <=> a = p /\ quarterOf(b) = quarterOf(q)
  BY <1>a, <1>1, <1>2, <1>3, <1>4 DEF QuarterToken, fmtQuarter
<1>6. 12 * a + b = 12 * y + m + 3 * n /\ 12 * p + q = 12 * z + o + 3 * n
  BY <1>a, <1>3, <1>4
<1>7. a = p /\ quarterOf(b) = quarterOf(q) => y = z /\ quarterOf(m) = quarterOf(o)
  BY <1>6 DEF quarterOf
<1>8. y = z /\ quarterOf(m) = quarterOf(o) => a = p /\ quarterOf(b) = quarterOf(q)
  BY <1>6 DEF quarterOf
<1> QED BY <1>1, <1>2, <1>5, <1>7, <1>8

(* The year, shifted or not.                                               *)
LEMMA YearTokens ==
  ASSUME NEW d \in CivilDates, NEW e \in CivilDates, NEW n \in Int
  PROVE  /\ YearToken(d, n) = YearToken(e, n) <=> d.year = e.year
         /\ fmtYear(d.year) = fmtYear(e.year) <=> d.year = e.year
<1>1. d.year \in Int /\ e.year \in Int
  BY DayNumberParts
<1> QED BY <1>1 DEF YearToken, fmtYear

(* A shifted month or quarter prints a year, and a quarter one of four.     *)
LEMMA QuarterIsOneOfFour ==
  ASSUME NEW m \in 1..12
  PROVE  quarterOf(m) \in 1..4 /\ m \in (3 * quarterOf(m) - 2)..(3 * quarterOf(m))
BY DEF quarterOf

(* Two dates of one quarter, by its months and by its number.              *)
LEMMA QuartersByMonths ==
  ASSUME NEW m \in 1..12, NEW n \in 1..12
  PROVE  (\E q \in {1, 4, 7, 10} : {m, n} \subseteq q..(q + 2)) <=> quarterOf(m) = quarterOf(n)
<1>1. ASSUME NEW q \in {1, 4, 7, 10}, m \in q..(q + 2), n \in q..(q + 2)
      PROVE  quarterOf(m) = quarterOf(n)
  BY <1>1 DEF quarterOf
<1>2. ASSUME quarterOf(m) = quarterOf(n)
      PROVE  \E q \in {1, 4, 7, 10} : {m, n} \subseteq q..(q + 2)
  <2>1. quarterOf(m) \in 1..4 /\ m \in (3 * quarterOf(m) - 2)..(3 * quarterOf(m))
    BY QuarterIsOneOfFour
  <2>2. n \in (3 * quarterOf(m) - 2)..(3 * quarterOf(m))
    BY <1>2, QuarterIsOneOfFour
  <2>3. 3 * quarterOf(m) - 2 \in {1, 4, 7, 10}
    BY <2>1
  <2> QED BY <2>1, <2>2, <2>3
<1> QED BY <1>1, <1>2

(* A token names a period: of two dates a definition fires on, it has one  *)
(* token if and only if they lie in one period.                            *)
LEMMA TokensNamePeriods ==
  ASSUME NEW def, def.offset \in Int, NEW d \in CivilDates, NEW e \in CivilDates,
         Fires(def, d), Fires(def, e)
  PROVE  Build(def, d) = Build(def, e) <=> SamePeriod(def, d, e)
<1>1. def.offset \in Int
  OBVIOUS
<1>2. d.month \in 1..12 /\ e.month \in 1..12
  BY DayNumberParts
<1>3. CASE def.kind = "daily"
  BY <1>3, DateTokens DEF Build, SamePeriod, SameDay
<1>4. CASE def.kind = "hourly"
  BY <1>4, HourTokens DEF Build, SamePeriod, SameDay
<1>5. CASE def.kind = "weekly"
  BY <1>5, WeekTokens DEF Build, SamePeriod, WeekNumber
<1>6. CASE def.kind = "weekday"
  <2>1. Weekday(d) \in def.weekdays /\ Weekday(e) \in def.weekdays
    BY <1>6 DEF Fires, AlwaysFire, PeriodKinds
  <2> QED BY <1>6, <2>1, WeekdayTokens DEF Build, SamePeriod, SameDay
<1>7. CASE def.kind = "monthly"
  BY <1>1, <1>7, MonthTokens DEF Build, SamePeriod
<1>8. CASE def.kind = "quarterly"
  BY <1>1, <1>2, <1>8, QuarterTokens, QuartersByMonths DEF Build, SamePeriod
<1>9. CASE def.kind = "yearly"
  BY <1>1, <1>9, YearTokens DEF Build, SamePeriod
<1>10. CASE def.kind = "ondate"
  BY <1>1, <1>10, YearTokens DEF Build, SamePeriod
<1>11. def.kind \in {"daily", "hourly", "weekly", "weekday", "monthly", "quarterly", "yearly", "ondate"}
  BY DEF Fires, AlwaysFire, PeriodKinds
<1> QED BY <1>3, <1>4, <1>5, <1>6, <1>7, <1>8, <1>9, <1>10, <1>11

(* The defer date is the period's: whatever date of a period a definition  *)
(* fires on, the task becomes visible on the same day.                     *)
LEMMA DeferDateNamesPeriods ==
  ASSUME NEW def, NEW d \in CivilDates, NEW e \in CivilDates,
         Fires(def, d), Fires(def, e), SamePeriod(def, d, e)
  PROVE  deferDateFor(def.kind, d) = deferDateFor(def.kind, e)
<1>1. d.month \in 1..12 /\ e.month \in 1..12
  BY DayNumberParts
<1>2. CASE def.kind \in {"daily", "weekday", "hourly"}
  BY <1>2 DEF SamePeriod, deferDateFor, fmtDate
<1>3. CASE def.kind = "weekly"
  <2>1. WeekNumber(d) = WeekNumber(e)
    BY <1>3 DEF SamePeriod, WeekNumber
  <2>2. mondayOfISOWeek(d) = mondayOfISOWeek(e)
    BY <2>1, MondayIsOfTheWeek, DayNumberNamesTheDate
  <2> QED BY <1>3, <2>2 DEF deferDateFor
<1>4. CASE def.kind = "monthly"
  BY <1>4 DEF SamePeriod, deferDateFor
<1>5. CASE def.kind = "quarterly"
  <2>1. d.year = e.year /\ quarterOf(d.month) = quarterOf(e.month)
    BY <1>1, <1>5, QuartersByMonths DEF SamePeriod
  <2> QED BY <1>5, <2>1 DEF deferDateFor
<1>6. CASE def.kind = "yearly"
  BY <1>6 DEF SamePeriod, deferDateFor
<1>7. CASE def.kind = "ondate"
  <2>1. d.year = e.year
    BY <1>7 DEF SamePeriod
  <2>2. d.month = e.month /\ d.day = e.day
    BY <1>7 DEF Fires, AlwaysFire, PeriodKinds
  <2> QED BY <1>7, <2>1, <2>2 DEF deferDateFor, fmtDate
<1> QED BY <1>2, <1>3, <1>4, <1>5, <1>6, <1>7 DEF Fires, AlwaysFire, PeriodKinds

(* A definition that fires gets a token: the filter and the token builder  *)
(* look at the weekdays alike.                                             *)
LEMMA FiredGetTokens ==
  ASSUME NEW def, NEW d, Fires(def, d)
  PROVE  Build(def, d) # NoToken
<1>1. CASE def.kind = "daily"
  BY <1>1 DEF Build, fmtDate, NoToken
<1>2. CASE def.kind = "hourly"
  BY <1>2 DEF Build, fmtHourToken, NoToken
<1>3. CASE def.kind = "weekly"
  BY <1>3 DEF Build, fmtIsoWeek, NoToken
<1>4. CASE def.kind = "weekday"
  BY <1>4 DEF Build, Fires, AlwaysFire, PeriodKinds, fmtWeekday, NoToken
<1>5. CASE def.kind = "monthly"
  BY <1>5 DEF Build, MonthToken, fmtMonthYear, NoToken
<1>6. CASE def.kind = "quarterly"
  BY <1>6 DEF Build, QuarterToken, fmtQuarter, NoToken
<1>7. CASE def.kind = "yearly"
  BY <1>7 DEF Build, YearToken, fmtYear, NoToken
<1>8. CASE def.kind = "ondate"
  BY <1>8 DEF Build, fmtYear, NoToken
<1> QED BY <1>1, <1>2, <1>3, <1>4, <1>5, <1>6, <1>7, <1>8 DEF Fires, AlwaysFire, PeriodKinds
=============================================================================
