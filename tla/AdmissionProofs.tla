--------------------------- MODULE AdmissionProofs ---------------------------
(***************************************************************************)
(* For any Schedules whose fields have their declared types, whatever      *)
(* their values, and any number of them.                                   *)
(***************************************************************************)
EXTENDS Admission, PeriodTokenProofs, FiniteSetTheorems, TLAPS

-----------------------------------------------------------------------------
(* The three copies of the weekday table agree: the enum, the map of the   *)
(* CEL rule and the map of the adapter.                                    *)
LEMMA TablesHaveTheEnum ==
  /\ DOMAIN canonicalDay = weekdayAllEnum
  /\ DOMAIN weekdayByName = weekdayAllEnum
BY DEF canonicalDay, weekdayByName, weekdayAllEnum, weekdayLongEnum

(* A day has two names, and no two days have a name or a number in common. *)
LEMMA NamesNameDays ==
  ASSUME NEW name \in weekdayAllEnum
  PROVE  /\ DayOf(name) \in DaysOfWeek
         /\ canonicalDay[name] = DayOf(name).long
         /\ weekdayByName[name] = DayOf(name).number
<1>1. \E day \in DaysOfWeek : name \in {day.long, day.short}
  BY DEF DaysOfWeek, weekdayAllEnum, weekdayLongEnum
<1>2. DayOf(name) \in DaysOfWeek /\ name \in {DayOf(name).long, DayOf(name).short}
  BY <1>1 DEF DayOf
<1>3. PICK day : day = DayOf(name)
  OBVIOUS
<1>4. canonicalDay[name] = day.long /\ weekdayByName[name] = day.number
  BY <1>2, <1>3 DEF DaysOfWeek, canonicalDay, weekdayByName
<1> QED BY <1>2, <1>3, <1>4

(* A day is told by its long name as by its number.                        *)
LEMMA DaysDiffer ==
  /\ \A a, b \in DaysOfWeek : a.long = b.long \/ a.number = b.number => a = b
  /\ \A a \in DaysOfWeek : a.number \in 0..6
BY DEF DaysOfWeek

(* The days of a list of names: as many as names exactly when no day is    *)
(* named twice, which is what the CEL rule checks; never more than seven;  *)
(* and as many as their numbers.                                           *)
LEMMA DaysOfLists ==
  ASSUME NEW l \in Seq(STRING), \A i \in DOMAIN l : l[i] \in weekdayAllEnum
  PROVE  /\ DaysOf(l) \subseteq DaysOfWeek
         /\ Cardinality(DaysOf(l)) \in Nat /\ Cardinality(DaysOf(l)) <= 7
         /\ Cardinality(DaysOf(l)) = Len(l)
              <=> \A i, j \in DOMAIN l : canonicalDay[l[i]] = canonicalDay[l[j]] => i = j
         /\ Cardinality({d.number : d \in DaysOf(l)}) = Cardinality(DaysOf(l))
<1> DEFINE n == Len(l)
           D == DaysOf(l)
           N == {d.number : d \in D}
           f == [i \in 1..n |-> DayOf(l[i])]
           g == [d \in D |-> d.number]
<1>1. n \in Nat /\ DOMAIN l = 1..n
  OBVIOUS
<1>2. D \subseteq DaysOfWeek
  BY NamesNameDays DEF DaysOf
<1>3. f \in Surjection(1..n, D)
  <2>1. f \in [1..n -> D]
    BY <1>1 DEF DaysOf
  <2>2. ASSUME NEW d \in D PROVE \E i \in 1..n : f[i] = d
    BY <1>1, <2>2 DEF DaysOf
  <2> HIDE DEF f, D
  <2> QED BY <2>1, <2>2 DEF Surjection
<1>4. IsFiniteSet(1..n) /\ Cardinality(1..n) = n
  BY <1>1, FS_Interval
<1>5. IsFiniteSet(D) /\ (Cardinality(D) = n <=> f \in Injection(1..n, D))
  <2> HIDE DEF f, D, n
  <2> QED BY <1>3, <1>4, FS_Surjection
<1>6. f \in Injection(1..n, D)
        <=> \A i, j \in DOMAIN l : canonicalDay[l[i]] = canonicalDay[l[j]] => i = j
  <2>1. ASSUME NEW i \in 1..n, NEW j \in 1..n
        PROVE  f[i] = f[j] <=> canonicalDay[l[i]] = canonicalDay[l[j]]
    <3>1. l[i] \in weekdayAllEnum /\ l[j] \in weekdayAllEnum
      BY <1>1
    <3> QED BY <3>1, NamesNameDays, DaysDiffer
  <2>2. f \in [1..n -> D] /\ DOMAIN f = 1..n
    BY <1>3 DEF Surjection
  <2> HIDE DEF f, D, n
  <2>3. f \in Injection(1..n, D) <=> \A i, j \in 1..n : f[i] = f[j] => i = j
    BY <2>2 DEF Injection, IsInjective
  <2> QED BY <1>1, <2>1, <2>3
<1>7. g \in Injection(D, 0..6) /\ g \in Surjection(D, N)
  <2>1. g \in [D -> 0..6] /\ g \in [D -> N]
    BY <1>2, DaysDiffer
  <2>2. \A d, e \in D : g[d] = g[e] => d = e
    BY <1>2, DaysDiffer
  <2>3. \A k \in N : \E d \in D : g[d] = k
    OBVIOUS
  <2> HIDE DEF g, D, N
  <2> QED BY <2>1, <2>2, <2>3 DEF Injection, IsInjective, Surjection
<1>8. IsFiniteSet(0..6) /\ Cardinality(0..6) = 7
  <2>1. PICK a \in Int, b \in Int : a = 0 /\ b = 6
    OBVIOUS
  <2>2. IsFiniteSet(a..b) /\ Cardinality(a..b) = IF a > b THEN 0 ELSE b - a + 1
    BY FS_Interval
  <2> QED BY <2>1, <2>2
<1>9. Cardinality(D) \in Nat /\ Cardinality(D) <= 7
  <2> HIDE DEF g, D
  <2> QED BY <1>5, <1>7, <1>8, FS_Injection, FS_CardinalityType
<1>10. g \in Injection(D, N)
  BY <1>7 DEF Injection, Surjection
<1>11. Cardinality(N) = Cardinality(D)
  <2> HIDE DEF g, D, N
  <2> QED BY <1>5, <1>7, <1>10, FS_Surjection
<1> QED BY <1>2, <1>5, <1>6, <1>9, <1>11

-----------------------------------------------------------------------------
(* An empty object has no field, an empty list no entry.                   *)
LEMMA NothingIsEmpty == DOMAIN <<>> = {} /\ (\A f : ~Has(<<>>, f))
<1>1. DOMAIN <<>> = 1..0
  OBVIOUS
<1>2. 1..0 = {}
  OBVIOUS
<1> QED BY <1>1, <1>2 DEF Has

(* Decoding: a field that is set is kept, one that is not is zero.         *)
LEMMA DecodedTrigger ==
  ASSUME NEW t
  PROVE  LET d == ScheduleTrigger(t)
         IN  /\ d.recurrence = IF Has(t, "recurrence") THEN t.recurrence ELSE ""
             /\ d.weekday = IF Has(t, "weekday") THEN t.weekday ELSE ""
             /\ d.weekdays = IF Has(t, "weekdays") THEN t.weekdays ELSE <<>>
             /\ d.periodOffset = IF Has(t, "periodOffset") THEN t.periodOffset ELSE 0
             /\ d.month = IF Has(t, "month") THEN t.month ELSE 0
             /\ d.day = IF Has(t, "day") THEN t.day ELSE 0
             /\ d.autoAbortPrior = IF Has(t, "autoAbortPrior") THEN t.autoAbortPrior ELSE FALSE
BY DEF ScheduleTrigger, OrZero, Has

(* The numbers and the flag of a trigger have their types.                 *)
LEMMA TypedTrigger ==
  ASSUME NEW t, TriggerShape(t), NEW d, d = ScheduleTrigger(t)
  PROVE  d.month \in Int /\ d.day \in Int /\ d.periodOffset \in Int /\ d.autoAbortPrior \in BOOLEAN
<1>1. /\ d.periodOffset = IF Has(t, "periodOffset") THEN t.periodOffset ELSE 0
      /\ d.month = IF Has(t, "month") THEN t.month ELSE 0
      /\ d.day = IF Has(t, "day") THEN t.day ELSE 0
      /\ d.autoAbortPrior = IF Has(t, "autoAbortPrior") THEN t.autoAbortPrior ELSE FALSE
  BY DecodedTrigger
<1>2. d.month \in Int /\ d.day \in Int /\ d.periodOffset \in Int
  BY <1>1 DEF TriggerShape
<1>3. d.autoAbortPrior \in BOOLEAN
  BY <1>1 DEF TriggerShape
<1> QED BY <1>2, <1>3

(* A spec with every required field is decoded as it is.                   *)
LEMMA DecodedSpec ==
  ASSUME NEW cr, Has(cr, "spec"), Has(cr.spec, "schedule"), Has(cr.spec, "vault")
  PROVE  /\ ScheduleSpec(Schedule(cr).spec).schedule = cr.spec.schedule
         /\ ScheduleSpec(Schedule(cr).spec).vault = cr.spec.vault
<1>1. Schedule(cr).spec = cr.spec
  BY DEF Schedule, OrZero, Has
<1> QED BY <1>1 DEF ScheduleSpec, OrZero, Has

(* What the adapter makes of a complete object.                            *)
LEMMA Adapted ==
  ASSUME NEW cr, Has(cr, "spec"), Has(cr.spec, "schedule"), Has(cr.spec, "vault"),
         NEW t, t = ScheduleTrigger(cr.spec.schedule)
  PROVE  /\ Adapts(cr) <=> /\ ToLower(t.recurrence) \in AllRecurrenceKinds
                           /\ names(t) \subseteq DOMAIN weekdayByName
         /\ adaptSchedule(cr) =
              [kind |-> ToLower(t.recurrence),
               weekdays |-> {weekdayByName[name] : name \in names(t)},
               month |-> t.month, day |-> t.day, offset |-> t.periodOffset,
               autoAbortPrior |-> t.autoAbortPrior, vault |-> cr.spec.vault]
BY DecodedSpec DEF Adapts, adaptSchedule

(* The kinds of the enum are those of the service.                         *)
LEMMA KindsOfTheEnum ==
  ASSUME NEW r \in recurrenceEnum
  PROVE  ToLower(r) \in AllRecurrenceKinds
BY DEF recurrenceEnum, ToLower, lowerCase, AllRecurrenceKinds, AlwaysFire, PeriodKinds

-----------------------------------------------------------------------------
(* The schema's three conditions on a list of days, and that it names as   *)
(* many days as it has names.                                              *)
LEMMA ListsAreExact ==
  ASSUME NEW t, Has(t, "weekdays"), t.weekdays \in Seq(STRING)
  PROVE      /\ Len(t.weekdays) \in 1..7
             /\ \A i \in DOMAIN t.weekdays : t.weekdays[i] \in weekdayAllEnum
             /\ weekdayNoDuplicateRule(t)
         <=>   /\ t.weekdays # <<>>
               /\ \A i \in DOMAIN t.weekdays : t.weekdays[i] \in weekdayAllEnum
               /\ Cardinality(DaysOf(t.weekdays)) = Len(t.weekdays)
<1> DEFINE l == t.weekdays
           all == \A i \in DOMAIN l : l[i] \in weekdayAllEnum
           distinct == \A i, j \in DOMAIN l : canonicalDay[l[i]] = canonicalDay[l[j]] => i = j
<1>1. l \in Seq(STRING) /\ Len(l) \in Nat /\ (l # <<>> <=> Len(l) # 0)
  OBVIOUS
<1>2. all => (weekdayNoDuplicateRule(t) <=> distinct)
  BY TablesHaveTheEnum DEF weekdayNoDuplicateRule
<1> HIDE DEF l
<1>3. all => /\ Cardinality(DaysOf(l)) \in Nat /\ Cardinality(DaysOf(l)) <= 7
             /\ Cardinality(DaysOf(l)) = Len(l) <=> distinct
  BY <1>1, DaysOfLists
<1> HIDE DEF all, distinct
<1> DEFINE rule == weekdayNoDuplicateRule(t)
           count == Cardinality(DaysOf(l)) = Len(l)
           short == Len(l) \in 1..7
<1>4. all => (rule <=> count)
  BY <1>2, <1>3
<1>5. all /\ count => (short <=> l # <<>>)
  <2>1. PICK n \in Nat : n = Len(l)
    BY <1>1
  <2>2. n <= 7 => (n \in 1..7 <=> n # 0)
    OBVIOUS
  <2> QED BY <1>1, <1>3, <2>1, <2>2
<1> HIDE DEF rule, count, short
<1>6. short /\ all /\ rule <=> l # <<>> /\ all /\ count
  BY <1>4, <1>5
<1> QED BY <1>6 DEF all, l, rule, count, short

(* The rules of a trigger and what each recurrence needs.                  *)
LEMMA TriggersAreExact ==
  ASSUME NEW t, TriggerShape(t)
  PROVE  scheduleTriggerSchema(t) <=> ValidTrigger(t)
<1> DEFINE set == DOMAIN t \ {"recurrence", "autoAbortPrior"}
           rest == set \ {"periodOffset"}
           W == Has(t, "weekday")
           L == Has(t, "weekdays")
           O == Has(t, "periodOffset")
           M == Has(t, "month")
           D == Has(t, "day")
           r == t.recurrence
<1>1. SUFFICES ASSUME Has(t, "recurrence")
               PROVE  scheduleTriggerSchema(t) <=> ValidTrigger(t)
  BY DEF scheduleTriggerSchema, ValidTrigger, Has
<1>2. /\ rest = {} <=> ~W /\ ~L /\ ~M /\ ~D
      /\ rest = {"month", "day"} <=> M /\ D /\ ~W /\ ~L
      /\ rest = {"weekday"} <=> W /\ ~L /\ ~M /\ ~D
      /\ rest = {"weekdays"} <=> L /\ ~W /\ ~M /\ ~D
      /\ set \subseteq {"periodOffset"} <=> ~W /\ ~L /\ ~M /\ ~D
      /\ ~W /\ ~L /\ ~M /\ ~D => (set # {} <=> O)
      /\ "periodOffset" \in set <=> O
  BY DEF TriggerShape, Has
<1>3. L => (    /\ Len(t.weekdays) \in 1..7
                /\ \A i \in DOMAIN t.weekdays : t.weekdays[i] \in weekdayAllEnum
                /\ weekdayNoDuplicateRule(t)
            <=> /\ t.weekdays # <<>>
                /\ \A i \in DOMAIN t.weekdays : t.weekdays[i] \in weekdayAllEnum
                /\ Cardinality(DaysOf(t.weekdays)) = Len(t.weekdays))
  BY ListsAreExact DEF TriggerShape
<1>4. ~L => weekdayNoDuplicateRule(t)
  BY DEF weekdayNoDuplicateRule
<1>5. scheduleTriggerSchema(t)
        <=> /\ r \in recurrenceEnum
            /\ W => t.weekday \in weekdayLongEnum
            /\ L => /\ t.weekdays # <<>>
                    /\ \A i \in DOMAIN t.weekdays : t.weekdays[i] \in weekdayAllEnum
                    /\ Cardinality(DaysOf(t.weekdays)) = Len(t.weekdays)
            /\ M => t.month \in 1..12
            /\ D => t.day \in 1..31
            /\ IF r = "Weekday" THEN W # L ELSE ~W /\ ~L
            /\ O => t.periodOffset = 0 \/ r \in {"Monthly", "Quarterly", "Yearly"}
            /\ IF r = "OnDate" THEN M /\ D ELSE ~M /\ ~D
  BY <1>1, <1>3, <1>4 DEF scheduleTriggerSchema, weekdayXorRule, onDateMonthDayRule,
                          periodOffsetOnlyForPeriodKindsRule
<1> HIDE DEF set, rest, W, L, O, M, D, r
<1>6. CASE r \in {"Daily", "Weekly", "Hourly"}
  <2>1. ValidTrigger(t) <=> set \subseteq {"periodOffset"} /\ (set # {} => t.periodOffset = 0)
    BY <1>1, <1>6 DEF ValidTrigger, Has, set, r
  <2>2. scheduleTriggerSchema(t) <=> ~W /\ ~L /\ ~M /\ ~D /\ (O => t.periodOffset = 0)
    BY <1>5, <1>6 DEF recurrenceEnum
  <2> QED BY <1>2, <2>1, <2>2
<1>7. CASE r \in {"Monthly", "Quarterly", "Yearly"}
  <2>1. ValidTrigger(t) <=> rest = {}
    BY <1>1, <1>7 DEF ValidTrigger, Has, set, rest, r
  <2>2. scheduleTriggerSchema(t) <=> ~W /\ ~L /\ ~M /\ ~D
    BY <1>5, <1>7 DEF recurrenceEnum
  <2> QED BY <1>2, <2>1, <2>2
<1>8. CASE r = "OnDate"
  <2>1. ValidTrigger(t) <=> /\ "periodOffset" \in set => t.periodOffset = 0
                            /\ rest = {"month", "day"}
                            /\ t.month \in 1..12 /\ t.day \in 1..31
    BY <1>1, <1>8 DEF ValidTrigger, Has, set, rest, r
  <2>2. scheduleTriggerSchema(t) <=> /\ M /\ D /\ ~W /\ ~L /\ (O => t.periodOffset = 0)
                                     /\ t.month \in 1..12 /\ t.day \in 1..31
    BY <1>5, <1>8 DEF recurrenceEnum
  <2> QED BY <1>2, <2>1, <2>2
<1>9. CASE r = "Weekday"
  <2> DEFINE V == /\ t.weekdays # <<>>
                  /\ \A i \in DOMAIN t.weekdays : t.weekdays[i] \in weekdayAllEnum
                  /\ Cardinality(DaysOf(t.weekdays)) = Len(t.weekdays)
  <2>1. ValidTrigger(t) <=> /\ "periodOffset" \in set => t.periodOffset = 0
                            /\ \/ rest = {"weekday"} /\ t.weekday \in weekdayLongEnum
                               \/ rest = {"weekdays"} /\ V
    BY <1>1, <1>9 DEF ValidTrigger, Has, set, rest, r
  <2>2. scheduleTriggerSchema(t) <=> /\ W => t.weekday \in weekdayLongEnum
                                     /\ L => V
                                     /\ W # L /\ ~M /\ ~D /\ (O => t.periodOffset = 0)
    BY <1>5, <1>9 DEF recurrenceEnum
  <2> HIDE DEF V
  <2>3. W \in BOOLEAN /\ L \in BOOLEAN
    BY DEF W, L, Has
  <2> QED BY <1>2, <2>1, <2>2, <2>3
<1>10. CASE r \notin recurrenceEnum
  <2>1. ~ValidTrigger(t)
    BY <1>10 DEF ValidTrigger, recurrenceEnum, r
  <2> QED BY <1>5, <1>10, <2>1
<1> QED BY <1>6, <1>7, <1>8, <1>9, <1>10 DEF recurrenceEnum

(* The whole object.                                                       *)
LEMMA SchemaIsExact ==
  ASSUME NEW cr, ShapeOfObject(cr)
  PROVE  scheduleCRSchema(cr) <=> Valid(cr)
<1>1. Has(cr, "spec") <=> DOMAIN cr = {"spec"}
  BY DEF ShapeOfObject, Has
<1>2. ASSUME Has(cr, "spec") PROVE scheduleSpecSchema(cr.spec) <=> Valid(cr)
  <2>1. SpecShape(cr.spec)
    BY <1>2 DEF ShapeOfObject
  <2>2. {"vault", "title", "schedule", "template"} \subseteq DOMAIN cr.spec
          <=> DOMAIN cr.spec = {"vault", "title", "schedule", "template"}
    BY <2>1 DEF SpecShape
  <2>3. Has(cr.spec, "schedule")
          => (scheduleTriggerSchema(cr.spec.schedule) <=> ValidTrigger(cr.spec.schedule))
    BY <2>1, TriggersAreExact DEF SpecShape
  <2> QED BY <1>1, <1>2, <2>2, <2>3 DEF scheduleSpecSchema, Valid, Has
<1> QED BY <1>1, <1>2 DEF scheduleCRSchema, Valid

-----------------------------------------------------------------------------
(* What the schema admits has every field that is decoded, and the names   *)
(* it has for days are those of the tables.                                *)
LEMMA AdmittedHas ==
  ASSUME NEW cr, scheduleCRSchema(cr)
  PROVE  /\ Has(cr, "spec") /\ Has(cr.spec, "schedule") /\ Has(cr.spec, "vault")
         /\ Has(cr.spec.schedule, "recurrence") /\ cr.spec.schedule.recurrence \in recurrenceEnum
         /\ scheduleTriggerSchema(cr.spec.schedule)
BY DEF scheduleCRSchema, scheduleSpecSchema, scheduleTriggerSchema, Has

(* The names of an admitted trigger: the one day, or those of the list.    *)
LEMMA AdmittedNames ==
  ASSUME NEW t, scheduleTriggerSchema(t)
  PROVE  LET n == names(ScheduleTrigger(t))
         IN  /\ n \subseteq weekdayAllEnum
             /\ Has(t, "weekday") => n = {t.weekday}
             /\ Has(t, "weekdays") => n = {t.weekdays[i] : i \in DOMAIN t.weekdays}
<1> DEFINE d == ScheduleTrigger(t)
<1>1. /\ d.weekday = IF Has(t, "weekday") THEN t.weekday ELSE ""
      /\ d.weekdays = IF Has(t, "weekdays") THEN t.weekdays ELSE <<>>
  BY DecodedTrigger
<1>2. Has(t, "weekday") => t.weekday # "" /\ t.weekday \in weekdayAllEnum
  BY DEF scheduleTriggerSchema, weekdayLongEnum, weekdayAllEnum
<1>3. Has(t, "weekdays") => \A i \in DOMAIN t.weekdays : t.weekdays[i] \in weekdayAllEnum
  BY DEF scheduleTriggerSchema
<1>4. ~(Has(t, "weekday") /\ Has(t, "weekdays"))
  BY DEF scheduleTriggerSchema, weekdayXorRule
<1> HIDE DEF d
<1>5. Has(t, "weekday") => names(d) = {t.weekday}
  BY <1>1, <1>2 DEF names
<1>6. Has(t, "weekdays") => names(d) = {t.weekdays[i] : i \in DOMAIN t.weekdays}
  BY <1>1, <1>4 DEF names
<1>7. ~Has(t, "weekday") /\ ~Has(t, "weekdays") => names(d) = {}
  BY <1>1, NothingIsEmpty DEF names
<1>8. names(d) \subseteq weekdayAllEnum
  BY <1>2, <1>3, <1>5, <1>6, <1>7
<1> QED BY <1>5, <1>6, <1>8 DEF d

(* What the schema admits the adapter can adapt.                           *)
LEMMA AdmittedAdapts ==
  ASSUME NEW cr, scheduleCRSchema(cr)
  PROVE  Adapts(cr)
<1> DEFINE t == cr.spec.schedule
           d == ScheduleTrigger(t)
<1>1. /\ Has(cr, "spec") /\ Has(cr.spec, "schedule") /\ Has(cr.spec, "vault")
      /\ Has(t, "recurrence") /\ t.recurrence \in recurrenceEnum
      /\ scheduleTriggerSchema(t)
  BY AdmittedHas
<1>2. d.recurrence = t.recurrence
  BY <1>1, DecodedTrigger
<1>3. ToLower(d.recurrence) \in AllRecurrenceKinds
  BY <1>1, <1>2, KindsOfTheEnum
<1>4. names(d) \subseteq DOMAIN weekdayByName
  BY <1>1, AdmittedNames, TablesHaveTheEnum
<1> QED BY <1>1, <1>3, <1>4, Adapted

(* A definition has a kind of the service and days of the week, whatever   *)
(* object it was adapted from.                                             *)
LEMMA AdaptedIsADefinition ==
  ASSUME NEW cr, ShapeOfObject(cr), Adapts(cr)
  PROVE  adaptSchedule(cr) \in Definitions
<1> DEFINE spec == ScheduleSpec(Schedule(cr).spec)
           t == spec.schedule
           d == ScheduleTrigger(t)
<1>1. TriggerShape(<<>>)
  BY NothingIsEmpty DEF TriggerShape
<1>2. TriggerShape(t) /\ spec.vault \in STRING \union {""}
  <2>1. CASE Has(cr, "spec")
    <3>1. Schedule(cr).spec = cr.spec /\ SpecShape(cr.spec)
      BY <2>1 DEF Schedule, OrZero, Has, ShapeOfObject
    <3>2. t = IF Has(cr.spec, "schedule") THEN cr.spec.schedule ELSE <<>>
      BY <3>1 DEF ScheduleSpec, OrZero, Has
    <3>3. spec.vault = IF Has(cr.spec, "vault") THEN cr.spec.vault ELSE ""
      BY <3>1 DEF ScheduleSpec, OrZero, Has
    <3> HIDE DEF t, spec
    <3>4. TriggerShape(t)
      BY <1>1, <3>1, <3>2 DEF SpecShape
    <3>5. spec.vault \in STRING \union {""}
      BY <3>1, <3>3 DEF SpecShape
    <3> QED BY <3>4, <3>5
  <2>2. CASE ~Has(cr, "spec")
    <3>1. Schedule(cr).spec = <<>>
      BY <2>2 DEF Schedule, OrZero, Has
    <3>2. t = <<>> /\ spec.vault = ""
      BY <3>1, NothingIsEmpty DEF ScheduleSpec, OrZero
    <3> HIDE DEF t, spec
    <3> QED BY <1>1, <3>2
  <2> QED BY <2>1, <2>2
<1>3. d.month \in Int /\ d.day \in Int /\ d.periodOffset \in Int /\ d.autoAbortPrior \in BOOLEAN
  BY <1>2, TypedTrigger
<1>4. ToLower(d.recurrence) \in AllRecurrenceKinds /\ names(d) \subseteq DOMAIN weekdayByName
  BY DEF Adapts
<1>5. {weekdayByName[name] : name \in names(d)} \subseteq 0..6
  BY <1>4, TablesHaveTheEnum, NamesNameDays, DaysDiffer
<1>6. adaptSchedule(cr) =
        [kind |-> ToLower(d.recurrence),
         weekdays |-> {weekdayByName[name] : name \in names(d)},
         month |-> d.month, day |-> d.day, offset |-> d.periodOffset,
         autoAbortPrior |-> d.autoAbortPrior, vault |-> spec.vault]
  BY DEF adaptSchedule
<1> DEFINE k == ToLower(d.recurrence)
           w == {weekdayByName[name] : name \in names(d)}
           v == spec.vault
<1>8. k \in AllRecurrenceKinds /\ w \in SUBSET (0..6) /\ v \in STRING \union {""}
  BY <1>2, <1>4, <1>5
<1>9. PICK m \in Int, n \in Int, o \in Int, a \in BOOLEAN :
        m = d.month /\ n = d.day /\ o = d.periodOffset /\ a = d.autoAbortPrior
  BY <1>3
<1>10. adaptSchedule(cr) = [kind |-> k, weekdays |-> w, month |-> m, day |-> n, offset |-> o,
                            autoAbortPrior |-> a, vault |-> v]
  BY <1>6, <1>9
<1> HIDE DEF k, w, v
<1>11. [kind |-> k, weekdays |-> w, month |-> m, day |-> n, offset |-> o,
        autoAbortPrior |-> a, vault |-> v] \in Definitions
  BY <1>8, Zenon DEF Definitions
<1> QED BY <1>10, <1>11

(* The definition of an admitted Schedule says what was written.           *)
AsWritten(t, o) ==
  /\ Has(t, "weekday") => o.weekdays = {DayOf(t.weekday).number}
  /\ Has(t, "weekdays") => /\ o.weekdays = {d.number : d \in DaysOf(t.weekdays)}
                           /\ Cardinality(o.weekdays) = Len(t.weekdays)
  /\ Has(t, "month") => <<o.month, o.day>> = <<t.month, t.day>>
  /\ Has(t, "periodOffset") => o.offset = t.periodOffset
  /\ o.autoAbortPrior <=> Has(t, "autoAbortPrior") /\ t.autoAbortPrior

(* Field by field, the days by their tables.                               *)
LEMMA AdmittedAsWritten ==
  ASSUME NEW cr, ShapeOfObject(cr), scheduleCRSchema(cr), NEW o, o = adaptSchedule(cr)
  PROVE  /\ AsWritten(cr.spec.schedule, o) /\ o.vault = cr.spec.vault
         /\ o.kind = ToLower(cr.spec.schedule.recurrence)
<1> DEFINE t == cr.spec.schedule
           d == ScheduleTrigger(t)
           l == t.weekdays
<1>1. /\ Has(cr, "spec") /\ Has(cr.spec, "schedule") /\ Has(cr.spec, "vault")
      /\ Has(t, "recurrence") /\ scheduleTriggerSchema(t)
  BY AdmittedHas
<1>2. TriggerShape(t)
  BY <1>1 DEF ShapeOfObject, SpecShape
<1>3. o = [kind |-> ToLower(d.recurrence),
           weekdays |-> {weekdayByName[name] : name \in names(d)},
           month |-> d.month, day |-> d.day, offset |-> d.periodOffset,
           autoAbortPrior |-> d.autoAbortPrior, vault |-> cr.spec.vault]
  BY <1>1, Adapted
<1>4. /\ d.recurrence = t.recurrence
      /\ Has(t, "month") => d.month = t.month
      /\ Has(t, "day") => d.day = t.day
      /\ Has(t, "periodOffset") => d.periodOffset = t.periodOffset
      /\ d.autoAbortPrior = IF Has(t, "autoAbortPrior") THEN t.autoAbortPrior ELSE FALSE
  BY <1>1, DecodedTrigger
<1>5. /\ names(d) \subseteq weekdayAllEnum
      /\ Has(t, "weekday") => names(d) = {t.weekday}
      /\ Has(t, "weekdays") => names(d) = {l[i] : i \in DOMAIN l}
  BY <1>1, AdmittedNames
<1>6. o.weekdays = {DayOf(name).number : name \in names(d)}
  BY <1>3, <1>5, NamesNameDays
<1>7. Has(t, "weekday") => o.weekdays = {DayOf(t.weekday).number}
  BY <1>5, <1>6
<1>8. ASSUME Has(t, "weekdays")
      PROVE  o.weekdays = {e.number : e \in DaysOf(l)} /\ Cardinality(o.weekdays) = Len(l)
  <2>1. o.weekdays = {e.number : e \in DaysOf(l)}
    BY <1>5, <1>6, <1>8 DEF DaysOf
  <2>2. l \in Seq(STRING) /\ \A i \in DOMAIN l : l[i] \in weekdayAllEnum
    BY <1>1, <1>2, <1>8 DEF TriggerShape, scheduleTriggerSchema
  <2>3. Cardinality(DaysOf(l)) = Len(l)
    BY <1>1, <1>2, <1>8, ListsAreExact DEF TriggerShape, scheduleTriggerSchema
  <2> HIDE DEF l
  <2>4. Cardinality({e.number : e \in DaysOf(l)}) = Len(l)
    BY <2>2, <2>3, DaysOfLists
  <2> QED BY <2>1, <2>4
<1>9. Has(t, "month") => Has(t, "day")
  BY <1>1 DEF scheduleTriggerSchema, onDateMonthDayRule
<1>10. /\ o.month = d.month /\ o.day = d.day /\ o.offset = d.periodOffset
       /\ o.kind = ToLower(d.recurrence) /\ o.vault = cr.spec.vault
  BY <1>3
<1>11. o.autoAbortPrior = d.autoAbortPrior
  BY <1>3
<1>12. o.autoAbortPrior <=> Has(t, "autoAbortPrior") /\ t.autoAbortPrior
  BY <1>2, <1>4, <1>11 DEF TriggerShape
<1> HIDE DEF t, d
<1>13. AsWritten(t, o)
  BY <1>4, <1>7, <1>8, <1>9, <1>10, <1>12 DEF AsWritten
<1> QED BY <1>4, <1>10, <1>13 DEF t

-----------------------------------------------------------------------------
(* The leap year has every weekday in its first week.                      *)
LEMMA LeapYearHasEveryWeekday ==
  ASSUME NEW w \in 0..6
  PROVE  Weekday(NewDate(LeapYear, 1, w + 2)) = w
<1>1. NewDate(LeapYear, 1, w + 2).year = 2028 /\ NewDate(LeapYear, 1, w + 2).month = 1
        /\ NewDate(LeapYear, 1, w + 2).day = w + 2
  BY DEF NewDate, LeapYear
<1>2. YearDay(NewDate(LeapYear, 1, w + 2)) = w + 2
  BY <1>1 DEF YearDay
<1>3. PICK y \in Int : y = 2027 /\ y \div 4 = 506 /\ y \div 100 = 20 /\ y \div 400 = 5
  OBVIOUS
<1>4. DayNumber(NewDate(LeapYear, 1, w + 2)) = 365 * y + 506 - 20 + 5 + (w + 2)
  BY <1>1, <1>2, <1>3 DEF DayNumber
<1>5. 365 * y + 506 - 20 + 5 + (w + 2) = 7 * (52 * y + 360) + w
  BY <1>3
<1>6. (7 * (52 * y + 360) + w) % 7 = w
  OBVIOUS
<1> QED BY <1>4, <1>5, <1>6 DEF Weekday

FiresSomeDay(o) ==
  \/ \E m \in 1..12 : \E day \in 1..DaysIn(LeapYear, m) :
       LET d == NewDate(LeapYear, m, day)
       IN  Fires(o, d) /\ Build(o, d) # NoToken
  \/ o.kind = "ondate" /\ o.day > DaysIn(LeapYear, o.month)

(* A definition that fires on some date of the leap year, by its kind: on  *)
(* any, on a listed weekday, on its own date.                              *)
LEMMA AdmittedFiresSomeDay ==
  ASSUME NEW cr, ShapeOfObject(cr), scheduleCRSchema(cr), NEW o, o = adaptSchedule(cr)
  PROVE  FiresSomeDay(o)
<1> DEFINE t == cr.spec.schedule
<1>1. /\ Has(t, "recurrence") /\ t.recurrence \in recurrenceEnum
      /\ scheduleTriggerSchema(t) /\ TriggerShape(t)
  BY AdmittedHas DEF ShapeOfObject, SpecShape
<1>2. AsWritten(t, o) /\ o.kind = ToLower(t.recurrence)
  BY AdmittedAsWritten
<1> HIDE DEF t
<1>3. \A m \in 1..12 : DaysIn(LeapYear, m) \in 28..31
  BY MonthLength DEF LeapYear
<1>4. ASSUME NEW m \in 1..12, NEW day \in 1..DaysIn(LeapYear, m), Fires(o, NewDate(LeapYear, m, day))
      PROVE  FiresSomeDay(o)
  BY <1>4, FiredGetTokens DEF FiresSomeDay
<1>5. CASE t.recurrence \notin {"Weekday", "OnDate"}
  <2>1. o.kind \in AlwaysFire
    BY <1>1, <1>2, <1>5 DEF recurrenceEnum, ToLower, lowerCase, AlwaysFire, PeriodKinds
  <2>2. Fires(o, NewDate(LeapYear, 1, 1))
    BY <2>1 DEF Fires
  <2>3. 1 \in 1..12 /\ 1 \in 1..DaysIn(LeapYear, 1)
    BY <1>3
  <2> QED BY <1>4, <2>2, <2>3
<1>6. CASE t.recurrence = "Weekday"
  <2>1. o.kind = "weekday"
    BY <1>2, <1>6 DEF ToLower, lowerCase
  <2>2. PICK w \in 0..6 : w \in o.weekdays
    <3>1. CASE Has(t, "weekday")
      <4>1. t.weekday \in weekdayAllEnum
        BY <1>1, <3>1 DEF scheduleTriggerSchema, weekdayLongEnum, weekdayAllEnum
      <4> QED BY <1>2, <3>1, <4>1, NamesNameDays, DaysDiffer DEF AsWritten
    <3>2. CASE Has(t, "weekdays")
      <4>1. /\ Len(t.weekdays) \in 1..7 /\ t.weekdays \in Seq(STRING)
            /\ \A i \in DOMAIN t.weekdays : t.weekdays[i] \in weekdayAllEnum
        BY <1>1, <3>2 DEF scheduleTriggerSchema, TriggerShape
      <4>2. 1 \in DOMAIN t.weekdays
        BY <4>1
      <4>3. DayOf(t.weekdays[1]) \in DaysOf(t.weekdays) /\ DayOf(t.weekdays[1]) \in DaysOfWeek
        BY <4>1, <4>2, NamesNameDays DEF DaysOf
      <4> QED BY <1>2, <3>2, <4>3, DaysDiffer DEF AsWritten
    <3>3. Has(t, "weekday") # Has(t, "weekdays")
      BY <1>1, <1>6 DEF scheduleTriggerSchema, weekdayXorRule
    <3>4. Has(t, "weekday") \in BOOLEAN /\ Has(t, "weekdays") \in BOOLEAN
      BY DEF Has
    <3>5. Has(t, "weekday") \/ Has(t, "weekdays")
      BY <3>3, <3>4
    <3> QED BY <3>1, <3>2, <3>5
  <2>3. Fires(o, NewDate(LeapYear, 1, w + 2))
    BY <2>1, <2>2, LeapYearHasEveryWeekday DEF Fires
  <2>4. 1 \in 1..12 /\ w + 2 \in 1..DaysIn(LeapYear, 1)
    BY <1>3
  <2> QED BY <1>4, <2>3, <2>4
<1>7. CASE t.recurrence = "OnDate"
  <2>1. o.kind = "ondate"
    BY <1>2, <1>7 DEF ToLower, lowerCase
  <2>2. o.month \in 1..12 /\ o.day \in 1..31
    BY <1>1, <1>2, <1>7 DEF scheduleTriggerSchema, onDateMonthDayRule, AsWritten
  <2>3. CASE o.day > DaysIn(LeapYear, o.month)
    BY <2>1, <2>3 DEF FiresSomeDay
  <2>4. CASE ~(o.day > DaysIn(LeapYear, o.month))
    <3>1. o.day \in 1..DaysIn(LeapYear, o.month)
      BY <1>3, <2>2, <2>4
    <3>2. Fires(o, NewDate(LeapYear, o.month, o.day))
      BY <2>1 DEF Fires, NewDate
    <3> QED BY <1>4, <2>2, <3>1, <3>2
  <2> QED BY <2>3, <2>4
<1> QED BY <1>5, <1>6, <1>7

-----------------------------------------------------------------------------
(* The inductive invariant.  What a list has found are stored objects, one *)
(* for each name; what it has collected are the definitions of those it    *)
(* has come to and could adapt, and nothing else.                          *)
Stores ==
  /\ DOMAIN api = Slugs
  /\ \A s \in Slugs : api[s] \in Stored[s] \union Objects[s] \union {None}

Found ==
  /\ \A e \in listed : \E s \in Slugs : \E cr \in Stored[s] \union Objects[s] : e = <<s, cr>>
  /\ \A e, f \in listed : e[1] = f[1] => e = f
  /\ todo \subseteq listed

Collected ==
  out = {<<e[1], adaptSchedule(e[2])>> : e \in {f \in listed \ todo : Adapts(f[2])}}

AdmissionInv ==
  /\ schema \in {"this", "other"} /\ up \in BOOLEAN /\ edits \in 0..MaxEdits
  /\ Stores /\ Found /\ Collected

(* Nothing is listed at the start.                                         *)
LEMMA AdmissionStarts == Init => AdmissionInv
<1> SUFFICES ASSUME Init PROVE AdmissionInv
  OBVIOUS
<1>1. Stores
  BY DEF Init, Stores
<1>2. Found /\ Collected
  BY DEF Init, Found, Collected
<1>3. schema \in {"this", "other"} /\ up \in BOOLEAN
  BY DEF Init
<1>4. edits \in 0..MaxEdits
  BY BoundsAssumption DEF Init
<1> QED BY <1>1, <1>2, <1>3, <1>4 DEF AdmissionInv

(* A list takes what is stored; going through it collects one by one.      *)
LEMMA AdmissionGoesOn == AdmissionInv /\ [Next]_vars => AdmissionInv'
<1> SUFFICES ASSUME AdmissionInv, [Next]_vars PROVE AdmissionInv'
  OBVIOUS
<1> USE DEF AdmissionInv
<1>1. CASE SetupCustomResourceDefinition \/ OtherBuildStarts \/ UNCHANGED vars
  BY <1>1 DEF SetupCustomResourceDefinition, OtherBuildStarts, vars, Stores, Found, Collected
<1>2. ASSUME NEW s \in Slugs, NEW cr \in Objects[s], Apply(s, cr) PROVE AdmissionInv'
  <2>1. Stores'
    BY <1>2 DEF Apply, Stores
  <2>2. Found' /\ Collected'
    BY <1>2 DEF Apply, Found, Collected
  <2>3. edits' \in 0..MaxEdits
    BY <1>2, BoundsAssumption DEF Apply
  <2> QED BY <1>2, <2>1, <2>2, <2>3 DEF Apply
<1>3. CASE List
  <2>1. listed' = {<<s, api[s]>> : s \in {t \in Slugs : api[t] # None}} /\ todo' = listed' /\ out' = {}
    BY <1>3 DEF List
  <2>2. Found'
    BY <2>1 DEF Found, Stores
  <2>3. Collected'
    BY <2>1 DEF Collected
  <2> QED BY <1>3, <2>2, <2>3 DEF List, Stores
<1>4. ASSUME NEW e \in todo, Adapt(e) PROVE AdmissionInv'
  <2>1. todo' = todo \ {e} /\ listed' = listed /\ e \in listed
    BY <1>4 DEF Adapt, Found
  <2>2. Found'
    BY <2>1 DEF Found
  <2>3. listed' \ todo' = (listed \ todo) \union {e}
    BY <2>1
  <2>4. Collected'
    <3>1. CASE Adapts(e[2])
      <4>1. out' = out \union {<<e[1], adaptSchedule(e[2])>>}
        BY <1>4, <3>1 DEF Adapt
      <4> QED BY <2>3, <3>1, <4>1 DEF Collected
    <3>2. CASE ~Adapts(e[2])
      <4>1. out' = out
        BY <1>4, <3>2 DEF Adapt
      <4> QED BY <2>3, <3>2, <4>1 DEF Collected
    <3> QED BY <3>1, <3>2
  <2> QED BY <1>4, <2>2, <2>4 DEF Adapt, Stores
<1> QED BY <1>1, <1>2, <1>3, <1>4 DEF Next

(* The two together.                                                       *)
LEMMA AdmissionInvHolds == Spec => []AdmissionInv
BY AdmissionStarts, AdmissionGoesOn, PTL DEF Spec

(* A found object has its declared types, and its definition in the result *)
(* is the adapted one.                                                     *)
LEMMA FoundObjects ==
  ASSUME AdmissionInv, NEW e \in listed
  PROVE  /\ e = <<e[1], e[2]>> /\ e[1] \in Slugs
         /\ e[2] \in Stored[e[1]] \union Objects[e[1]] /\ ShapeOfObject(e[2])
         /\ \A o \in out : o[1] = e[1] => o[2] = adaptSchedule(e[2])
<1>1. PICK s \in Slugs, cr \in UNION {Stored[r] \union Objects[r] : r \in Slugs} :
        e = <<s, cr>> /\ cr \in Stored[s] \union Objects[s]
  BY DEF AdmissionInv, Found
<1>2. ShapeOfObject(cr)
  BY <1>1, ShapesAssumption
<1>3. ASSUME NEW o \in out, o[1] = e[1] PROVE o[2] = adaptSchedule(e[2])
  <2>1. PICK f \in listed : o = <<f[1], adaptSchedule(f[2])>>
    BY DEF AdmissionInv, Collected
  <2>2. f[1] = e[1]
    BY <1>3, <2>1
  <2>3. f = e
    BY <2>2 DEF AdmissionInv, Found
  <2> QED BY <2>1, <2>3
<1> QED BY <1>1, <1>2, <1>3

-----------------------------------------------------------------------------
(* Every variable keeps its type, and every definition that comes out of a *)
(* list has a kind of the service, weekdays of the week and an integer     *)
(* where the object had none.                                              *)
THEOREM AdmissionIsTyped == Spec => []TypeOK
<1>1. AdmissionInv => TypeOK
  <2> SUFFICES ASSUME AdmissionInv PROVE TypeOK
    OBVIOUS
  <2>1. \A e \in listed : e[1] \in Slugs /\ e[2] \in Stored[e[1]] \union Objects[e[1]]
    BY FoundObjects
  <2>2. ASSUME NEW o \in out PROVE o[1] \in Slugs /\ o[2] \in Definitions
    <3>1. PICK e \in listed : Adapts(e[2]) /\ o = <<e[1], adaptSchedule(e[2])>>
      BY DEF AdmissionInv, Collected
    <3>2. e[1] \in Slugs /\ ShapeOfObject(e[2])
      BY FoundObjects
    <3>3. adaptSchedule(e[2]) \in Definitions
      BY <3>1, <3>2, AdaptedIsADefinition
    <3> QED BY <3>1, <3>2, <3>3
  <2> QED BY <2>1, <2>2 DEF TypeOK, AdmissionInv, Stores, Found
<1> QED BY <1>1, AdmissionInvHolds, PTL

(* The schema's required fields, enums, ranges and CEL rules admit the     *)
(* objects of the reference definition, and no others.                     *)
THEOREM AdmissionExact == Spec => []AdmissionIsExact
<1>1. AdmissionInv => AdmissionIsExact
  <2> SUFFICES ASSUME AdmissionInv, NEW s \in Slugs, api[s] # None
               PROVE  scheduleCRSchema(api[s]) <=> Valid(api[s])
    BY DEF AdmissionIsExact
  <2>1. api[s] \in Stored[s] \union Objects[s]
    BY DEF AdmissionInv, Stores
  <2>2. ShapeOfObject(api[s])
    BY <2>1, ShapesAssumption
  <2> QED BY <2>2, SchemaIsExact
<1> QED BY <1>1, AdmissionInvHolds, PTL

(* store.List: an object the schema admits is never dropped by the         *)
(* adapter, whatever is stored next to it.                                 *)
THEOREM AdmittedAreListed == Spec => []AdmittedIsListed
<1>1. AdmissionInv => AdmittedIsListed
  <2> SUFFICES ASSUME AdmissionInv, NEW e \in listed \ todo, scheduleCRSchema(e[2])
               PROVE  \E o \in out : o[1] = e[1]
    BY DEF AdmittedIsListed
  <2>1. Adapts(e[2])
    BY AdmittedAdapts
  <2>2. <<e[1], adaptSchedule(e[2])>> \in out
    BY <2>1 DEF AdmissionInv, Collected
  <2> QED BY <2>2
<1> QED BY <1>1, AdmissionInvHolds, PTL

(* Its definition says what the operator wrote.                            *)
THEOREM AdmittedMeanWhatTheySay == Spec => []ListedAsWritten
<1>1. AdmissionInv => ListedAsWritten
  <2>1. ASSUME AdmissionInv, NEW e \in listed, NEW o \in out, e[1] = o[1], scheduleCRSchema(e[2])
        PROVE  AsWritten(e[2].spec.schedule, o[2]) /\ o[2].vault = e[2].spec.vault
    BY <2>1, FoundObjects, AdmittedAsWritten
  <2> QED BY <2>1 DEF ListedAsWritten, AsWritten
<1> QED BY <1>1, AdmissionInvHolds, PTL

(* It fires on some date, unless its month never has its day.              *)
THEOREM AdmittedAreAlive == Spec => []AdmittedFires
<1>1. AdmissionInv => AdmittedFires
  <2>1. ASSUME AdmissionInv, NEW e \in listed, NEW o \in out, e[1] = o[1], scheduleCRSchema(e[2])
        PROVE  FiresSomeDay(o[2])
    BY <2>1, FoundObjects, AdmittedFiresSomeDay
  <2> QED BY <2>1 DEF AdmittedFires, FiresSomeDay
<1> QED BY <1>1, AdmissionInvHolds, PTL
=============================================================================
