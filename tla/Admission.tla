------------------------------ MODULE Admission ------------------------------
(***************************************************************************)
(* From what an operator writes into a Schedule to the definition the      *)
(* service works with.  The API server checks a write against the schema   *)
(* the CRD has at that moment (pkg/k8s_connector_schema.go), and does not  *)
(* look again when the CRD gets another schema; the store decodes what is  *)
(* stored and adapts it (pkg/store/adapter.go), dropping what it cannot    *)
(* adapt.                                                                  *)
(*                                                                         *)
(* A JSON object is a record with the fields that are set.  Values have    *)
(* the JSON type the schema declares.                                      *)
(***************************************************************************)
EXTENDS PeriodToken, Sequences, FiniteSets

CONSTANTS
  Slugs,       \* the names of Schedule resources
  Stored,      \* [slug -> what may have been stored before this build came]
  Objects,     \* [slug -> the objects that operators apply]
  VaultNames,  \* the vault names that match vaultPattern
  None,        \* no Schedule of that name
  MaxEdits     \* bounds the operators' writes

Has(self, field) == field \in DOMAIN self

(* Every object has, of the fields the schema declares, some, and each of  *)
(* its declared type; the API server prunes the others.                    *)
TriggerShape(self) ==
  /\ DOMAIN self \subseteq {"recurrence", "weekday", "weekdays", "periodOffset", "month", "day",
                            "autoAbortPrior"}
  /\ Has(self, "recurrence") => self.recurrence \in STRING
  /\ Has(self, "weekday") => self.weekday \in STRING
  /\ Has(self, "weekdays") => self.weekdays \in Seq(STRING)
  /\ Has(self, "periodOffset") => self.periodOffset \in Int
  /\ Has(self, "month") => self.month \in Int
  /\ Has(self, "day") => self.day \in Int
  /\ Has(self, "autoAbortPrior") => self.autoAbortPrior \in BOOLEAN

SpecShape(spec) ==
  /\ DOMAIN spec \subseteq {"vault", "title", "schedule", "template"}
  /\ Has(spec, "vault") => spec.vault \in STRING
  /\ Has(spec, "schedule") => TriggerShape(spec.schedule)

ShapeOfObject(cr) ==
  /\ DOMAIN cr \subseteq {"spec"}
  /\ Has(cr, "spec") => SpecShape(cr.spec)

ASSUME ShapesAssumption ==
  \A s \in Slugs : \A cr \in Stored[s] \union Objects[s] : cr # None /\ ShapeOfObject(cr)
ASSUME VaultsAssumption == VaultNames \subseteq STRING
ASSUME BoundsAssumption == MaxEdits \in Nat

-----------------------------------------------------------------------------
(* The schema.                                                             *)
recurrenceEnum ==
  {"Daily", "Weekly", "Weekday", "Monthly", "Quarterly", "Yearly", "OnDate", "Hourly"}

weekdayLongEnum ==
  {"Monday", "Tuesday", "Wednesday", "Thursday", "Friday", "Saturday", "Sunday"}

weekdayAllEnum == weekdayLongEnum \union {"Mon", "Tue", "Wed", "Thu", "Fri", "Sat", "Sun"}

(* The map inside weekdayNoDuplicateRule.                                  *)
canonicalDay ==
  [Mon |-> "Monday", Tue |-> "Tuesday", Wed |-> "Wednesday", Thu |-> "Thursday",
   Fri |-> "Friday", Sat |-> "Saturday", Sun |-> "Sunday",
   Monday |-> "Monday", Tuesday |-> "Tuesday", Wednesday |-> "Wednesday",
   Thursday |-> "Thursday", Friday |-> "Friday", Saturday |-> "Saturday", Sunday |-> "Sunday"]

(* Mutant: one of the two is enough, so both will do.                      *)
weekdayOrRule(self) ==
  IF self.recurrence = "Weekday" THEN Has(self, "weekday") \/ Has(self, "weekdays")
  ELSE ~Has(self, "weekday") /\ ~Has(self, "weekdays")

(* Mutant: the days are only forbidden elsewhere, not required here.       *)
weekdayForbiddenRule(self) ==
  self.recurrence # "Weekday" => ~Has(self, "weekday") /\ ~Has(self, "weekdays")

weekdayXorRule(self) ==
  IF self.recurrence = "Weekday" THEN Has(self, "weekday") # Has(self, "weekdays")
  ELSE ~Has(self, "weekday") /\ ~Has(self, "weekdays")

periodOffsetOnlyForPeriodKindsRule(self) ==
  Has(self, "periodOffset") =>
    self.periodOffset = 0 \/ self.recurrence \in {"Monthly", "Quarterly", "Yearly"}

(* A name the map does not have is an evaluation error, which rejects too. *)
weekdayNoDuplicateRule(self) ==
  Has(self, "weekdays") =>
    \A i, j \in DOMAIN self.weekdays :
      /\ self.weekdays[i] \in DOMAIN canonicalDay
      /\ canonicalDay[self.weekdays[i]] = canonicalDay[self.weekdays[j]] => i = j

onDateMonthDayRule(self) ==
  IF self.recurrence = "OnDate" THEN Has(self, "month") /\ Has(self, "day")
  ELSE ~Has(self, "month") /\ ~Has(self, "day")

scheduleTriggerSchema(self) ==
  /\ Has(self, "recurrence") /\ self.recurrence \in recurrenceEnum
  /\ Has(self, "weekday") => self.weekday \in weekdayLongEnum
  /\ Has(self, "weekdays") => /\ Len(self.weekdays) \in 1..7
                              /\ \A i \in DOMAIN self.weekdays : self.weekdays[i] \in weekdayAllEnum
  /\ Has(self, "month") => self.month \in 1..12
  /\ Has(self, "day") => self.day \in 1..31
  /\ weekdayXorRule(self)
  /\ periodOffsetOnlyForPeriodKindsRule(self)
  /\ weekdayNoDuplicateRule(self)
  /\ onDateMonthDayRule(self)

scheduleSpecSchema(spec) ==
  /\ {"vault", "title", "schedule", "template"} \subseteq DOMAIN spec
  /\ spec.vault \in VaultNames
  /\ scheduleTriggerSchema(spec.schedule)

scheduleCRSchema(cr) == Has(cr, "spec") /\ scheduleSpecSchema(cr.spec)

-----------------------------------------------------------------------------
(* Decoding into the API types gives an absent field its zero value.       *)
OrZero(self, zeros) ==
  [f \in DOMAIN self \union DOMAIN zeros |-> IF Has(self, f) THEN self[f] ELSE zeros[f]]

ScheduleTrigger(self) ==
  OrZero(self, [recurrence |-> "", weekday |-> "", weekdays |-> <<>>, periodOffset |-> 0,
                month |-> 0, day |-> 0, autoAbortPrior |-> FALSE])

ScheduleSpec(spec) ==
  OrZero(spec, [vault |-> "", title |-> "", schedule |-> <<>>, template |-> <<>>])

Schedule(cr) == OrZero(cr, [spec |-> <<>>])

(* Mutants: Sunday as ISO 8601 numbers it, and a table that leaves out a   *)
(* short form.                                                             *)
weekdayByISOName ==
  [Sunday |-> 7, Monday |-> 1, Tuesday |-> 2, Wednesday |-> 3, Thursday |-> 4, Friday |-> 5,
   Saturday |-> 6, Sun |-> 7, Mon |-> 1, Tue |-> 2, Wed |-> 3, Thu |-> 4, Fri |-> 5, Sat |-> 6]

weekdayByLongName ==
  [Sunday |-> 0, Monday |-> 1, Tuesday |-> 2, Wednesday |-> 3, Thursday |-> 4, Friday |-> 5,
   Saturday |-> 6, Sun |-> 0, Mon |-> 1, Tue |-> 2, Wed |-> 3, Fri |-> 5, Sat |-> 6]

weekdayByName ==
  [Sunday |-> 0, Monday |-> 1, Tuesday |-> 2, Wednesday |-> 3, Thursday |-> 4, Friday |-> 5,
   Saturday |-> 6, Sun |-> 0, Mon |-> 1, Tue |-> 2, Wed |-> 3, Thu |-> 4, Fri |-> 5, Sat |-> 6]

(* strings.ToLower, on the words of the schema.                            *)
lowerCase ==
  [Daily |-> "daily", Weekly |-> "weekly", Weekday |-> "weekday", Monthly |-> "monthly",
   Quarterly |-> "quarterly", Yearly |-> "yearly", OnDate |-> "ondate", Hourly |-> "hourly"]

ToLower(word) == IF word \in DOMAIN lowerCase THEN lowerCase[word] ELSE word

(* A single weekday hides a list.                                          *)
names(trigger) ==
  IF trigger.weekday # "" THEN {trigger.weekday}
  ELSE {trigger.weekdays[i] : i \in DOMAIN trigger.weekdays}

(* Is there a definition, or does adaptSchedule return an error?           *)
Adapts(cr) ==
  LET spec    == ScheduleSpec(Schedule(cr).spec)
      trigger == ScheduleTrigger(spec.schedule)
  IN  /\ ToLower(trigger.recurrence) \in AllRecurrenceKinds
      /\ names(trigger) \subseteq DOMAIN weekdayByName

(* Mutant: only the list is read.                                          *)
adaptListOnly(cr) ==
  LET spec    == ScheduleSpec(Schedule(cr).spec)
      trigger == ScheduleTrigger(spec.schedule)
  IN  [kind     |-> ToLower(trigger.recurrence),
       weekdays |-> {weekdayByName[trigger.weekdays[i]] : i \in DOMAIN trigger.weekdays},
       month    |-> trigger.month,
       day      |-> trigger.day,
       offset   |-> trigger.periodOffset,
       autoAbortPrior |-> trigger.autoAbortPrior,
       vault    |-> spec.vault]

adaptSchedule(cr) ==
  LET spec    == ScheduleSpec(Schedule(cr).spec)
      trigger == ScheduleTrigger(spec.schedule)
  IN  [kind     |-> ToLower(trigger.recurrence),
       weekdays |-> {weekdayByName[name] : name \in names(trigger)},
       month    |-> trigger.month,
       day      |-> trigger.day,
       offset   |-> trigger.periodOffset,
       autoAbortPrior |-> trigger.autoAbortPrior,
       vault    |-> spec.vault]

-----------------------------------------------------------------------------
VARIABLES
  schema,  \* the schema of the CRD: this build's, or that of another build
  up,      \* has this build set up the CRD, so that it may list?
  api,     \* [slug -> the object in the Kubernetes API, or None]
  edits,   \* writes so far
  listed,  \* the <<slug, object>> pairs the lister returned to store.List
  todo,    \* those its loop has not come to
  out      \* the <<slug, definition>> pairs it has collected

vars == <<schema, up, api, edits, listed, todo, out>>

(* The vault is the empty one when a stored spec has none.                 *)
Definitions ==
  [kind : AllRecurrenceKinds, weekdays : SUBSET (0..6), month : Int, day : Int, offset : Int,
   autoAbortPrior : BOOLEAN, vault : STRING \union {""}]

TypeOK ==
  /\ schema \in {"this", "other"}
  /\ up \in BOOLEAN
  /\ \A s \in Slugs : api[s] \in Stored[s] \union Objects[s] \union {None}
  /\ edits \in 0..MaxEdits
  /\ \A e \in listed : e[1] \in Slugs /\ e[2] \in Stored[e[1]] \union Objects[e[1]]
  /\ todo \subseteq listed
  /\ \A e \in out : e[1] \in Slugs /\ e[2] \in Definitions

Init ==
  /\ schema = "other"
  /\ up = FALSE
  /\ api \in {f \in [Slugs -> UNION {Stored[s] : s \in Slugs} \union {None}] :
                \A s \in Slugs : f[s] \in Stored[s] \union {None}}
  /\ edits = 0
  /\ listed = {} /\ todo = {} /\ out = {}

(* Every start registers the schema this build was compiled with.          *)
SetupCustomResourceDefinition ==
  /\ schema' = "this"
  /\ up' = TRUE
  /\ UNCHANGED <<api, edits, listed, todo, out>>

(* A build with another schema starts in the same cluster.                 *)
OtherBuildStarts ==
  /\ schema' = "other"
  /\ UNCHANGED <<up, api, edits, listed, todo, out>>

(* What another build's schema lets through is not known here.             *)
Apply(s, cr) ==
  /\ edits < MaxEdits
  /\ schema = "this" => scheduleCRSchema(cr)
  /\ api' = [api EXCEPT ![s] = cr]
  /\ edits' = edits + 1
  /\ UNCHANGED <<schema, up, listed, todo, out>>

(* store.List takes the lister's slice and goes through it.                *)
List ==
  /\ up
  /\ todo = {}
  /\ listed' = {<<s, api[s]>> : s \in {t \in Slugs : api[t] # None}}
  /\ todo' = listed'
  /\ out' = {}
  /\ UNCHANGED <<schema, up, api, edits>>

Adapt(e) ==
  /\ todo' = todo \ {e}
  /\ out' = IF Adapts(e[2]) THEN out \union {<<e[1], adaptSchedule(e[2])>>} ELSE out
  /\ UNCHANGED <<schema, up, api, edits, listed>>

Next ==
  \/ SetupCustomResourceDefinition
  \/ OtherBuildStarts
  \/ \E s \in Slugs : \E cr \in Objects[s] : Apply(s, cr)
  \/ List
  \/ \E e \in todo : Adapt(e)

Spec == Init /\ [][Next]_vars

-----------------------------------------------------------------------------
(* Reference definition of a valid spec, by what each recurrence needs and *)
(* not by the rules: its fields are the required ones, the trigger names a *)
(* recurrence and sets exactly what that recurrence is about, within its   *)
(* range.                                                                  *)
DaysOfWeek ==
  {[long |-> "Sunday", short |-> "Sun", number |-> 0], [long |-> "Monday", short |-> "Mon", number |-> 1],
   [long |-> "Tuesday", short |-> "Tue", number |-> 2], [long |-> "Wednesday", short |-> "Wed", number |-> 3],
   [long |-> "Thursday", short |-> "Thu", number |-> 4], [long |-> "Friday", short |-> "Fri", number |-> 5],
   [long |-> "Saturday", short |-> "Sat", number |-> 6]}

DayOf(name) == CHOOSE day \in DaysOfWeek : name \in {day.long, day.short}

DaysOf(list) == {DayOf(list[i]) : i \in DOMAIN list}

ValidTrigger(t) ==
  LET set == DOMAIN t \ {"recurrence", "autoAbortPrior"}
      noOffset == set \subseteq {"periodOffset"} /\ (set # {} => t.periodOffset = 0)
      rest == set \ {"periodOffset"}
      zeroOffset == "periodOffset" \in set => t.periodOffset = 0
  IN  /\ "recurrence" \in DOMAIN t
      /\ CASE t.recurrence \in {"Daily", "Weekly", "Hourly"} -> noOffset
           [] t.recurrence \in {"Monthly", "Quarterly", "Yearly"} -> rest = {}
           [] t.recurrence = "OnDate" ->
                zeroOffset /\ rest = {"month", "day"} /\ t.month \in 1..12 /\ t.day \in 1..31
           [] t.recurrence = "Weekday" ->
                /\ zeroOffset
                /\ \/ rest = {"weekday"} /\ t.weekday \in weekdayLongEnum
                   \/ /\ rest = {"weekdays"} /\ t.weekdays # <<>>
                      /\ \A i \in DOMAIN t.weekdays : t.weekdays[i] \in weekdayAllEnum
                      /\ Cardinality(DaysOf(t.weekdays)) = Len(t.weekdays)
           [] OTHER -> FALSE

Valid(cr) ==
  /\ DOMAIN cr = {"spec"}
  /\ DOMAIN cr.spec = {"vault", "title", "schedule", "template"}
  /\ cr.spec.vault \in VaultNames
  /\ ValidTrigger(cr.spec.schedule)

(* The enums, ranges and four CEL rules together let through what is valid *)
(* and nothing else: neither does a hole between two rules admit half a    *)
(* trigger, nor do they contradict each other for a kind.                  *)
AdmissionIsExact ==
  \A s \in Slugs : api[s] # None => (scheduleCRSchema(api[s]) <=> Valid(api[s]))

(* The weekday tables of the enum, the CEL rule and the adapter are three  *)
(* copies.  A Schedule that this build's schema admits is in every list    *)
(* that finds it, whatever other builds have left stored next to it.       *)
AdmittedIsListed ==
  \A e \in listed \ todo :
    scheduleCRSchema(e[2]) => \E o \in out : o[1] = e[1]

(* ... and it means what it says: each day that was written, under either  *)
(* of its names, is a day of the definition, no day was written twice, and *)
(* the rest is carried over.                                               *)
ListedAsWritten ==
  \A e \in listed, o \in out :
    e[1] = o[1] /\ scheduleCRSchema(e[2]) =>
      LET t == e[2].spec.schedule
      IN  /\ Has(t, "weekday") => o[2].weekdays = {DayOf(t.weekday).number}
          /\ Has(t, "weekdays") => /\ o[2].weekdays = {d.number : d \in DaysOf(t.weekdays)}
                                   /\ Cardinality(o[2].weekdays) = Len(t.weekdays)
          /\ Has(t, "month") => <<o[2].month, o[2].day>> = <<t.month, t.day>>
          /\ Has(t, "periodOffset") => o[2].offset = t.periodOffset
          /\ o[2].autoAbortPrior <=> Has(t, "autoAbortPrior") /\ t.autoAbortPrior
          /\ o[2].vault = e[2].spec.vault

LeapYear == 2028

(* No admitted Schedule is dead: on some day of a leap year it fires, and  *)
(* then it has a token.  The exception is the one the schema names, an     *)
(* OnDate day its month never has.                                         *)
AdmittedFires ==
  \A e \in listed, o \in out :
    e[1] = o[1] /\ scheduleCRSchema(e[2]) =>
      \/ \E m \in 1..12 : \E day \in 1..DaysIn(LeapYear, m) :
           LET d == NewDate(LeapYear, m, day)
           IN  Fires(o[2], d) /\ Build(o[2], d) # NoToken
      \/ o[2].kind = "ondate" /\ o[2].day > DaysIn(LeapYear, o[2].month)
=============================================================================
