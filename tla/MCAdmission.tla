---------------------------- MODULE MCAdmission ----------------------------
(***************************************************************************)
(* Triggers around every boundary of the schema: each recurrence with each *)
(* field it may or may not have, every weekday name alone and every short  *)
(* name next to every long one, dates at the ends of their ranges.         *)
(***************************************************************************)
EXTENDS Admission, TLC

TwoSlugs == {"first", "second"}

Recurrence(r) == [recurrence |-> r]

Recurrences == {Recurrence(r) : r \in recurrenceEnum \union {"daily", "Fortnightly", ""}}

Shorts == {"Mon", "Tue", "Wed", "Thu", "Fri", "Sat", "Sun"}

Week == <<"Sun", "Monday", "Tue", "Wednesday", "Thu", "Friday", "Sat">>

Extras ==
  [weekday : {"Monday", "Mon", ""}]
    \union [weekdays : {<<>>, <<"Mon">>, <<"Funday">>}]
    \union [weekday : {"Monday"}, weekdays : {<<"Monday">>}]
    \union [periodOffset : {-1, 0}]
    \union [month : {2}] \union [day : {29}]
    \union [month : {2}, day : {29}]
    \union [autoAbortPrior : BOOLEAN]

DayLists ==
  {<<n>> : n \in weekdayAllEnum} \union (Shorts \X weekdayLongEnum)
    \union {Week, Append(Week, "Sunday"), <<"Mon", "Mon">>}

Triggers ==
  Recurrences
    \union {r @@ x : r \in Recurrences, x \in Extras}
    \union {Recurrence("Weekday") @@ [weekday |-> n] : n \in weekdayAllEnum}
    \union {Recurrence("Weekday") @@ [weekdays |-> l] : l \in DayLists}
    \union {Recurrence("OnDate") @@ x : x \in [month : {0, 1, 2, 4, 12, 13}, day : {0, 1, 29, 30, 31, 32}]}
    \union {Recurrence("OnDate") @@ [month |-> 1, day |-> 1, periodOffset |-> 1]}
    \union {[weekday |-> "Monday"]}

Filled(trigger) ==
  [spec |-> [vault |-> "personal", title |-> "title", schedule |-> trigger, template |-> <<>>]]

Daily == Filled(Recurrence("Daily"))

(* No spec, one field missing each, and a vault name outside the pattern.  *)
Incomplete ==
  {<<>>, [Daily EXCEPT !.spec.vault = "My Vault"]}
    \union {[spec |-> [f \in DOMAIN Daily.spec \ {missing} |-> Daily.spec[f]]] :
              missing \in DOMAIN Daily.spec}

MCVaultNames == {"personal"}

MCObjects ==
  [s \in TwoSlugs |-> IF s = "first" THEN {Filled(t) : t \in Triggers} \union Incomplete
                      ELSE {Daily}]

(* A neighbour that does not adapt, and one that never fires.              *)
MCStored ==
  [s \in TwoSlugs |-> IF s = "first" THEN {Daily}
                      ELSE {Filled(Recurrence("Fortnightly")), Filled(Recurrence("Weekday"))}]
=============================================================================
