---------------------------- MODULE MCCivilDays ----------------------------
EXTENDS CivilDays

(* Every pair of a weekday of 1 January and a leap year or not: 28 years   *)
(* of the four-year rule, and the century that is not a leap year.         *)
MCYears == 2023..2050 \union {2099, 2100, 2101}

(* The offsets in use, and ones that carry a year over in both directions. *)
MCOffsets == {-13, -4, -1, 0, 1, 5}
=============================================================================
