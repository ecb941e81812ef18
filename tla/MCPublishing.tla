---------------------------- MODULE MCPublishing ----------------------------
(***************************************************************************)
(* Two versions of one Schedule and two days of ISO week 2026-W53, in      *)
(* different years.  The first version is steady over the week and sets    *)
(* keys the service seeds or stamps; the second is of each day.            *)
(***************************************************************************)
EXTENDS Publishing, TLC

Thursday31 == NewDate(2026, 12, 31)
Sunday3    == NewDate(2027, 1, 3)

MCDates == {Thursday31, Sunday3}

Word(x) == String(<<Literal(x)>>)

WeeklyVersion ==
  [kind |-> "weekly", weekdays |-> {}, month |-> 0, day |-> 0, offset |-> 0,
   title |-> <<Literal("plan"), Hole("current_week")>>,
   body  |-> <<Hole("next_sun_date"), Hole("unknown")>>,
   frontmatter |-> [status     |-> Word("todo"),
                    created_by |-> Word("operator"),
                    links      |-> List(<<String(<<Hole("next_week")>>), Other(5)>>)],
   autoAbortPrior |-> TRUE, vault |-> "personal"]

DailyVersion ==
  [kind |-> "daily", weekdays |-> {}, month |-> 0, day |-> 0, offset |-> 0,
   title |-> <<Literal("note")>>,
   body  |-> <<Hole("next_sat_date")>>,
   frontmatter |-> [defer_date |-> Other(7),
                    links      |-> List(<<String(<<Hole("current_date")>>)>>)],
   autoAbortPrior |-> FALSE, vault |-> "family"]

MCObjects == <<WeeklyVersion, DailyVersion>>

Symmetry == Permutations(Actors)
=============================================================================
