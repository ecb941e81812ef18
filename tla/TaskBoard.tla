----------------------------- MODULE TaskBoard -----------------------------
(***************************************************************************)
(* What the service promises to whoever looks at the task board: every     *)
(* task on it was asked for by a Schedule that fires on a day that has     *)
(* come or that an operator asked for, no two tasks share an identifier,   *)
(* and a task once created stays as it is.                                 *)
(***************************************************************************)
CONSTANTS
  Fires(_, _),    \* does a definition fire on a day?
  Command(_, _)   \* the task for <<slug, definition>> on a day; its id is the identifier

VARIABLES
  schedules,  \* every <<slug, definition>> that was ever applied
  days,       \* every civil date that has come or was asked for
  files       \* the task files

vars == <<schedules, days, files>>

Wanted(c) ==
  \E entry \in schedules, d \in days : Fires(entry[2], d) /\ c = Command(entry, d)

Init == files = {}

Learn ==
  /\ schedules \subseteq schedules'
  /\ days \subseteq days'
  /\ UNCHANGED files

Create(c) ==
  /\ Wanted(c)
  /\ \A f \in files : f.id # c.id
  /\ files' = files \union {c}
  /\ UNCHANGED <<schedules, days>>

Next ==
  \/ Learn
  \/ \E entry \in schedules, d \in days : Create(Command(entry, d))

Spec == Init /\ [][Next]_vars
=============================================================================
