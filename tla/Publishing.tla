----------------------------- MODULE Publishing -----------------------------
(***************************************************************************)
(* publisher.Publish, step by step, as called by the tick loop and by      *)
(* /trigger requests at the same time (pkg/publisher: publisher.go,        *)
(* renderer.go, frontmatter.go).  Both may publish the same Schedule for   *)
(* different dates.  The definition a pass works with is a copy, except    *)
(* for its frontmatter: adaptSchedule hands on the map of the object in    *)
(* the informer cache, which every other pass reads too.                   *)
(*                                                                         *)
(* A string is a sequence of pieces, each a literal or a placeholder.      *)
(***************************************************************************)
EXTENDS PeriodToken, Sequences

CONSTANTS
  Actors,   \* the tick loop and the requests
  Dates,    \* the civil dates of their passes
  Slug,     \* the name of the Schedule
  Objects   \* its successive versions: [kind, ..., title, body, frontmatter,
            \* autoAbortPrior, vault]

Versions == DOMAIN Objects

(* What a decoded object can hold: lists are JSON arrays, offsets integers. *)
ASSUME ObjectsAssumption ==
  /\ Objects # <<>> /\ Objects \in Seq({Objects[v] : v \in Versions})
  /\ \A v \in Versions : Objects[v].offset \in Int
  /\ \A v \in Versions : \A k \in DOMAIN Objects[v].frontmatter :
       LET x == Objects[v].frontmatter[k]
       IN  x.type = "list" => x.value \in Seq({x.value[i] : i \in DOMAIN x.value})

ASSUME DatesAssumption ==
  /\ Dates # {} /\ Dates \subseteq [year : Nat, month : Nat, day : Nat, hour : Nat]
  /\ \A d \in Dates : IsCivilDate(d)

-----------------------------------------------------------------------------
(* Values of a frontmatter map, and the pieces of a string.                *)
String(pieces)   == [type |-> "string", value |-> pieces]
List(entries)    == [type |-> "list", value |-> entries]
Other(x)         == [type |-> "other", value |-> x]
Literal(x)       == [hole |-> "", shows |-> x]
Hole(name)       == [hole |-> name, shows |-> NoToken]

placeholders ==
  {"current_date", "next_sat_date", "next_sun_date", "current_week", "next_week",
   "current_month", "next_month", "last_month", "current_quarter", "last_quarter",
   "current_year", "next_year", "last_year"}

(* An unknown placeholder stays as it is.                                  *)
Render(pieces, d) ==
  [i \in DOMAIN pieces |-> IF pieces[i].hole \in placeholders
                           THEN Literal(Placeholder(pieces[i].hole, d))
                           ELSE pieces[i]]

(* A value that is not a list; entries of a list are treated alike.        *)
RenderValue(v, d) == IF v.type = "string" THEN String(Render(v.value, d)) ELSE v

seeds ==
  [status    |-> String(<<Literal("in_progress")>>),
   page_type |-> String(<<Literal("task")>>),
   phase     |-> String(<<Literal("planning")>>)]

stamps(def, d) ==
  [defer_date       |-> String(<<Literal(deferDateFor(def.kind, d))>>),
   auto_abort_prior |-> Other(def.autoAbortPrior),
   created_by       |-> String(<<Literal("recurring-task-creator")>>)]

(* The map g after the assignment of every key of f.                       *)
Assign(f, g) ==
  [k \in DOMAIN f \union DOMAIN g |-> IF k \in DOMAIN f THEN f[k] ELSE g[k]]

Entry(k, v) == [x \in {k} |-> v]

-----------------------------------------------------------------------------
VARIABLES
  dryRun,   \* the publisher's DRY_RUN flag
  current,  \* the version in the informer cache
  shared,   \* [version -> the frontmatter map of its object, as it is now]
  pc,       \* [actor -> the step its Publish is at]
  version,  \* [actor -> the version whose definition it holds]
  date,     \* [actor -> the date of its pass]
  out,      \* [actor -> the frontmatter built so far]
  keys,     \* [actor -> the operator's keys the loop has not come to]
  list,     \* [actor -> the key of the list it renders, and what it has of it]
  sent      \* <<version, date, command>> for every command that was sent

calls == <<pc, version, date, out, keys, list>>
vars  == <<dryRun, current, shared, calls, sent>>

NoList == [key |-> "", fresh |-> <<>>]

TypeOK ==
  /\ dryRun \in BOOLEAN
  /\ current \in Versions
  /\ DOMAIN shared = Versions
  /\ pc \in [Actors -> {"idle", "merge", "list", "send"}]
  /\ version \in [Actors -> Versions]
  /\ date \in [Actors -> Dates]
  /\ \A a \in Actors :
       /\ keys[a] \subseteq DOMAIN shared[version[a]]
       /\ IF pc[a] = "list" THEN list[a].key \in keys[a] ELSE list[a] = NoList
       /\ pc[a] # "idle" => DOMAIN seeds \subseteq DOMAIN out[a]
  /\ \A s \in sent : s.version \in Versions /\ s.date \in Dates

Init ==
  /\ dryRun \in BOOLEAN
  /\ current = 1
  /\ shared = [v \in Versions |-> Objects[v].frontmatter]
  /\ pc = [a \in Actors |-> "idle"]
  /\ version = [a \in Actors |-> 1]
  /\ date \in [Actors -> {CHOOSE d \in Dates : TRUE}]
  /\ out = [a \in Actors |-> <<>>]
  /\ keys = [a \in Actors |-> {}]
  /\ list = [a \in Actors |-> NoList]
  /\ sent = {}

(* The informer puts another object in the place of the one it had; passes *)
(* that hold the old one keep it.                                          *)
Watch ==
  /\ current < Len(Objects)
  /\ current' = current + 1
  /\ UNCHANGED <<dryRun, shared, calls, sent>>

(* A pass comes to the Schedule with the object it listed, for a date it   *)
(* fires on.  Format seeds its result.                                     *)
Begin(a, d) ==
  /\ pc[a] = "idle"
  /\ Fires(Objects[current], d)
  /\ Build(Objects[current], d) # NoToken
  /\ pc' = [pc EXCEPT ![a] = "merge"]
  /\ version' = [version EXCEPT ![a] = current]
  /\ date' = [date EXCEPT ![a] = d]
  /\ out' = [out EXCEPT ![a] = seeds]
  /\ keys' = [keys EXCEPT ![a] = DOMAIN shared[current]]
  /\ UNCHANGED <<dryRun, current, shared, list, sent>>

(* The loop over the operator's map, in the order Go happens to take it.   *)
MergeValue(a, k) ==
  LET v == shared[version[a]][k]
  IN  /\ pc[a] = "merge" /\ k \in keys[a]
      /\ v.type # "list"
      /\ out' = [out EXCEPT ![a] = Assign(Entry(k, RenderValue(v, date[a])), @)]
      /\ keys' = [keys EXCEPT ![a] = @ \ {k}]
      /\ UNCHANGED <<dryRun, current, shared, pc, version, date, list, sent>>

BeginList(a, k) ==
  /\ pc[a] = "merge" /\ k \in keys[a]
  /\ shared[version[a]][k].type = "list"
  /\ pc' = [pc EXCEPT ![a] = "list"]
  /\ list' = [list EXCEPT ![a] = [key |-> k, fresh |-> <<>>]]
  /\ UNCHANGED <<dryRun, current, shared, version, date, out, keys, sent>>

(* Mutant: the entry is rendered where it is, in the informer's object.    *)
RenderEntryInPlace(a) ==
  LET k       == list[a].key
      entries == shared[version[a]][k].value
      i       == Len(list[a].fresh) + 1
  IN  /\ pc[a] = "list" /\ i <= Len(entries)
      /\ shared' = [shared EXCEPT ![version[a]][k].value[i] = RenderValue(@, date[a])]
      /\ list' = [list EXCEPT ![a].fresh = Append(@, RenderValue(entries[i], date[a]))]
      /\ UNCHANGED <<dryRun, current, pc, version, date, out, keys, sent>>

(* renderList fills a list of its own.                                     *)
RenderEntry(a) ==
  LET entries == shared[version[a]][list[a].key].value
      i       == Len(list[a].fresh) + 1
  IN  /\ pc[a] = "list" /\ i <= Len(entries)
      /\ list' = [list EXCEPT ![a].fresh = Append(@, RenderValue(entries[i], date[a]))]
      /\ UNCHANGED <<dryRun, current, shared, pc, version, date, out, keys, sent>>

(* Mutant: the list is left behind.                                        *)
EndListKeepingIt(a) ==
  LET k == list[a].key
  IN  /\ pc[a] = "list"
      /\ Len(list[a].fresh) = Len(shared[version[a]][k].value)
      /\ out' = [out EXCEPT ![a] = Assign(Entry(k, List(list[a].fresh)), @)]
      /\ keys' = [keys EXCEPT ![a] = @ \ {k}]
      /\ pc' = [pc EXCEPT ![a] = "merge"]
      /\ UNCHANGED <<dryRun, current, shared, version, date, list, sent>>

EndList(a) ==
  LET k == list[a].key
  IN  /\ pc[a] = "list"
      /\ Len(list[a].fresh) = Len(shared[version[a]][k].value)
      /\ out' = [out EXCEPT ![a] = Assign(Entry(k, List(list[a].fresh)), @)]
      /\ keys' = [keys EXCEPT ![a] = @ \ {k}]
      /\ list' = [list EXCEPT ![a] = NoList]
      /\ pc' = [pc EXCEPT ![a] = "merge"]
      /\ UNCHANGED <<dryRun, current, shared, version, date, sent>>

(* What no operator can override is put over the rest at the end.          *)
Stamp(a) ==
  /\ pc[a] = "merge" /\ keys[a] = {}
  /\ out' = [out EXCEPT ![a] = Assign(stamps(Objects[version[a]], date[a]), @)]
  /\ pc' = [pc EXCEPT ![a] = "send"]
  /\ UNCHANGED <<dryRun, current, shared, version, date, keys, list, sent>>

CreateCommand(def, d, frontmatter) ==
  [id          |-> Identifier(Slug, def, d),
   title       |-> Append(Render(def.title, d), Literal(Build(def, d))),
   frontmatter |-> frontmatter,
   body        |-> Render(def.body, d),
   vault       |-> def.vault]

Return(a) ==
  /\ pc' = [pc EXCEPT ![a] = "idle"]
  /\ out' = [out EXCEPT ![a] = <<>>]
  /\ UNCHANGED <<dryRun, current, shared, version, date, keys, list>>

(* SendCommand succeeds, or fails with or without the command having been  *)
(* sent; a dry run returns before it.                                      *)
Send(a) ==
  LET c == [version |-> version[a], date |-> date[a],
            command |-> CreateCommand(Objects[version[a]], date[a], out[a])]
  IN  /\ pc[a] = "send"
      /\ sent' \in IF dryRun THEN {sent} ELSE {sent, sent \union {c}}
      /\ Return(a)

Publish(a) ==
  \/ \E d \in Dates : Begin(a, d)
  \/ \E k \in keys[a] : MergeValue(a, k) \/ BeginList(a, k)
  \/ RenderEntry(a) \/ EndList(a) \/ Stamp(a) \/ Send(a)

Next == Watch \/ \E a \in Actors : Publish(a)

Spec == Init /\ [][Next]_vars

-----------------------------------------------------------------------------
(* Reference definition of the frontmatter, key by key and without order.  *)
Provenance == {"defer_date", "auto_abort_prior", "created_by"}

ExpectedValue(def, d, k) ==
  IF k \in Provenance
  THEN CASE k = "created_by"       -> String(<<Literal("recurring-task-creator")>>)
         [] k = "auto_abort_prior" -> Other(def.autoAbortPrior)
         [] k = "defer_date"       -> String(<<Literal(deferDateFor(def.kind, d))>>)
  ELSE IF k \in DOMAIN def.frontmatter
  THEN LET v == def.frontmatter[k]
       IN  IF v.type = "list"
           THEN List([i \in DOMAIN v.value |-> RenderValue(v.value[i], d)])
           ELSE RenderValue(v, d)
  ELSE seeds[k]

Expected(def, d) ==
  [k \in DOMAIN seeds \union Provenance \union DOMAIN def.frontmatter |->
     ExpectedValue(def, d, k)]

(* "Same (def, date) on a second call produces a byte-identical command"   *)
(* (publisher.go), whoever calls, whatever else is being published from    *)
(* the same object, in whatever order Go ranges over the map, and whether  *)
(* or not the Schedule has changed meanwhile: every command is that of one *)
(* version of the Schedule and one date, and an operator's key wins over a *)
(* seed but not over a stamp.                                              *)
CommandIsOfOneVersionAndDate ==
  \A s \in sent :
    s.command = CreateCommand(Objects[s.version], s.date,
                              Expected(Objects[s.version], s.date))

(* The placeholders that keep their value for the whole period of a kind.  *)
(* The coming Saturday is not one of the week: on its Sunday it is that of *)
(* the next.                                                               *)
Steady(kind) ==
  CASE kind = "weekly"    -> {"current_week", "next_week", "next_sun_date"}
    [] kind = "monthly"   -> {"current_month", "next_month", "last_month", "current_quarter",
                              "last_quarter", "current_year", "next_year", "last_year"}
    [] kind = "quarterly" -> {"current_quarter", "last_quarter", "current_year", "next_year",
                              "last_year"}
    [] kind = "yearly"    -> {"current_year", "next_year", "last_year"}
    [] OTHER              -> placeholders

HolesIn(pieces) == {pieces[i].hole : i \in DOMAIN pieces} \intersect placeholders

HolesInValue(v) ==
  CASE v.type = "string" -> HolesIn(v.value)
    [] v.type = "list"   -> UNION {HolesIn(v.value[i].value) :
                                     i \in {j \in DOMAIN v.value : v.value[j].type = "string"}}
    [] OTHER             -> {}

HolesInObject(def) ==
  HolesIn(def.title) \union HolesIn(def.body)
    \union UNION {HolesInValue(def.frontmatter[k]) : k \in DOMAIN def.frontmatter}

(* Of the commands of a period the controller keeps the first it sees.  It *)
(* does not matter which: when the templates only use placeholders that    *)
(* are steady over the period, the commands sent on all its days are the   *)
(* same.                                                                   *)
ReplaysAreIdentical ==
  \A s, t \in sent :
    /\ s.version = t.version /\ s.command.id = t.command.id
    /\ HolesInObject(Objects[s.version]) \subseteq Steady(Objects[s.version].kind)
    => s.command = t.command

(* What the description of the schema's frontmatter field says: the built- *)
(* in keys status, page_type and created_by always win on collision.       *)
BuiltInKeysWin ==
  \A s \in sent :
    /\ s.command.frontmatter["status"] = seeds["status"]
    /\ s.command.frontmatter["page_type"] = seeds["page_type"]
=============================================================================
