-------------------------- MODULE PublishingProofs --------------------------
(***************************************************************************)
(* For any number of actors, dates and versions, and any frontmatter:      *)
(* every command is that of one version and one date, and the commands of  *)
(* a period are the same when the templates are steady over it.            *)
(***************************************************************************)
EXTENDS Publishing, PeriodTokenProofs, SequenceTheorems, TLAPS

USE ObjectsAssumption DEF calls

Frontmatter(v) == Objects[v].frontmatter

(* What the loop makes of one value, and of one key.                       *)
RenderedValue(v, d) ==
  IF v.type = "list" THEN List([i \in DOMAIN v.value |-> RenderValue(v.value[i], d)])
  ELSE RenderValue(v, d)

Rendered(v, k, d) == RenderedValue(Frontmatter(v)[k], d)

(* The frontmatter when the keys K are still to come: rendered where the   *)
(* loop has been, seeded elsewhere.                                        *)
Merged(v, d, K) ==
  [k \in DOMAIN seeds \union (DOMAIN Frontmatter(v) \ K) |->
     IF k \in DOMAIN Frontmatter(v) \ K THEN Rendered(v, k, d) ELSE seeds[k]]

(* The first n entries of a list, rendered.                                *)
Prefix(entries, d, n) == [i \in 1..n |-> RenderValue(entries[i], d)]

-----------------------------------------------------------------------------
(* The inductive invariant: the informer's map is as it was delivered, and *)
(* each call has made of it what its place in the loop says.               *)
Functions ==
  /\ version \in [Actors -> Versions] /\ current \in Versions
  /\ DOMAIN date = Actors /\ DOMAIN pc = Actors /\ DOMAIN out = Actors
  /\ DOMAIN keys = Actors /\ DOMAIN list = Actors

Untouched == shared = [v \in Versions |-> Frontmatter(v)]

Building(a) ==
  pc[a] \in {"merge", "list"} =>
    /\ keys[a] \subseteq DOMAIN Frontmatter(version[a])
    /\ out[a] = Merged(version[a], date[a], keys[a])

Listing(a) ==
  pc[a] = "list" =>
    LET x == Frontmatter(version[a])[list[a].key]
    IN  /\ list[a].key \in keys[a]
        /\ x.type = "list"
        /\ Len(list[a].fresh) \in 0..Len(x.value)
        /\ list[a] = [key   |-> list[a].key,
                      fresh |-> Prefix(x.value, date[a], Len(list[a].fresh))]

Ready(a) ==
  pc[a] = "send" => out[a] = Expected(Objects[version[a]], date[a])

BuildInv ==
  /\ Functions /\ Untouched /\ CommandIsOfOneVersionAndDate
  /\ \A a \in Actors : Building(a) /\ Listing(a) /\ Ready(a)

-----------------------------------------------------------------------------
(* A list of a decoded frontmatter is a sequence.                          *)
LEMMA ListsAreSeqs ==
  ASSUME NEW v \in Versions, NEW k \in DOMAIN Frontmatter(v),
         Frontmatter(v)[k].type = "list"
  PROVE  LET y == Frontmatter(v)[k].value
         IN  y \in Seq({y[i] : i \in DOMAIN y}) /\ Len(y) \in Nat
<1> DEFINE y == Frontmatter(v)[k].value
           S == {y[i] : i \in DOMAIN y}
<1>1. y \in Seq(S)
  BY DEF Frontmatter
<1> HIDE DEF S, y
<1>2. Len(y) \in Nat
  BY <1>1, LenProperties
<1> QED BY <1>1, <1>2 DEF S, y

(* A function on 1..n is a sequence of n elements.                         *)
LEMMA CutIsASeq ==
  ASSUME NEW S, NEW f, NEW n \in Nat, \A i \in 1..n : f[i] \in S
  PROVE  [i \in 1..n |-> f[i]] \in Seq(S) /\ Len([i \in 1..n |-> f[i]]) = n
OBVIOUS

(* One more entry makes the longer prefix.                                 *)
LEMMA PrefixGrows ==
  ASSUME NEW entries, NEW d, NEW n \in Nat, Len(entries) \in Nat, n < Len(entries)
  PROVE  LET longer == Append(Prefix(entries, d, n), RenderValue(entries[n + 1], d))
         IN  longer = Prefix(entries, d, n + 1) /\ Len(longer) = n + 1
<1> DEFINE f == [i \in 1..Len(entries) |-> RenderValue(entries[i], d)]
           S == {f[i] : i \in 1..Len(entries)}
           p == Prefix(entries, d, n)
           q == Prefix(entries, d, n + 1)
           e == RenderValue(entries[n + 1], d)
<1>1. p = [i \in 1..n |-> f[i]] /\ q = [i \in 1..(n + 1) |-> f[i]]
  BY DEF Prefix
<1>2. \A i \in 1..Len(entries) : f[i] \in S
  OBVIOUS
<1>3. e = f[n + 1] /\ e \in S
  BY <1>2
<1> HIDE DEF f, S, e
<1>4. p \in Seq(S) /\ Len(p) = n
  BY <1>1, <1>2, CutIsASeq
<1>5. q \in Seq(S) /\ Len(q) = n + 1
  BY <1>1, <1>2, CutIsASeq
<1>6. \A i \in 1..n : p[i] = f[i]
  BY <1>1
<1>7. \A i \in 1..(n + 1) : q[i] = f[i]
  BY <1>1
<1> HIDE DEF p, q
<1>8. /\ Append(p, e) \in Seq(S) /\ Len(Append(p, e)) = n + 1
      /\ \A i \in 1..n : Append(p, e)[i] = p[i]
      /\ Append(p, e)[n + 1] = e
  BY <1>3, <1>4, AppendProperties
<1>9. \A i \in 1..(n + 1) : Append(p, e)[i] = q[i]
  BY <1>3, <1>6, <1>7, <1>8
<1>10. Append(p, e) = q
  BY <1>5, <1>8, <1>9, SeqEqual
<1> QED BY <1>8, <1>10 DEF p, q, e

(* Rendering a key moves it from the seeded to the rendered ones.          *)
LEMMA MergedGrows ==
  ASSUME NEW v, NEW d, NEW K, K \subseteq DOMAIN Frontmatter(v), NEW k \in K
  PROVE  Assign(Entry(k, Rendered(v, k, d)), Merged(v, d, K)) = Merged(v, d, K \ {k})
  BY DEF Merged, Assign, Entry

(* The stamps over the merged keys are the reference definition.           *)
LEMMA StampedIsExpected ==
  ASSUME NEW v, NEW d
  PROVE  Assign(stamps(Objects[v], d), Merged(v, d, {})) = Expected(Objects[v], d)
<1> DEFINE s == stamps(Objects[v], d)
           m == Merged(v, d, {})
<1>1. DOMAIN s = Provenance
  BY DEF stamps, Provenance
<1>2. /\ s["defer_date"] = String(<<Literal(deferDateFor(Objects[v].kind, d))>>)
      /\ s["auto_abort_prior"] = Other(Objects[v].autoAbortPrior)
      /\ s["created_by"] = String(<<Literal("recurring-task-creator")>>)
  BY DEF stamps
<1>3. DOMAIN m = DOMAIN seeds \union DOMAIN Frontmatter(v)
  BY DEF Merged
<1>4. DOMAIN Assign(s, m) = DOMAIN Expected(Objects[v], d)
  BY <1>1, <1>3 DEF Expected, Frontmatter, Assign
<1>5. ASSUME NEW k \in DOMAIN seeds \union Provenance \union DOMAIN Frontmatter(v)
      PROVE  Assign(s, m)[k] = Expected(Objects[v], d)[k]
  <2> DEFINE e == ExpectedValue(Objects[v], d, k)
  <2>0. Expected(Objects[v], d)[k] = e
    BY DEF Expected, Frontmatter
  <2>1. CASE k \in Provenance
    <3>1. Assign(s, m)[k] = s[k]
      BY <2>1, <1>1, <1>3 DEF Assign
    <3>2. s[k] = e
      <4>1. CASE k = "created_by"
        <5>1. e = String(<<Literal("recurring-task-creator")>>)
          BY <4>1 DEF ExpectedValue, Provenance
        <5> QED BY <4>1, <5>1, <1>2
      <4>2. CASE k = "auto_abort_prior"
        <5>1. e = Other(Objects[v].autoAbortPrior)
          BY <4>2 DEF ExpectedValue, Provenance
        <5> QED BY <4>2, <5>1, <1>2
      <4>3. CASE k = "defer_date"
        <5>1. e = String(<<Literal(deferDateFor(Objects[v].kind, d))>>)
          BY <4>3 DEF ExpectedValue, Provenance
        <5> QED BY <4>3, <5>1, <1>2
      <4> QED BY <2>1, <4>1, <4>2, <4>3 DEF Provenance
    <3> QED BY <2>0, <3>1, <3>2
  <2>2. CASE k \notin Provenance
    <3>1. Assign(s, m)[k] = m[k]
      BY <2>2, <1>1, <1>3 DEF Assign
    <3>2. m[k] = e
      BY <2>2 DEF Merged, Rendered, RenderedValue, ExpectedValue, Provenance, Frontmatter
    <3> QED BY <2>0, <3>1, <3>2
  <2> QED BY <2>1, <2>2
<1>6. Assign(s, m) = [k \in DOMAIN Assign(s, m) |-> Assign(s, m)[k]]
  BY DEF Assign
<1>7. Expected(Objects[v], d) = [k \in DOMAIN Expected(Objects[v], d) |-> Expected(Objects[v], d)[k]]
  BY DEF Expected
<1>8. DOMAIN Expected(Objects[v], d) = DOMAIN seeds \union Provenance \union DOMAIN Frontmatter(v)
  BY DEF Expected, Frontmatter
<1> QED BY <1>4, <1>5, <1>6, <1>7, <1>8

(* Nothing is built or sent before the first step.                         *)
LEMMA InitBuilds == Init => BuildInv
<1> SUFFICES ASSUME Init PROVE BuildInv
  OBVIOUS
<1>1. 1 \in Versions
  BY DEF Versions
<1>2. Functions /\ Untouched
  BY <1>1 DEF Init, Functions, Untouched, Frontmatter
<1>3. CommandIsOfOneVersionAndDate
  BY DEF Init, CommandIsOfOneVersionAndDate
<1>4. \A a \in Actors : Building(a) /\ Listing(a) /\ Ready(a)
  BY DEF Init, Building, Listing, Ready
<1> QED BY <1>2, <1>3, <1>4 DEF BuildInv

(* A call that does not move is where the loop left it.                    *)
LEMMA OthersBuildOn ==
  ASSUME BuildInv, NEW b \in Actors,
         pc'[b] = pc[b], version'[b] = version[b], date'[b] = date[b],
         out'[b] = out[b], keys'[b] = keys[b], list'[b] = list[b]
  PROVE  Building(b)' /\ Listing(b)' /\ Ready(b)'
BY DEF BuildInv, Building, Listing, Ready

(* The object in the cache changes, nothing that is being built does.      *)
LEMMA WatchBuilds ==
  ASSUME BuildInv, Watch
  PROVE  BuildInv'
<1>1. current' \in Versions
  BY DEF BuildInv, Functions, Watch, Versions
<1>2. Functions' /\ Untouched' /\ CommandIsOfOneVersionAndDate'
  BY <1>1 DEF BuildInv, Functions, Untouched, CommandIsOfOneVersionAndDate, Watch
<1>3. \A b \in Actors : Building(b)' /\ Listing(b)' /\ Ready(b)'
  BY OthersBuildOn DEF Watch
<1> QED BY <1>2, <1>3 DEF BuildInv

(* A new call has its seeds, and every key still to come.                  *)
LEMMA BeginBuilds ==
  ASSUME BuildInv, NEW a \in Actors, NEW d \in Dates, Begin(a, d)
  PROVE  BuildInv'
<1>1. Functions' /\ Untouched' /\ CommandIsOfOneVersionAndDate'
  BY DEF BuildInv, Functions, Untouched, CommandIsOfOneVersionAndDate, Begin
<1>2. ASSUME NEW b \in Actors, b # a
      PROVE  Building(b)' /\ Listing(b)' /\ Ready(b)'
  BY <1>2, OthersBuildOn DEF Begin, BuildInv, Functions
<1>3. /\ pc'[a] = "merge" /\ version'[a] = current /\ date'[a] = d
      /\ out'[a] = seeds /\ keys'[a] = DOMAIN Frontmatter(current)
  BY DEF Begin, BuildInv, Functions, Untouched
<1>4. seeds = Merged(current, d, DOMAIN Frontmatter(current))
  BY DEF Merged, seeds
<1>5. Building(a)' /\ Listing(a)' /\ Ready(a)'
  BY <1>3, <1>4 DEF Building, Listing, Ready
<1> QED BY <1>1, <1>2, <1>5 DEF BuildInv

(* A value that is no list is rendered at once.                            *)
LEMMA MergeValueBuilds ==
  ASSUME BuildInv, NEW a \in Actors, NEW k \in keys[a], MergeValue(a, k)
  PROVE  BuildInv'
<1> DEFINE v == version[a]
<1>1. Functions' /\ Untouched' /\ CommandIsOfOneVersionAndDate'
  BY DEF BuildInv, Functions, Untouched, CommandIsOfOneVersionAndDate, MergeValue
<1>2. ASSUME NEW b \in Actors, b # a
      PROVE  Building(b)' /\ Listing(b)' /\ Ready(b)'
  BY <1>2, OthersBuildOn DEF MergeValue, BuildInv, Functions
<1>3. /\ pc[a] = "merge" /\ keys[a] \subseteq DOMAIN Frontmatter(v)
      /\ out[a] = Merged(v, date[a], keys[a])
  BY DEF MergeValue, BuildInv, Building
<1>4. shared[v][k] = Frontmatter(v)[k]
  BY DEF BuildInv, Untouched, Functions
<1>5. Rendered(v, k, date[a]) = RenderValue(shared[v][k], date[a])
  BY <1>4 DEF Rendered, RenderedValue, MergeValue
<1>6. /\ pc'[a] = "merge" /\ version'[a] = v /\ date'[a] = date[a]
      /\ keys'[a] = keys[a] \ {k}
      /\ out'[a] = Assign(Entry(k, Rendered(v, k, date[a])), out[a])
  BY <1>5 DEF MergeValue, BuildInv, Functions
<1>7. out'[a] = Merged(v, date[a], keys[a] \ {k})
  BY <1>3, <1>6, MergedGrows
<1> HIDE DEF v
<1>8. Building(a)' /\ Listing(a)' /\ Ready(a)'
  BY <1>3, <1>6, <1>7 DEF Building, Listing, Ready
<1> QED BY <1>1, <1>2, <1>8 DEF BuildInv

(* A list starts empty.                                                    *)
LEMMA BeginListBuilds ==
  ASSUME BuildInv, NEW a \in Actors, NEW k \in keys[a], BeginList(a, k)
  PROVE  BuildInv'
<1> DEFINE v == version[a]
           x == Frontmatter(v)[k]
<1>1. Functions' /\ Untouched' /\ CommandIsOfOneVersionAndDate'
  BY DEF BuildInv, Functions, Untouched, CommandIsOfOneVersionAndDate, BeginList
<1>2. ASSUME NEW b \in Actors, b # a
      PROVE  Building(b)' /\ Listing(b)' /\ Ready(b)'
  BY <1>2, OthersBuildOn DEF BeginList, BuildInv, Functions
<1>3. /\ keys[a] \subseteq DOMAIN Frontmatter(v)
      /\ out[a] = Merged(v, date[a], keys[a])
  BY DEF BeginList, BuildInv, Building
<1>4. shared[v][k] = x /\ x.type = "list"
  BY DEF BuildInv, Untouched, Functions, BeginList
<1>5. /\ pc'[a] = "list" /\ version'[a] = v /\ date'[a] = date[a]
      /\ keys'[a] = keys[a] /\ out'[a] = out[a]
      /\ list'[a] = [key |-> k, fresh |-> <<>>]
  BY DEF BeginList, BuildInv, Functions
<1>6. Len(x.value) \in Nat
  BY <1>3, <1>4, ListsAreSeqs DEF BuildInv, Functions
<1>7. <<>> = Prefix(x.value, date[a], 0)
  BY DEF Prefix
<1> HIDE DEF v
<1>8. Building(a)' /\ Ready(a)'
  BY <1>3, <1>5 DEF Building, Ready
<1>9. Listing(a)'
  <2>1. list'[a].key = k /\ list'[a].fresh = <<>> /\ Len(<<>>) = 0
    BY <1>5
  <2> QED BY <1>4, <1>5, <1>6, <1>7, <2>1 DEF Listing
<1> QED BY <1>1, <1>2, <1>8, <1>9 DEF BuildInv

(* One entry more of the list is rendered, into a list of the call's own.  *)
LEMMA RenderEntryBuilds ==
  ASSUME BuildInv, NEW a \in Actors, RenderEntry(a)
  PROVE  BuildInv'
<1> DEFINE v == version[a]
           k == list[a].key
           x == Frontmatter(v)[k]
           n == Len(list[a].fresh)
           longer == Append(list[a].fresh, RenderValue(x.value[n + 1], date[a]))
<1>1. Functions' /\ Untouched' /\ CommandIsOfOneVersionAndDate'
  BY DEF BuildInv, Functions, Untouched, CommandIsOfOneVersionAndDate, RenderEntry
<1>2. ASSUME NEW b \in Actors, b # a
      PROVE  Building(b)' /\ Listing(b)' /\ Ready(b)'
  BY <1>2, OthersBuildOn DEF RenderEntry, BuildInv, Functions
<1>3. /\ pc[a] = "list" /\ keys[a] \subseteq DOMAIN Frontmatter(v)
      /\ out[a] = Merged(v, date[a], keys[a])
  BY DEF RenderEntry, BuildInv, Building
<1>4. /\ k \in keys[a] /\ x.type = "list" /\ n \in 0..Len(x.value)
      /\ list[a] = [key |-> k, fresh |-> Prefix(x.value, date[a], n)]
  BY <1>3 DEF BuildInv, Listing
<1>5. shared[v][k] = x
  BY DEF BuildInv, Untouched, Functions
<1>6. Len(x.value) \in Nat
  BY <1>3, <1>4, ListsAreSeqs DEF BuildInv, Functions
<1>7. n < Len(x.value) /\ n \in Nat
  BY <1>4, <1>5, <1>6 DEF RenderEntry
<1>8. longer = Prefix(x.value, date[a], n + 1) /\ Len(longer) = n + 1
  <2>1. list[a].fresh = Prefix(x.value, date[a], n)
    BY <1>4
  <2> HIDE DEF x, n
  <2> QED BY <1>6, <1>7, <2>1, PrefixGrows
<1>9. list'[a] = [list[a] EXCEPT !.fresh = longer]
  BY <1>5 DEF RenderEntry, BuildInv, Functions
<1>10. list'[a] = [key |-> k, fresh |-> longer]
  BY <1>4, <1>9
<1>11. /\ pc'[a] = "list" /\ version'[a] = v /\ date'[a] = date[a]
       /\ keys'[a] = keys[a] /\ out'[a] = out[a]
  BY <1>3 DEF RenderEntry
<1>12. Building(a)' /\ Ready(a)'
  BY <1>3, <1>11 DEF Building, Ready
<1>13. Listing(a)'
  <2>1. list'[a].key = k /\ list'[a].fresh = longer
    BY <1>10
  <2> DEFINE l == Len(x.value)
  <2> HIDE DEF v, k, n, longer, l
  <2>2. n + 1 \in 0..l
    BY <1>6, <1>7 DEF l
  <2> USE DEF l
  <2> QED BY <1>4, <1>8, <1>10, <1>11, <2>1, <2>2, SMTT(30) DEF Listing
<1> QED BY <1>1, <1>2, <1>12, <1>13 DEF BuildInv

(* The whole list is the value of its key.                                 *)
LEMMA EndListBuilds ==
  ASSUME BuildInv, NEW a \in Actors, EndList(a)
  PROVE  BuildInv'
<1> DEFINE v == version[a]
           k == list[a].key
           x == Frontmatter(v)[k]
           fresh == list[a].fresh
<1>1. Functions' /\ Untouched' /\ CommandIsOfOneVersionAndDate'
  BY DEF BuildInv, Functions, Untouched, CommandIsOfOneVersionAndDate, EndList
<1>2. ASSUME NEW b \in Actors, b # a
      PROVE  Building(b)' /\ Listing(b)' /\ Ready(b)'
  BY <1>2, OthersBuildOn DEF EndList, BuildInv, Functions
<1>3. /\ pc[a] = "list" /\ keys[a] \subseteq DOMAIN Frontmatter(v)
      /\ out[a] = Merged(v, date[a], keys[a])
  BY DEF EndList, BuildInv, Building
<1>4. /\ k \in keys[a] /\ x.type = "list"
      /\ list[a] = [key |-> k, fresh |-> Prefix(x.value, date[a], Len(fresh))]
  BY <1>3 DEF BuildInv, Listing
<1>5. shared[v][k] = x
  BY DEF BuildInv, Untouched, Functions
<1>6. Len(fresh) = Len(x.value)
  BY <1>5 DEF EndList
<1>7. x.value \in Seq({x.value[i] : i \in DOMAIN x.value})
  BY <1>3, <1>4, ListsAreSeqs DEF BuildInv, Functions
<1>8. fresh = [i \in DOMAIN x.value |-> RenderValue(x.value[i], date[a])]
  <2>1. fresh = Prefix(x.value, date[a], Len(x.value))
    BY <1>4, <1>6
  <2>2. DOMAIN x.value = 1..Len(x.value)
    BY <1>7, LenProperties, SMTT(30)
  <2> QED BY <2>1, <2>2 DEF Prefix
<1>9. Rendered(v, k, date[a]) = List(fresh)
  BY <1>4, <1>8 DEF Rendered, RenderedValue
<1>10. /\ pc'[a] = "merge" /\ version'[a] = v /\ date'[a] = date[a]
       /\ keys'[a] = keys[a] \ {k}
       /\ out'[a] = Assign(Entry(k, List(fresh)), out[a])
  BY DEF EndList, BuildInv, Functions
<1> HIDE DEF v, k, x, fresh
<1>11. out'[a] = Merged(v, date[a], keys[a] \ {k})
  BY <1>3, <1>4, <1>9, <1>10, MergedGrows
<1>12. Building(a)' /\ Listing(a)' /\ Ready(a)'
  BY <1>3, <1>10, <1>11 DEF Building, Listing, Ready
<1> QED BY <1>1, <1>2, <1>12 DEF BuildInv

(* After the last key, the stamps make the command complete.               *)
LEMMA StampBuilds ==
  ASSUME BuildInv, NEW a \in Actors, Stamp(a)
  PROVE  BuildInv'
<1>1. Functions' /\ Untouched' /\ CommandIsOfOneVersionAndDate'
  BY DEF BuildInv, Functions, Untouched, CommandIsOfOneVersionAndDate, Stamp
<1>2. ASSUME NEW b \in Actors, b # a
      PROVE  Building(b)' /\ Listing(b)' /\ Ready(b)'
  BY <1>2, OthersBuildOn DEF Stamp, BuildInv, Functions
<1>3. out[a] = Merged(version[a], date[a], {})
  BY DEF Stamp, BuildInv, Building
<1>4. /\ pc'[a] = "send" /\ version'[a] = version[a] /\ date'[a] = date[a]
      /\ out'[a] = Assign(stamps(Objects[version[a]], date[a]), out[a])
  BY DEF Stamp, BuildInv, Functions
<1>5. out'[a] = Expected(Objects[version[a]], date[a])
  BY <1>3, <1>4, StampedIsExpected
<1>6. Building(a)' /\ Listing(a)' /\ Ready(a)'
  BY <1>4, <1>5 DEF Building, Listing, Ready
<1> QED BY <1>1, <1>2, <1>6 DEF BuildInv

(* What is sent is the complete command.                                   *)
LEMMA SendBuilds ==
  ASSUME BuildInv, NEW a \in Actors, Send(a)
  PROVE  BuildInv'
<1>1. Functions' /\ Untouched'
  BY DEF BuildInv, Functions, Untouched, Send, Return
<1>2. out[a] = Expected(Objects[version[a]], date[a])
  BY DEF Send, BuildInv, Ready
<1>3. CommandIsOfOneVersionAndDate'
  <2> DEFINE c == [version |-> version[a], date |-> date[a],
                   command |-> CreateCommand(Objects[version[a]], date[a], out[a])]
  <2>1. sent' = sent \/ sent' = sent \union {c}
    BY DEF Send
  <2>2. c.command = CreateCommand(Objects[c.version], c.date,
                                  Expected(Objects[c.version], c.date))
    BY <1>2
  <2> HIDE DEF c
  <2> QED BY <2>1, <2>2 DEF BuildInv, CommandIsOfOneVersionAndDate
<1>4. ASSUME NEW b \in Actors, b # a
      PROVE  Building(b)' /\ Listing(b)' /\ Ready(b)'
  BY <1>4, OthersBuildOn DEF Send, Return, BuildInv, Functions
<1>5. Building(a)' /\ Listing(a)' /\ Ready(a)'
  <2>1. pc'[a] = "idle"
    BY DEF Send, Return, BuildInv, Functions
  <2> QED BY <2>1 DEF Building, Listing, Ready
<1> QED BY <1>1, <1>3, <1>4, <1>5 DEF BuildInv

(* Every step of the publisher and of the informer keeps what is built.    *)
LEMMA StepsBuild == BuildInv /\ [Next]_vars => BuildInv'
<1> SUFFICES ASSUME BuildInv, [Next]_vars PROVE BuildInv'
  OBVIOUS
<1>1. CASE UNCHANGED vars
  <2>1. Functions' /\ Untouched' /\ CommandIsOfOneVersionAndDate'
    BY <1>1 DEF BuildInv, Functions, Untouched, CommandIsOfOneVersionAndDate, vars
  <2>2. \A b \in Actors : Building(b)' /\ Listing(b)' /\ Ready(b)'
    BY <1>1, OthersBuildOn DEF vars
  <2> QED BY <2>1, <2>2 DEF BuildInv
<1>2. CASE Watch
  BY <1>2, WatchBuilds
<1>3. ASSUME NEW a \in Actors, Publish(a) PROVE BuildInv'
  <2>1. CASE \E d \in Dates : Begin(a, d)
    BY <2>1, BeginBuilds
  <2>2. CASE \E k \in keys[a] : MergeValue(a, k)
    BY <2>2, MergeValueBuilds
  <2>3. CASE \E k \in keys[a] : BeginList(a, k)
    BY <2>3, BeginListBuilds
  <2>4. CASE RenderEntry(a)
    BY <2>4, RenderEntryBuilds
  <2>5. CASE EndList(a)
    BY <2>5, EndListBuilds
  <2>6. CASE Stamp(a)
    BY <2>6, StampBuilds
  <2>7. CASE Send(a)
    BY <2>7, SendBuilds
  <2> QED BY <1>3, <2>1, <2>2, <2>3, <2>4, <2>5, <2>6, <2>7 DEF Publish
<1> QED BY <1>1, <1>2, <1>3 DEF Next

(* publisher.go: the same definition and date give the same command,       *)
(* however many calls overlap on the informer's object, in whatever order  *)
(* the keys come and whatever the informer delivers meanwhile.             *)
THEOREM CommandsAreOfOneVersion == Spec => []CommandIsOfOneVersionAndDate
<1>1. BuildInv => CommandIsOfOneVersionAndDate
  BY DEF BuildInv
<1> QED BY <1>1, InitBuilds, StepsBuild, PTL DEF Spec

-----------------------------------------------------------------------------
(* What a template shows over a period.  A placeholder that is steady for  *)
(* a kind has one value for all dates of a period the kind fires on.       *)

(* The dates of the passes are of the calendar.                            *)
LEMMA DatesAreCivil == Dates \subseteq CivilDates
<1>1. ASSUME NEW d \in [year : Nat, month : Nat, day : Nat, hour : Nat], IsCivilDate(d)
      PROVE  d \in CivilDates
  <2>1. /\ d.year \in Int /\ d.month \in 1..12 /\ d.day \in Nat /\ d.hour \in Nat
        /\ d.day \in 1..DaysIn(d.year, d.month)
    BY <1>1 DEF IsCivilDate
  <2>2. d = [year |-> d.year, month |-> d.month, day |-> d.day, hour |-> d.hour]
    OBVIOUS
  <2> QED BY <2>1, <2>2 DEF CivilDates
<1> QED BY <1>1, DatesAssumption

(* A day on one date's weekday counting from another of the same week.     *)
LEMMA NextSundayIsOfTheWeek ==
  ASSUME NEW d \in CivilDates
  PROVE  /\ nextWeekday(d, Sunday) \in CivilDates /\ nextWeekday(d, Sunday).hour = 0
         /\ DayNumber(nextWeekday(d, Sunday)) = 7 * WeekNumber(d) + Monday + 6
<1> DEFINE n == (Sunday - Weekday(d) + 7) % 7
<1>1. n \in 0..6 /\ n = (IF Weekday(d) = Sunday THEN 0 ELSE 7 - Weekday(d))
  <2>1. PICK w \in 0..6 : w = Weekday(d)
    BY WeekdayInWeek
  <2>2. Sunday - w + 7 = 7 - w
    BY DEF Sunday
  <2>3. n = (7 - w) % 7
    BY <2>1, <2>2
  <2>4. (7 - w) % 7 = IF w = 0 THEN 0 ELSE 7 - w
    OBVIOUS
  <2> QED BY <2>1, <2>3, <2>4 DEF Sunday
<1> HIDE DEF n
<1>2. n \in -28..28
  BY <1>1
<1>3. /\ AddDays(d, n) \in CivilDates /\ AddDays(d, n).hour = 0
      /\ DayNumber(AddDays(d, n)) = DayNumber(d) + n
  BY <1>2, AddDaysAdds
<1>4. nextWeekday(d, Sunday) = AddDays(d, n)
  BY DEF nextWeekday, n
<1>5. DayNumber(d) + n = 7 * WeekNumber(d) + Monday + 6
  <2>1. /\ Weekday(d) \in 0..6 /\ WeekNumber(d) \in Int
        /\ DayNumber(d) = 7 * WeekNumber(d) + Monday + ((Weekday(d) + 6) % 7)
        /\ (Weekday(d) + 6) % 7 = IF Weekday(d) = Sunday THEN 6 ELSE Weekday(d) - 1
    BY WeekdayInWeek
  <2> QED BY <1>1, <2>1 DEF Sunday, Monday
<1> QED BY <1>3, <1>4, <1>5

(* The week after has the next number.                                     *)
LEMMA NextWeekFollows ==
  ASSUME NEW d \in CivilDates
  PROVE  AddDays(d, 7) \in CivilDates /\ WeekNumber(AddDays(d, 7)) = WeekNumber(d) + 1
<1>1. 7 \in -28..28
  OBVIOUS
<1>2. AddDays(d, 7) \in CivilDates /\ DayNumber(AddDays(d, 7)) = DayNumber(d) + 7
  BY <1>1, AddDaysAdds
<1> QED BY <1>2, DayNumberParts DEF WeekNumber, Monday

(* Every placeholder shows the same on every hour of a day.                *)
LEMMA DaysShowTheSame ==
  ASSUME NEW d \in CivilDates, NEW e \in CivilDates, SameDay(d, e), NEW h \in placeholders
  PROVE  Placeholder(h, d) = Placeholder(h, e)
<1>1. d.year = e.year /\ d.month = e.month /\ d.day = e.day
  BY DEF SameDay
<1>2. Weekday(d) = Weekday(e)
  BY <1>1 DEF Weekday, DayNumber, YearDay
<1>3. \A n : AddDays(d, n) = AddDays(e, n)
  BY <1>1 DEF AddDays
<1>4. ISOWeek(d) = ISOWeek(e)
  BY <1>2, <1>3 DEF ISOWeek
<1>5. \A t : nextWeekday(d, t) = nextWeekday(e, t)
  BY <1>2, <1>3 DEF nextWeekday
<1>6. fmtDate(d) = fmtDate(e)
  BY <1>1 DEF fmtDate
<1> QED BY <1>1, <1>3, <1>4, <1>5, <1>6 DEF Placeholder, placeholders

(* The value of a steady placeholder is that of the period.                *)
LEMMA SteadyOverThePeriod ==
  ASSUME NEW def, NEW d \in CivilDates, NEW e \in CivilDates,
         Fires(def, d), Fires(def, e), SamePeriod(def, d, e),
         NEW h \in Steady(def.kind)
  PROVE  Placeholder(h, d) = Placeholder(h, e)
<1>1. d.month \in 1..12 /\ e.month \in 1..12
  BY DayNumberParts
<1>2. CASE def.kind \in {"daily", "hourly", "weekday", "ondate"}
  <2>1. h \in placeholders
    BY <1>2 DEF Steady
  <2>2. CASE def.kind \in {"daily", "hourly", "weekday"}
    <3>1. SameDay(d, e)
      BY <2>2 DEF SamePeriod, SameDay
    <3> QED BY <2>1, <3>1, DaysShowTheSame
  <2>3. CASE def.kind = "ondate"
    <3>1. SameDay(d, e)
      BY <2>3 DEF SamePeriod, SameDay, Fires, AlwaysFire, PeriodKinds
    <3> QED BY <2>1, <3>1, DaysShowTheSame
  <2> QED BY <1>2, <2>2, <2>3
<1>3. CASE def.kind = "weekly"
  <2>1. WeekNumber(d) = WeekNumber(e)
    BY <1>3 DEF SamePeriod, WeekNumber
  <2>2. h \in {"current_week", "next_week", "next_sun_date"}
    BY <1>3 DEF Steady
  <2>3. CASE h = "current_week"
    <3>1. ISOWeek(d) = ISOWeek(e)
      BY <2>1, ISOWeekIsTheWeek
    <3> QED BY <2>3, <3>1 DEF Placeholder
  <2>4. CASE h = "next_week"
    <3>1. ISOWeek(AddDays(d, 7)) = ISOWeek(AddDays(e, 7))
      BY <2>1, NextWeekFollows, ISOWeekIsTheWeek
    <3> QED BY <2>4, <3>1 DEF Placeholder
  <2>5. CASE h = "next_sun_date"
    <3>1. nextWeekday(d, Sunday) = nextWeekday(e, Sunday)
      BY <2>1, NextSundayIsOfTheWeek, DayNumberNamesTheDate
    <3> QED BY <2>5, <3>1 DEF Placeholder
  <2> QED BY <2>2, <2>3, <2>4, <2>5
<1>4. CASE def.kind = "monthly"
  <2>1. d.year = e.year /\ d.month = e.month
    BY <1>4 DEF SamePeriod
  <2>2. h \in {"current_month", "next_month", "last_month", "current_quarter",
               "last_quarter", "current_year", "next_year", "last_year"}
    BY <1>4 DEF Steady
  <2> QED BY <2>1, <2>2 DEF Placeholder
<1>5. CASE def.kind = "quarterly"
  <2>1. d.year = e.year /\ quarterOf(d.month) = quarterOf(e.month)
    BY <1>1, <1>5, QuartersByMonths DEF SamePeriod
  <2>2. previousQuarter(d.year, d.month) = previousQuarter(e.year, e.month)
    BY <2>1 DEF previousQuarter
  <2>3. h \in {"current_quarter", "last_quarter", "current_year", "next_year", "last_year"}
    BY <1>5 DEF Steady
  <2> QED BY <2>1, <2>2, <2>3 DEF Placeholder
<1>6. CASE def.kind = "yearly"
  <2>1. d.year = e.year
    BY <1>6 DEF SamePeriod
  <2>2. h \in {"current_year", "next_year", "last_year"}
    BY <1>6 DEF Steady
  <2> QED BY <2>1, <2>2 DEF Placeholder
<1>7. def.kind \in {"daily", "hourly", "weekday", "ondate", "weekly", "monthly", "quarterly", "yearly"}
  BY DEF Fires, AlwaysFire, PeriodKinds
<1> QED BY <1>2, <1>3, <1>4, <1>5, <1>6, <1>7

-----------------------------------------------------------------------------
(* What a template shows depends on its placeholders only.                 *)
Agree(d, e, H) == \A h \in H : Placeholder(h, d) = Placeholder(h, e)

(* A string whose placeholders agree on two dates.                         *)
LEMMA RenderingsAgree ==
  ASSUME NEW pieces, NEW d, NEW e, Agree(d, e, HolesIn(pieces))
  PROVE  Render(pieces, d) = Render(pieces, e)
<1>1. ASSUME NEW i \in DOMAIN pieces, pieces[i].hole \in placeholders
      PROVE  Placeholder(pieces[i].hole, d) = Placeholder(pieces[i].hole, e)
  <2>1. pieces[i].hole \in HolesIn(pieces)
    BY <1>1 DEF HolesIn
  <2> QED BY <2>1 DEF Agree
<1> QED BY <1>1 DEF Render

(* A value of the frontmatter whose placeholders agree on two dates.       *)
LEMMA ValuesAgree ==
  ASSUME NEW v, NEW d, NEW e, Agree(d, e, HolesInValue(v))
  PROVE  RenderedValue(v, d) = RenderedValue(v, e)
<1>1. CASE v.type = "string"
  <2>1. HolesInValue(v) = HolesIn(v.value)
    BY <1>1 DEF HolesInValue
  <2>2. Render(v.value, d) = Render(v.value, e)
    BY <2>1, RenderingsAgree
  <2> QED BY <1>1, <2>2 DEF RenderedValue, RenderValue
<1>2. CASE v.type = "list"
  <2>1. ASSUME NEW i \in DOMAIN v.value
        PROVE  RenderValue(v.value[i], d) = RenderValue(v.value[i], e)
    <3>1. CASE v.value[i].type = "string"
      <4>1. HolesInValue(v) = UNION {HolesIn(v.value[j].value) :
                                j \in {l \in DOMAIN v.value : v.value[l].type = "string"}}
        BY <1>2 DEF HolesInValue
      <4>2. HolesIn(v.value[i].value) \subseteq HolesInValue(v)
        BY <3>1, <4>1
      <4>3. Agree(d, e, HolesIn(v.value[i].value))
        BY <4>2 DEF Agree
      <4>4. Render(v.value[i].value, d) = Render(v.value[i].value, e)
        BY <4>3, RenderingsAgree
      <4> QED BY <3>1, <4>4 DEF RenderValue
    <3> QED BY <3>1 DEF RenderValue
  <2> QED BY <1>2, <2>1 DEF RenderedValue
<1>3. CASE v.type # "string" /\ v.type # "list"
  BY <1>3 DEF RenderedValue, RenderValue
<1> QED BY <1>1, <1>2, <1>3

(* The commands of two dates of a period, when the placeholders are steady *)
(* over it.                                                                *)
LEMMA CommandsAgree ==
  ASSUME NEW def, NEW d, NEW e, Agree(d, e, HolesInObject(def)),
         deferDateFor(def.kind, d) = deferDateFor(def.kind, e),
         Build(def, d) = Build(def, e)
  PROVE  CreateCommand(def, d, Expected(def, d)) = CreateCommand(def, e, Expected(def, e))
<1>1. Render(def.title, d) = Render(def.title, e)
  <2>1. Agree(d, e, HolesIn(def.title))
    BY DEF Agree, HolesInObject
  <2> QED BY <2>1, RenderingsAgree
<1>2. Render(def.body, d) = Render(def.body, e)
  <2>1. Agree(d, e, HolesIn(def.body))
    BY DEF Agree, HolesInObject
  <2> QED BY <2>1, RenderingsAgree
<1>3. ASSUME NEW k \in DOMAIN seeds \union Provenance \union DOMAIN def.frontmatter
      PROVE  ExpectedValue(def, d, k) = ExpectedValue(def, e, k)
  <2>1. CASE k \in Provenance
    BY <2>1 DEF ExpectedValue, Provenance
  <2>2. CASE k \notin Provenance /\ k \in DOMAIN def.frontmatter
    <3> DEFINE v == def.frontmatter[k]
    <3>1. HolesInValue(v) \subseteq HolesInObject(def)
      BY <2>2 DEF HolesInObject
    <3>2. Agree(d, e, HolesInValue(v))
      BY <3>1 DEF Agree
    <3> HIDE DEF v
    <3>3. RenderedValue(v, d) = RenderedValue(v, e)
      BY <3>2, ValuesAgree
    <3>4. /\ ExpectedValue(def, d, k) = RenderedValue(v, d)
          /\ ExpectedValue(def, e, k) = RenderedValue(v, e)
      BY <2>2 DEF ExpectedValue, RenderedValue, v
    <3> QED BY <3>3, <3>4
  <2>3. CASE k \notin Provenance /\ k \notin DOMAIN def.frontmatter
    BY <2>3 DEF ExpectedValue
  <2> QED BY <2>1, <2>2, <2>3
<1>4. Expected(def, d) = Expected(def, e)
  BY <1>3 DEF Expected
<1> QED BY <1>1, <1>2, <1>4 DEF CreateCommand, Identifier

-----------------------------------------------------------------------------
(* The calls: what a command names, and that its definition fires.         *)
FiresFor(v, d) ==
  v \in Versions /\ d \in Dates /\ Fires(Objects[v], d) /\ Build(Objects[v], d) # NoToken

OnlyFired ==
  /\ \A a \in Actors : pc[a] # "idle" => FiresFor(version[a], date[a])
  /\ \A s \in sent : FiresFor(s.version, s.date)

(* A pass comes to the publisher for a date its definition fires on, and   *)
(* keeps both.                                                             *)
LEMMA CallsAreFired == Spec => []OnlyFired
<1>1. Init => OnlyFired
  BY DEF Init, OnlyFired
<1>2. BuildInv /\ OnlyFired /\ [Next]_vars => OnlyFired'
  <2> SUFFICES ASSUME BuildInv, OnlyFired, [Next]_vars PROVE OnlyFired'
    OBVIOUS
  <2> USE DEF OnlyFired, FiresFor
  <2>1. ASSUME NEW a \in Actors, NEW d \in Dates, Begin(a, d) PROVE OnlyFired'
    BY <2>1 DEF Begin, BuildInv, Functions
  <2>2. ASSUME NEW a \in Actors, NEW k \in keys[a], MergeValue(a, k) PROVE OnlyFired'
    BY <2>2 DEF MergeValue, BuildInv, Functions
  <2>3. ASSUME NEW a \in Actors, NEW k \in keys[a], BeginList(a, k) PROVE OnlyFired'
    BY <2>3 DEF BeginList, BuildInv, Functions
  <2>4. ASSUME NEW a \in Actors, RenderEntry(a) PROVE OnlyFired'
    BY <2>4 DEF RenderEntry
  <2>5. ASSUME NEW a \in Actors, EndList(a) PROVE OnlyFired'
    BY <2>5 DEF EndList, BuildInv, Functions
  <2>6. ASSUME NEW a \in Actors, Stamp(a) PROVE OnlyFired'
    BY <2>6 DEF Stamp, BuildInv, Functions
  <2>7. ASSUME NEW a \in Actors, Send(a) PROVE OnlyFired'
    <3> DEFINE c == [version |-> version[a], date |-> date[a],
                     command |-> CreateCommand(Objects[version[a]], date[a], out[a])]
    <3>1. FiresFor(c.version, c.date)
      BY <2>7 DEF Send
    <3>2. sent' = sent \/ sent' = sent \union {c}
      BY <2>7 DEF Send
    <3> HIDE DEF c
    <3>3. \A s \in sent' : FiresFor(s.version, s.date)
      BY <3>1, <3>2
    <3> QED BY <2>7, <3>3 DEF Send, Return, BuildInv, Functions
  <2>8. CASE Watch \/ UNCHANGED vars
    BY <2>8 DEF Watch, vars
  <2> QED BY <2>1, <2>2, <2>3, <2>4, <2>5, <2>6, <2>7, <2>8 DEF Next, Publish
<1> QED BY <1>1, <1>2, InitBuilds, StepsBuild, PTL DEF Spec

(* Of the commands of a period any may be the one the controller keeps:    *)
(* two commands of a version that share an identifier are the same, when   *)
(* the templates only use placeholders that are steady over the period.    *)
THEOREM ReplaysAreEqual == Spec => []ReplaysAreIdentical
<1>1. CommandIsOfOneVersionAndDate /\ OnlyFired => ReplaysAreIdentical
  <2> SUFFICES ASSUME CommandIsOfOneVersionAndDate, OnlyFired,
                      NEW s \in sent, NEW t \in sent,
                      s.version = t.version, s.command.id = t.command.id,
                      HolesInObject(Objects[s.version]) \subseteq Steady(Objects[s.version].kind)
               PROVE  s.command = t.command
    BY DEF ReplaysAreIdentical
  <2> DEFINE def == Objects[s.version]
  <2>1. /\ s.command = CreateCommand(def, s.date, Expected(def, s.date))
        /\ t.command = CreateCommand(def, t.date, Expected(def, t.date))
    BY DEF CommandIsOfOneVersionAndDate
  <2>2. /\ Fires(def, s.date) /\ Fires(def, t.date) /\ def.offset \in Int
        /\ s.date \in CivilDates /\ t.date \in CivilDates
    BY DatesAreCivil DEF OnlyFired, FiresFor
  <2> HIDE DEF def
  <2>3. Build(def, s.date) = Build(def, t.date)
    BY <2>1 DEF CreateCommand, Identifier
  <2>4. SamePeriod(def, s.date, t.date)
    BY <2>2, <2>3, TokensNamePeriods
  <2>5. deferDateFor(def.kind, s.date) = deferDateFor(def.kind, t.date)
    BY <2>2, <2>4, DeferDateNamesPeriods
  <2>6. Agree(s.date, t.date, HolesInObject(def))
    BY <2>2, <2>4, SteadyOverThePeriod DEF Agree, def
  <2> QED BY <2>1, <2>3, <2>5, <2>6, CommandsAgree
<1> QED BY <1>1, CommandsAreOfOneVersion, CallsAreFired, PTL

-----------------------------------------------------------------------------
(* The part of the type invariant no other invariant gives.                *)
Idling(a) ==
  /\ keys[a] \subseteq DOMAIN Frontmatter(version[a])
  /\ pc[a] # "list" => list[a] = NoList

Typed ==
  /\ dryRun \in BOOLEAN
  /\ pc \in [Actors -> {"idle", "merge", "list", "send"}]
  /\ date \in [Actors -> Dates]
  /\ \A a \in Actors : Idling(a)

(* Every step of the loop leaves the keys of its map behind one by one.    *)
LEMMA StepsAreTyped == BuildInv /\ Typed /\ [Next]_vars => Typed'
<1> SUFFICES ASSUME BuildInv, Typed, [Next]_vars PROVE Typed'
  OBVIOUS
<1> USE DEF Typed
<1>1. ASSUME NEW b \in Actors, pc'[b] = pc[b], version'[b] = version[b],
             keys'[b] = keys[b], list'[b] = list[b]
      PROVE  Idling(b)'
  BY <1>1 DEF Idling
<1>2. CASE Watch \/ UNCHANGED vars
  BY <1>1, <1>2 DEF Watch, vars
<1>3. ASSUME NEW a \in Actors, NEW d \in Dates, Begin(a, d) PROVE Typed'
  <2>1. Idling(a)'
    <3>1. keys'[a] = DOMAIN Frontmatter(current) /\ version'[a] = current
      BY <1>3 DEF Begin, BuildInv, Functions, Untouched
    <3>2. pc[a] # "list" /\ list' = list
      BY <1>3 DEF Begin
    <3> QED BY <3>1, <3>2 DEF Idling
  <2>2. ASSUME NEW b \in Actors, b # a PROVE Idling(b)'
    BY <1>1, <1>3, <2>2 DEF Begin, BuildInv, Functions
  <2> QED BY <1>3, <2>1, <2>2 DEF Begin
<1>4. ASSUME NEW a \in Actors, NEW k \in keys[a], MergeValue(a, k) PROVE Typed'
  <2>1. Idling(a)'
    BY <1>4 DEF Idling, MergeValue, BuildInv, Functions
  <2>2. ASSUME NEW b \in Actors, b # a PROVE Idling(b)'
    BY <1>1, <1>4, <2>2 DEF MergeValue, BuildInv, Functions
  <2> QED BY <1>4, <2>1, <2>2 DEF MergeValue
<1>5. ASSUME NEW a \in Actors, NEW k \in keys[a], BeginList(a, k) PROVE Typed'
  <2>1. Idling(a)'
    BY <1>5 DEF Idling, BeginList
  <2>2. ASSUME NEW b \in Actors, b # a PROVE Idling(b)'
    BY <1>1, <1>5, <2>2 DEF BeginList, BuildInv, Functions
  <2> QED BY <1>5, <2>1, <2>2 DEF BeginList
<1>6. ASSUME NEW a \in Actors, RenderEntry(a) PROVE Typed'
  <2>1. Idling(a)'
    BY <1>6 DEF Idling, RenderEntry
  <2>2. ASSUME NEW b \in Actors, b # a PROVE Idling(b)'
    BY <1>1, <1>6, <2>2 DEF RenderEntry, BuildInv, Functions
  <2> QED BY <1>6, <2>1, <2>2 DEF RenderEntry
<1>7. ASSUME NEW a \in Actors, EndList(a) PROVE Typed'
  <2>1. Idling(a)'
    BY <1>7 DEF Idling, EndList, BuildInv, Functions
  <2>2. ASSUME NEW b \in Actors, b # a PROVE Idling(b)'
    BY <1>1, <1>7, <2>2 DEF EndList, BuildInv, Functions
  <2> QED BY <1>7, <2>1, <2>2 DEF EndList
<1>8. ASSUME NEW a \in Actors, Stamp(a) PROVE Typed'
  <2>1. \A b \in Actors : Idling(b)'
    BY <1>8 DEF Idling, Stamp
  <2> QED BY <1>8, <2>1 DEF Stamp
<1>9. ASSUME NEW a \in Actors, Send(a) PROVE Typed'
  <2>1. \A b \in Actors : Idling(b)'
    BY <1>9 DEF Idling, Send, Return
  <2> QED BY <1>9, <2>1 DEF Send, Return
<1> QED BY <1>2, <1>3, <1>4, <1>5, <1>6, <1>7, <1>8, <1>9 DEF Next, Publish

(* Every variable keeps its type: a call has the seeds from its first step *)
(* on, holds a list only while it renders one, and that under a key it has *)
(* not put into the result yet.                                            *)
THEOREM PublishingIsTyped == Spec => []TypeOK
<1>1. Init => Typed
  <2>1. (CHOOSE d \in Dates : TRUE) \in Dates
    BY DatesAssumption
  <2> QED BY <2>1 DEF Init, Typed, Idling
<1>2. BuildInv /\ OnlyFired /\ Typed => TypeOK
  <2> SUFFICES ASSUME BuildInv, OnlyFired, Typed PROVE TypeOK
    OBVIOUS
  <2>1. DOMAIN shared = Versions /\ \A v \in Versions : shared[v] = Frontmatter(v)
    BY DEF BuildInv, Untouched
  <2>2. ASSUME NEW a \in Actors
        PROVE  /\ keys[a] \subseteq DOMAIN shared[version[a]]
               /\ IF pc[a] = "list" THEN list[a].key \in keys[a] ELSE list[a] = NoList
               /\ pc[a] # "idle" => DOMAIN seeds \subseteq DOMAIN out[a]
    <3>1. keys[a] \subseteq DOMAIN shared[version[a]]
      BY <2>1 DEF Typed, Idling, BuildInv, Functions
    <3>2. IF pc[a] = "list" THEN list[a].key \in keys[a] ELSE list[a] = NoList
      BY DEF Typed, Idling, BuildInv, Listing
    <3>3. pc[a] \in {"merge", "list"} => DOMAIN seeds \subseteq DOMAIN out[a]
      BY DEF BuildInv, Building, Merged
    <3>4. pc[a] = "send" => DOMAIN seeds \subseteq DOMAIN out[a]
      BY DEF BuildInv, Ready, Expected
    <3>5. pc[a] \in {"idle", "merge", "list", "send"}
      BY DEF Typed
    <3> QED BY <3>1, <3>2, <3>3, <3>4, <3>5
  <2>3. \A s \in sent : s.version \in Versions /\ s.date \in Dates
    BY DEF OnlyFired, FiresFor
  <2> QED BY <2>1, <2>2, <2>3 DEF TypeOK, Typed, BuildInv, Functions
<1> QED BY <1>1, <1>2, InitBuilds, StepsBuild, CallsAreFired, StepsAreTyped, PTL DEF Spec
=============================================================================
