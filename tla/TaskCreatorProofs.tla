------------------------- MODULE TaskCreatorProofs -------------------------
(***************************************************************************)
(* Proofs about TaskCreator for every set of slugs, schedules, requests    *)
(* and dates, every timeline, and every bound.                             *)
(***************************************************************************)
EXTENDS TaskCreatorProps, PeriodTokenProofs, TLAPS

USE SlugsAssumption, NoneAssumption, TickerAssumption, TimelineAssumption,
    TimelineNotEmpty, DryRunAssumption, BoundsAssumption

(* Every date a step puts into a pass is one of Dates.                     *)
LEMMA InstantsAreDates ==
  ASSUME NEW i \in DOMAIN Timeline
  PROVE  Timeline[i] \in Dates /\ DateOnly(Timeline[i]) \in Dates
BY DEF Dates

(* What the API or a cache holds are entries, pairs of slug and Schedule.  *)
LEMMA AppliedAreEntries ==
  ASSUME NEW f \in [Slugs -> Schedules \union {None}]
  PROVE  Applied(f) \subseteq Entries
BY DEF Applied, Entries

(* A fault keeps the count of faults within its bound.                     *)
LEMMA FaultsBounded ==
  ASSUME TypeOK, Fault
  PROVE  faults' \in 0..MaxFaults
BY DEF Fault, TypeOK

(* A command made from a definition of a pass is a command.                *)
LEMMA CommandsTyped ==
  ASSUME NEW e \in Entries, NEW d \in Dates
  PROVE  Command(e, d) \in Commands
BY DEF Commands

-----------------------------------------------------------------------------
(* Type correctness.  TypeOK alone is not inductive: a publish types the   *)
(* command it writes by the date its pass took when it started.  A pass    *)
(* has one definition in hand at a time, which later proofs need.          *)
TypeInv ==
  /\ TypeOK
  /\ \A p \in Actors : pc[p] = "idle" \/ date[p] \in Dates
  /\ \A p \in Actors : \A e, f \in trying[p] : e = f
  /\ \A p \in Actors : pc[p] = "list" => trying[p] = {}

Stages == {"idle", "list"} \union InLoop \union Ended

(* The end of a process: shared by Crash, ServerEnds and Exit.             *)
LEMMA VanishTyped ==
  ASSUME TypeInv, Vanish, faults' \in 0..MaxFaults
  PROVE  TypeInv'
<1> USE DEF Vanish, TypeInv, TypeOK, env, kafka, hist
<1>1. pc' \in [Actors -> Stages]
  BY DEF Ended, Stages
<1>2. /\ date' \in [Actors -> Dates \union {NoDate}]
      /\ due' \in [Actors -> SUBSET Entries]
      /\ todo' \in [Actors -> SUBSET Entries]
      /\ trying' \in [Actors -> SUBSET Entries]
      /\ ok' \in [Actors -> SUBSET Entries]
      /\ err' \in [Actors -> SUBSET Entries]
  OBVIOUS
<1>3. \A p \in Actors : pc'[p] = "idle" \/ date'[p] \in Dates
  BY DEF Actors, InLoop
<1>4. \A p \in Actors : trying'[p] = {}
  OBVIOUS
<1> QED
  BY <1>1, <1>2, <1>3, <1>4 DEF Stages

(* The type invariant is inductive: one step per action.                   *)
LEMMA TypeInvHolds == Spec => []TypeInv
<1>1. Init => TypeInv
  <2> SUFFICES ASSUME Init PROVE TypeInv
    OBVIOUS
  <2>1. now \in DOMAIN Timeline
    BY DEF Init
  <2>2. known \subseteq Entries
    BY AppliedAreEntries DEF Init
  <2> QED
    BY <2>1, <2>2 DEF Init, TypeInv, TypeOK
<1>2. TypeInv /\ [Next]_vars => TypeInv'
  <2> SUFFICES ASSUME TypeInv, [Next]_vars PROVE TypeInv'
    OBVIOUS
  <2> USE DEF TypeInv, TypeOK, env, run, pass, kafka, count, hist, Fault
  <2>1. ASSUME NEW s \in Slugs, Watch(s) PROVE TypeInv'
    BY <2>1 DEF Watch
  <2>2. ASSUME NEW s \in Slugs, NEW sched \in Schedules \union {None}, Edit(s, sched)
        PROVE  TypeInv'
    <3>1. api' \in [Slugs -> Schedules \union {None}]
      BY <2>2 DEF Edit
    <3>2. Applied(api') \subseteq Entries
      BY <3>1, AppliedAreEntries
    <3>3. edits' \in 0..MaxEdits
      BY <2>2 DEF Edit
    <3> QED
      BY <2>2, <3>1, <3>2, <3>3 DEF Edit
  <2>3. CASE HourElapses
    BY <2>3 DEF HourElapses
  <2>4. ASSUME NEW c \in topic, Materialise(c) PROVE TypeInv'
    BY <2>4 DEF Materialise
  <2>5. CASE Boot
    BY <2>5 DEF Boot
  <2>6. CASE Stop
    <3>1. faults' \in 0..MaxFaults
      BY <2>6, FaultsBounded DEF Stop
    <3> QED
      BY <2>6, <3>1 DEF Stop
  <2>7. CASE Crash
    <3>1. faults' \in 0..MaxFaults
      BY <2>7 DEF Crash
    <3> QED
      BY <2>7, <3>1, VanishTyped DEF Crash
  <2>8. CASE Exit \/ ServerEnds
    BY <2>8, VanishTyped DEF Exit, ServerEnds
  <2>9. ASSUME NEW p \in Actors, List(p) PROVE TypeInv'
    <3>1. TasksForDate(Inventory, date[p]) \subseteq Entries
      BY AppliedAreEntries DEF TasksForDate, Inventory
    <3>2. due' \in [Actors -> SUBSET Entries] /\ due'[p] \subseteq Entries
      BY <2>9, <3>1 DEF List
    <3>3. todo' \in [Actors -> SUBSET Entries]
      BY <2>9, <3>2 DEF List
    <3>4. pc' \in [Actors -> Stages]
      BY <2>9 DEF List, Ended, InLoop, Stages
    <3>5. \A q \in Actors : pc'[q] = "idle" \/ date'[q] \in Dates
      BY <2>9 DEF List, Ended
    <3> QED
      BY <2>9, <3>2, <3>3, <3>4, <3>5 DEF List, Stages
  <2>10. ASSUME NEW p \in Actors, ListFails(p) PROVE TypeInv'
    BY <2>10, SMTT(30) DEF ListFails, Ended
  <2>11. ASSUME NEW p \in Actors, NEW e \in trying[p], Publish(p, e) \/ PublishFails(p, e)
         PROVE  TypeInv'
    <3>1. pc[p] = "send"
      BY <2>11 DEF Publish, PublishFails
    <3>2. Command(e, date[p]) \in Commands
      <4>1. e \in Entries /\ date[p] \in Dates
        BY <3>1
      <4> QED
        BY <4>1, CommandsTyped
    <3>3. topic' \subseteq Commands /\ files' \subseteq topic'
      <4>1. topic \subseteq topic' /\ topic' \subseteq topic \union {Command(e, date[p])}
        BY <2>11 DEF Publish, PublishFails
      <4>2. UNCHANGED files
        BY <2>11 DEF Publish, PublishFails, Returns
      <4> QED
        BY <3>2, <4>1, <4>2
    <3>4. faults' \in 0..MaxFaults
      <4>1. faults' = faults \/ Fault
        BY <2>11 DEF Publish, PublishFails, SendFault
      <4> QED
        BY <4>1, FaultsBounded DEF TypeInv
    <3>5. PICK result \in {"sent", "failed"} : Returns(p, result)
      BY <2>11 DEF Publish, PublishFails
    <3>6. pc' \in [Actors -> Stages] /\ late' \in Nat
      BY <3>5 DEF Returns, InLoop, Stages
    <3>7. \A q \in Actors : pc'[q] = "idle" \/ date'[q] \in Dates
      BY <3>1, <3>5 DEF Returns
    <3> QED
      BY <3>3, <3>4, <3>5, <3>6, <3>7 DEF Returns, Stages
  <2>12. ASSUME NEW p \in Actors, NEW e \in todo[p], Take(p, e) PROVE TypeInv'
    <3>1. e \in Entries /\ pc[p] = "publish"
      BY <2>12 DEF Take
    <3>2. /\ todo' \in [Actors -> SUBSET Entries]
          /\ trying' \in [Actors -> SUBSET Entries]
      BY <2>12, <3>1 DEF Take
    <3>3. pc' \in [Actors -> Stages]
      BY <2>12 DEF Take, InLoop, Stages
    <3>4. \A q \in Actors : pc'[q] = "idle" \/ date'[q] \in Dates
      BY <2>12, <3>1 DEF Take
    <3>5. \A q \in Actors : trying'[q] = trying[q] \/ trying'[q] = {e}
      BY <2>12 DEF Take
    <3>6. \A q \in Actors : pc'[q] = "list" => trying'[q] = {}
      BY <2>12 DEF Take
    <3>7. \A q \in Actors : \A f, g \in trying'[q] : f = g
      BY <3>5
    <3>8. UNCHANGED <<env, run, date, due, ok, err, kafka, count, hist>>
      BY <2>12 DEF Take
    <3> QED
      BY <3>2, <3>3, <3>4, <3>6, <3>7, <3>8 DEF Stages
  <2>18. ASSUME NEW p \in Actors, NEW e \in trying[p], Count(p, e) PROVE TypeInv'
    <3>1. e \in Entries /\ pc[p] \in {"sent", "failed"}
      BY <2>18 DEF Count
    <3>2. /\ ok' \in [Actors -> SUBSET Entries]
          /\ err' \in [Actors -> SUBSET Entries]
          /\ trying' \in [Actors -> SUBSET Entries]
      BY <2>18, <3>1 DEF Count
    <3>3. pc' \in [Actors -> Stages]
      BY <2>18 DEF Count, InLoop, Ended, Stages
    <3>4. \A q \in Actors : pc'[q] = "idle" \/ date'[q] \in Dates
      BY <2>18, <3>1 DEF Count
    <3>5. \A q \in Actors : trying'[q] = trying[q] \/ trying'[q] = {}
      BY <2>18 DEF Count
    <3>6. \A q \in Actors : pc'[q] = "list" => pc[q] = "list"
      BY <2>18 DEF Count
    <3>7. \A q \in Actors : pc'[q] = "list" => trying'[q] = {}
      BY <3>5, <3>6
    <3>8. \A q \in Actors : \A f, g \in trying'[q] : f = g
      BY <3>5
    <3>9. UNCHANGED <<env, run, date, due, todo, kafka, count, hist>>
      BY <2>18 DEF Count
    <3> QED
      BY <3>2, <3>3, <3>4, <3>7, <3>8, <3>9 DEF Stages
  <2>13. CASE BeginTick
    BY <2>13, InstantsAreDates DEF BeginTick, Start, Actors, Ended
  <2>14. CASE NewTicker
    BY <2>14 DEF NewTicker
  <2>15. CASE CancelPass
    BY <2>15 DEF CancelPass, Actors, Ended
  <2>16. ASSUME NEW r \in Requests, NEW d \in Dates, Receive(r, d) PROVE TypeInv'
    BY <2>16 DEF Receive, Start, Actors, Ended
  <2>17. CASE UNCHANGED vars
    BY <2>17 DEF vars
  <2> QED
    BY <2>1, <2>2, <2>3, <2>4, <2>5, <2>6, <2>7, <2>8, <2>9, <2>10, <2>11, <2>12,
       <2>13, <2>14, <2>15, <2>16, <2>17, <2>18
    DEF Next, TickLoop, Handler, PassStep, Actors
<1>3. QED
  BY <1>1, <1>2, PTL DEF Spec

(* Every variable keeps its type, and files stay a subset of the topic.    *)
THEOREM TypeCorrect == Spec => []TypeOK
BY TypeInvHolds, PTL DEF TypeInv

-----------------------------------------------------------------------------
(* Provenance, with SnapshotsAreApplied as the strengthening that makes it *)
(* inductive: a command is written from the definition in hand and the     *)
(* date of a pass, so those have to be right before the command can be.    *)
SafeInv == SnapshotsAreApplied /\ Provenance

(* Learning never takes back: a wanted command stays wanted.               *)
LEMMA WantedStays ==
  ASSUME Provenance, known \subseteq known', Days \subseteq Days', topic' = topic
  PROVE  Provenance'
BY DEF Provenance, Board!Wanted

(* A pass whose definitions come from known and fire on its date only      *)
(* writes wanted commands.                                                 *)
LEMMA PublishedIsWanted ==
  ASSUME SnapshotsAreApplied, NEW p \in Actors, NEW e \in trying[p], pc[p] # "idle"
  PROVE  Board!Wanted(Command(e, date[p]))
BY DEF SnapshotsAreApplied, Board!Wanted

(* Steps that leave Schedules, cache and history alone and give no pass    *)
(* anything new keep the snapshots applied.                                *)
LEMMA PassesShrink ==
  ASSUME TypeInv, SnapshotsAreApplied, UNCHANGED <<api, cache, now, known, asked, date, due>>,
         \A p \in Actors : todo'[p] \union trying'[p] \subseteq todo[p] \union trying[p],
         \A p \in Actors : pc[p] = "idle" => pc'[p] = "idle"
  PROVE  SnapshotsAreApplied'
BY DEF SnapshotsAreApplied, Applied, Days

(* A pass that starts takes a date that has come or was asked for.         *)
LEMMA StartIsApplied ==
  ASSUME TypeInv, SnapshotsAreApplied, NEW p \in Actors, NEW d, Start(p, d),
         UNCHANGED <<api, cache, now, known>>, Days \subseteq Days', d \in Days'
  PROVE  SnapshotsAreApplied'
BY DEF SnapshotsAreApplied, Applied, Start, TypeInv, TypeOK

(* The end of a process empties the passes; nothing stale is left in them. *)
LEMMA VanishIsApplied ==
  ASSUME TypeInv, SnapshotsAreApplied, Vanish
  PROVE  SnapshotsAreApplied'
<1>1. UNCHANGED <<api, cache, now, known, asked>>
  BY DEF Vanish, env, hist
<1>2. \A p \in Actors : pc'[p] # "idle" => pc[p] # "idle" /\ date'[p] = date[p]
  BY DEF Vanish, TypeInv, TypeOK, Actors, InLoop
<1>3. \A p \in Actors : todo'[p] \union trying'[p] = {} /\ (due'[p] = {} \/ (due'[p] = due[p] /\ date'[p] = date[p]))
  BY DEF Vanish, TypeInv, TypeOK, Actors
<1>4. Applied(api)' = Applied(api) /\ Applied(cache)' = Applied(cache) /\ Days' = Days
  BY <1>1 DEF Applied, Days
<1>5. ASSUME NEW p \in Actors, NEW e \in due'[p]
      PROVE  e \in known /\ Fires(e[2], date'[p])
  BY <1>3, <1>5 DEF SnapshotsAreApplied
<1> QED
  BY <1>1, <1>2, <1>3, <1>4, <1>5 DEF SnapshotsAreApplied

(* Provenance together with what makes it hold is inductive: one step per  *)
(* action, and the topic only grows by wanted commands.                    *)
LEMMA SafeInvHolds == Spec => []SafeInv
<1>1. Init => SafeInv
  BY DEF Init, SafeInv, SnapshotsAreApplied, Provenance, Applied
<1>2. TypeInv /\ SafeInv /\ [Next]_vars => SafeInv'
  <2> SUFFICES ASSUME TypeInv, SafeInv, [Next]_vars PROVE SafeInv'
    OBVIOUS
  <2> USE DEF env, run, pass, kafka, count, hist
  <2>a. SnapshotsAreApplied /\ Provenance
    BY DEF SafeInv
  <2>1. ASSUME NEW s \in Slugs, Watch(s) PROVE SafeInv'
    <3>1. Applied(cache') \subseteq Applied(cache) \union Applied(api)
      BY <2>1 DEF Watch, Applied, TypeInv, TypeOK
    <3>2. SnapshotsAreApplied'
      BY <2>1, <2>a, <3>1 DEF Watch, SnapshotsAreApplied, Days, Applied
    <3> QED
      BY <2>1, <2>a, <3>2, WantedStays DEF Watch, SafeInv, Days
  <2>2. ASSUME NEW s \in Slugs, NEW sched \in Schedules \union {None}, Edit(s, sched)
        PROVE  SafeInv'
    <3>1. SnapshotsAreApplied'
      BY <2>2, <2>a DEF Edit, SnapshotsAreApplied, Days, Applied
    <3> QED
      BY <2>2, <2>a, <3>1, WantedStays DEF Edit, SafeInv, Days
  <2>3. CASE HourElapses
    <3>1. Days \subseteq Days'
      <4>1. now' \in {now, now + 1} /\ asked' = asked
        BY <2>3 DEF HourElapses
      <4>2. now \in Nat
        BY DEF TypeInv, TypeOK
      <4> QED
        BY <4>1, <4>2 DEF Days
    <3>2. SnapshotsAreApplied'
      BY <2>3, <2>a, <3>1 DEF HourElapses, SnapshotsAreApplied, Applied
    <3> QED
      BY <2>3, <2>a, <3>1, <3>2, WantedStays DEF HourElapses, SafeInv
  <2>4. ASSUME NEW c \in topic, Materialise(c) PROVE SafeInv'
    BY <2>4, <2>a, PassesShrink, WantedStays DEF Materialise, SafeInv, Days
  <2>5. CASE Boot
    <3>1. SnapshotsAreApplied'
      BY <2>5, <2>a DEF Boot, SnapshotsAreApplied, Days, Applied
    <3> QED
      BY <2>5, <2>a, <3>1, WantedStays DEF Boot, SafeInv, Days
  <2>6. CASE Stop
    BY <2>6, <2>a, PassesShrink, WantedStays DEF Stop, SafeInv, Days
  <2>7. CASE Crash \/ Exit \/ ServerEnds
    <3>1. Vanish
      BY <2>7 DEF Crash, Exit, ServerEnds
    <3> QED
      BY <3>1, <2>a, VanishIsApplied, WantedStays DEF Vanish, SafeInv, Days
  <2>8. ASSUME NEW p \in Actors, List(p) PROVE SafeInv'
    <3>1. due' = [due EXCEPT ![p] = TasksForDate(Inventory, date[p])] /\ UNCHANGED date
      BY <2>8 DEF List
    <3>2. todo' = [todo EXCEPT ![p] = due'[p]] /\ pc[p] = "list"
      BY <2>8 DEF List
    <3>3. \A e \in due'[p] : e \in known /\ Fires(e[2], date[p])
      <4>1. due'[p] = TasksForDate(Inventory, date[p])
        BY <3>1 DEF TypeInv, TypeOK
      <4> QED
        BY <4>1, <2>a DEF SnapshotsAreApplied, TasksForDate, Inventory
    <3>4. \A q \in Actors : q # p => due'[q] = due[q] /\ todo'[q] = todo[q] /\ pc'[q] = pc[q]
      BY <2>8, <3>1, <3>2 DEF List, TypeInv, TypeOK
    <3>5. trying[p] = {} /\ UNCHANGED trying
      BY <2>8 DEF List, TypeInv
    <3>6. todo'[p] = due'[p]
      BY <3>1, <3>2 DEF TypeInv, TypeOK
    <3>7. UNCHANGED <<api, cache, now, known, asked, topic>>
      BY <2>8 DEF List
    <3>8. ASSUME NEW q \in Actors
          PROVE  /\ pc'[q] # "idle" => date'[q] \in Days'
                 /\ todo'[q] \union trying'[q] \subseteq due'[q]
                 /\ \A e \in due'[q] : e \in known' /\ Fires(e[2], date'[q])
      <4>1. Days' = Days /\ UNCHANGED known
        BY <3>7 DEF Days
      <4>2. CASE q = p
        BY <2>a, <3>1, <3>2, <3>3, <3>6, <3>5, <4>1, <4>2 DEF SnapshotsAreApplied
      <4>3. CASE q # p
        BY <2>a, <3>1, <3>4, <3>5, <4>1, <4>3 DEF SnapshotsAreApplied
      <4> QED
        BY <4>2, <4>3
    <3>9. SnapshotsAreApplied'
      BY <2>a, <3>7, <3>8 DEF SnapshotsAreApplied, Applied
    <3> QED
      BY <2>a, <3>7, <3>9, WantedStays DEF SafeInv, Days
  <2>9. ASSUME NEW p \in Actors, ListFails(p) PROVE SafeInv'
    <3>1. \A q \in Actors : pc[q] = "idle" => pc'[q] = "idle"
      BY <2>9 DEF ListFails, TypeInv, TypeOK
    <3> QED
      BY <2>9, <3>1, <2>a, PassesShrink, WantedStays DEF ListFails, SafeInv, Days
  <2>10. ASSUME NEW p \in Actors, NEW e \in trying[p], Publish(p, e) \/ PublishFails(p, e)
         PROVE  SafeInv'
    <3>1. pc[p] = "send" /\ \E result \in {"sent", "failed"} : Returns(p, result)
      BY <2>10 DEF Publish, PublishFails
    <3>2. \A q \in Actors : pc[q] = "idle" => pc'[q] = "idle"
      BY <3>1 DEF Returns, TypeInv, TypeOK
    <3>3. SnapshotsAreApplied'
      BY <3>1, <3>2, <2>a, PassesShrink DEF Returns
    <3>4. topic' \subseteq topic \union {Command(e, date[p])}
      BY <2>10 DEF Publish, PublishFails
    <3>5. Board!Wanted(Command(e, date[p]))
      BY <2>10, <3>1, <2>a, PublishedIsWanted
    <3>6. UNCHANGED <<known, now, asked>>
      BY <3>1 DEF Returns
    <3>7. Provenance'
      BY <3>4, <3>5, <3>6, <2>a DEF Provenance, Board!Wanted, Days
    <3> QED
      BY <3>3, <3>7 DEF SafeInv
  <2>16. ASSUME NEW p \in Actors, NEW e \in todo[p], Take(p, e) PROVE SafeInv'
    <3>1. pc[p] = "publish"
      BY <2>16 DEF Take
    <3>2. \A q \in Actors : /\ todo'[q] \union trying'[q] \subseteq todo[q] \union trying[q]
                             /\ pc[q] = "idle" => pc'[q] = "idle"
      BY <2>16, <3>1 DEF Take, TypeInv, TypeOK
    <3> QED
      BY <2>16, <3>2, <2>a, PassesShrink, WantedStays DEF Take, SafeInv, Days
  <2>17. ASSUME NEW p \in Actors, NEW e \in trying[p], Count(p, e) PROVE SafeInv'
    <3>1. pc[p] \in {"sent", "failed"}
      BY <2>17 DEF Count
    <3>2. \A q \in Actors : /\ todo'[q] \union trying'[q] \subseteq todo[q] \union trying[q]
                             /\ pc[q] = "idle" => pc'[q] = "idle"
      BY <2>17, <3>1 DEF Count, TypeInv, TypeOK
    <3> QED
      BY <2>17, <3>2, <2>a, PassesShrink, WantedStays DEF Count, SafeInv, Days
  <2>11. CASE BeginTick
    <3>1. Timeline[now] \in Days'
      BY <2>11 DEF BeginTick, Days, TypeInv, TypeOK
    <3>2. SnapshotsAreApplied'
      BY <2>11, <3>1, <2>a, StartIsApplied DEF BeginTick, Days, Actors
    <3> QED
      BY <2>11, <3>2, <2>a, WantedStays DEF BeginTick, SafeInv, Days
  <2>12. CASE NewTicker
    BY <2>12, <2>a, PassesShrink, WantedStays DEF NewTicker, SafeInv, Days
  <2>13. CASE CancelPass
    <3>1. \A q \in Actors : /\ todo'[q] \union trying'[q] \subseteq todo[q] \union trying[q]
                             /\ pc[q] = "idle" => pc'[q] = "idle"
      BY <2>13 DEF CancelPass, TypeInv, TypeOK, Actors
    <3> QED
      BY <2>13, <3>1, <2>a, PassesShrink, WantedStays DEF CancelPass, SafeInv, Days
  <2>14. ASSUME NEW r \in Requests, NEW d \in Dates, Receive(r, d) PROVE SafeInv'
    <3>1. Days \subseteq Days' /\ d \in Days'
      BY <2>14 DEF Receive, Days
    <3>2. SnapshotsAreApplied'
      BY <2>14, <3>1, <2>a, StartIsApplied DEF Receive, Actors
    <3> QED
      BY <2>14, <3>1, <3>2, <2>a, WantedStays DEF Receive, SafeInv
  <2>15. CASE UNCHANGED vars
    BY <2>15, <2>a, PassesShrink, WantedStays DEF vars, SafeInv, Days
  <2> QED
    BY <2>1, <2>2, <2>3, <2>4, <2>5, <2>6, <2>7, <2>8, <2>9, <2>10, <2>11, <2>12,
       <2>13, <2>14, <2>15, <2>16, <2>17
    DEF Next, TickLoop, Handler, PassStep, Actors
<1>3. QED
  BY <1>1, <1>2, TypeInvHolds, PTL DEF Spec

(* Every command in the topic is for a Schedule that was applied, on a     *)
(* date that had come or was asked for, and that it fires on.              *)
THEOREM CommandsHaveProvenance == Spec => []Provenance
BY SafeInvHolds, PTL DEF SafeInv

-----------------------------------------------------------------------------
(* The refinement: only Materialise touches the files, and it creates a    *)
(* wanted task because the topic holds only wanted commands.               *)
LEMMA StepImplementsBoard ==
  ASSUME TypeInv, SafeInv, [Next]_vars
  PROVE  [Board!Next]_Board!vars
<1> USE DEF env, run, pass, kafka, count, hist, Board!vars
<1>1. ASSUME NEW c \in topic, Materialise(c) PROVE Board!Next
  <2>1. PICK e \in known, d \in Days : Fires(e[2], d) /\ c = Command(e, d)
    BY DEF SafeInv, Provenance, Board!Wanted
  <2>2. UNCHANGED <<known, Days>>
    BY <1>1 DEF Materialise, Days
  <2>3. Board!Create(Command(e, d))
    BY <1>1, <2>1, <2>2 DEF Materialise, Board!Create, Board!Wanted
  <2> QED
    BY <2>1, <2>3 DEF Board!Next
<1>2. ASSUME UNCHANGED files, known \subseteq known', asked \subseteq asked', UNCHANGED now
      PROVE  Board!Next
  BY <1>2 DEF Board!Next, Board!Learn, Days
<1>3. ASSUME NEW s \in Slugs, Watch(s) PROVE Board!Next
  BY <1>2, <1>3 DEF Watch
<1>4. ASSUME NEW s \in Slugs, NEW sched \in Schedules \union {None}, Edit(s, sched)
      PROVE  Board!Next
  BY <1>2, <1>4 DEF Edit
<1>5. CASE HourElapses
  <2>1. now' \in {now, now + 1} /\ UNCHANGED <<files, known, asked>>
    BY <1>5 DEF HourElapses
  <2>2. now \in Nat
    BY DEF TypeInv, TypeOK
  <2>3. Days \subseteq Days'
    BY <2>1, <2>2 DEF Days
  <2> QED
    BY <2>1, <2>3 DEF Board!Next, Board!Learn
<1>6. CASE Boot \/ Stop
  BY <1>2, <1>6 DEF Boot, Stop
<1>7. CASE Crash \/ Exit \/ ServerEnds
  BY <1>2, <1>7 DEF Crash, Exit, ServerEnds, Vanish
<1>8. ASSUME NEW p \in Actors, List(p) \/ ListFails(p) PROVE Board!Next
  BY <1>2, <1>8 DEF List, ListFails
<1>9. ASSUME NEW p \in Actors, NEW e,
             Take(p, e) \/ Publish(p, e) \/ PublishFails(p, e) \/ Count(p, e)
      PROVE  Board!Next
  BY <1>2, <1>9 DEF Take, Publish, PublishFails, Returns, Count
<1>10. CASE BeginTick \/ NewTicker \/ CancelPass
  BY <1>2, <1>10 DEF BeginTick, NewTicker, CancelPass
<1>11. ASSUME NEW r \in Requests, NEW d \in Dates, Receive(r, d) PROVE Board!Next
  BY <1>2, <1>11 DEF Receive
<1>12. CASE UNCHANGED vars
  BY <1>2, <1>12 DEF vars
<1> QED
  BY <1>1, <1>3, <1>4, <1>5, <1>6, <1>7, <1>8, <1>9, <1>10, <1>11, <1>12
  DEF Next, TickLoop, Handler, PassStep, Actors

(* The service implements the board's promise.                             *)
THEOREM ServiceImplementsBoard == Spec => ImplementsBoard
<1>1. Init => Board!Init
  BY DEF Init, Board!Init
<1>2. TypeInv /\ SafeInv /\ [Next]_vars => [Board!Next]_Board!vars
  BY StepImplementsBoard
<1> QED
  BY <1>1, <1>2, TypeInvHolds, SafeInvHolds, PTL DEF Spec, ImplementsBoard, Board!Spec

-----------------------------------------------------------------------------
(* A publish is counted after the step that writes it, and the date of a   *)
(* pass changes only when its counters are cleared; the topic never loses  *)
(* a command, so nothing that happens in between can undo the send.        *)
THEOREM CountedPublishesWereSent == Spec => []CountedIsSent
<1>1. Init => CountedIsSent
  BY DEF Init, CountedIsSent
<1>2. TypeInv /\ CountedIsSent /\ [Next]_vars => CountedIsSent'
  <2> SUFFICES ASSUME TypeInv, CountedIsSent, [Next]_vars PROVE CountedIsSent'
    OBVIOUS
  <2>a. TypeOK
    BY DEF TypeInv
  <2> USE DEF env, run, pass, kafka, count, hist
  <2>1. ASSUME topic \subseteq topic',
               \A p \in Actors : ok'[p] = {} \/ (ok'[p] = ok[p] /\ date'[p] = date[p]),
               \A p \in Actors : pc'[p] = "sent" =>
                 pc[p] = "sent" /\ trying'[p] = trying[p] /\ date'[p] = date[p]
        PROVE  CountedIsSent'
    BY <2>1 DEF CountedIsSent
  <2>2. ASSUME UNCHANGED <<topic, ok, date, trying>>,
               \A p \in Actors : pc'[p] = "sent" => pc[p] = "sent"
        PROVE  CountedIsSent'
    BY <2>1, <2>2
  <2>3. ASSUME NEW s \in Slugs, Watch(s) PROVE CountedIsSent'
    BY <2>2, <2>3 DEF Watch
  <2>4. ASSUME NEW s \in Slugs, NEW sched \in Schedules \union {None}, Edit(s, sched)
        PROVE  CountedIsSent'
    BY <2>2, <2>4 DEF Edit
  <2>5. CASE HourElapses \/ Boot \/ Stop
    BY <2>2, <2>5 DEF HourElapses, Boot, Stop
  <2>6. ASSUME NEW c \in topic, Materialise(c) PROVE CountedIsSent'
    BY <2>2, <2>6 DEF Materialise
  <2>7. CASE Crash \/ Exit \/ ServerEnds
    <3>1. Vanish
      BY <2>7 DEF Crash, Exit, ServerEnds
    <3>2. \A p \in Actors : pc'[p] # "sent"
      BY <3>1, <2>a DEF Vanish, TypeOK, InLoop, Ended
    <3> QED
      BY <2>1, <2>a, <3>1, <3>2 DEF Vanish, TypeOK, Actors
  <2>8. ASSUME NEW p \in Actors, List(p) \/ ListFails(p) PROVE CountedIsSent'
    <3>1. \A q \in Actors : pc'[q] = "sent" => pc[q] = "sent"
      BY <2>8, <2>a DEF List, ListFails, TypeOK
    <3> QED
      BY <2>2, <2>8, <3>1 DEF List, ListFails
  <2>9. ASSUME NEW p \in Actors, NEW e \in trying[p], Publish(p, e) PROVE CountedIsSent'
    <3>1. topic' = IF DryRun THEN topic ELSE topic \union {Command(e, date[p])}
      BY <2>9 DEF Publish
    <3>2. UNCHANGED <<ok, date, trying>> /\ pc' = [pc EXCEPT ![p] = "sent"]
      BY <2>9 DEF Publish, Returns
    <3>3. trying[p] = {e}
      BY DEF TypeInv
    <3>4. \A q \in Actors : q # p /\ pc'[q] = "sent" => pc[q] = "sent"
      BY <3>2, <2>a DEF TypeOK
    <3> QED
      BY <3>1, <3>2, <3>3, <3>4 DEF CountedIsSent
  <2>10. ASSUME NEW p \in Actors, NEW e \in trying[p], PublishFails(p, e)
         PROVE  CountedIsSent'
    <3>1. topic \subseteq topic'
      BY <2>10 DEF PublishFails
    <3>2. UNCHANGED <<ok, date, trying>> /\ pc' = [pc EXCEPT ![p] = "failed"]
      BY <2>10 DEF PublishFails, Returns
    <3>3. \A q \in Actors : pc'[q] = "sent" => pc[q] = "sent"
      BY <3>2, <2>a DEF TypeOK
    <3> QED
      BY <2>1, <3>1, <3>2, <3>3
  <2>16. ASSUME NEW p \in Actors, NEW e \in todo[p], Take(p, e) PROVE CountedIsSent'
    <3>1. UNCHANGED <<topic, ok, date>>
      BY <2>16 DEF Take
    <3>2. \A q \in Actors : pc'[q] = "sent" => pc[q] = "sent" /\ trying'[q] = trying[q]
      BY <2>16, <2>a DEF Take, TypeOK
    <3> QED
      BY <2>1, <3>1, <3>2
  <2>17. ASSUME NEW p \in Actors, NEW e \in trying[p], Count(p, e) PROVE CountedIsSent'
    <3>1. UNCHANGED <<topic, date>>
      BY <2>17 DEF Count
    <3>2. \A q \in Actors : pc'[q] = "sent" => pc[q] = "sent" /\ trying'[q] = trying[q]
      BY <2>17, <2>a DEF Count, TypeOK
    <3>3. \A q \in Actors : ok'[q] = ok[q] \/ (q = p /\ pc[p] = "sent" /\ ok'[q] = ok[q] \union {e})
      BY <2>17, <2>a DEF Count, TypeOK
    <3> QED
      BY <3>1, <3>2, <3>3 DEF CountedIsSent
  <2>11. ASSUME NEW p \in Actors, NEW d, Start(p, d), UNCHANGED topic PROVE CountedIsSent'
    <3>1. \A q \in Actors : pc'[q] = "sent" => q # p /\ pc[q] = "sent"
      BY <2>11, <2>a DEF Start, TypeOK
    <3> QED
      BY <2>1, <2>a, <2>11, <3>1 DEF Start, TypeOK
  <2>12. CASE BeginTick
    BY <2>11, <2>12 DEF BeginTick, Actors
  <2>13. CASE NewTicker \/ CancelPass
    <3>1. \A q \in Actors : pc'[q] = "sent" => pc[q] = "sent"
      BY <2>13, <2>a DEF NewTicker, CancelPass, TypeOK
    <3> QED
      BY <2>2, <2>13, <3>1 DEF NewTicker, CancelPass
  <2>14. ASSUME NEW r \in Requests, NEW d \in Dates, Receive(r, d) PROVE CountedIsSent'
    BY <2>11, <2>14 DEF Receive, Actors
  <2>15. CASE UNCHANGED vars
    BY <2>2, <2>15 DEF vars
  <2> QED
    BY <2>3, <2>4, <2>5, <2>6, <2>7, <2>8, <2>9, <2>10, <2>12, <2>13, <2>14, <2>15,
       <2>16, <2>17
    DEF Next, TickLoop, Handler, PassStep, Actors
<1> QED
  BY <1>1, <1>2, TypeInvHolds, PTL DEF Spec

-----------------------------------------------------------------------------
(* The accounts of one pass.  PassAccountsForAll is inductive together     *)
(* with: a pass that is about to list has counted nothing yet, and one     *)
(* outside Publish and the count has nothing in hand.                      *)
Accounts(p) ==
  /\ ok[p] \intersect err[p] = {}
  /\ pc[p] = "complete" => ok[p] \union err[p] = due[p]
  /\ pc[p] \in InLoop =>
       /\ ok[p] \union err[p] \union todo[p] \union trying[p] = due[p]
       /\ todo[p] \intersect (ok[p] \union err[p] \union trying[p]) = {}
       /\ trying[p] \intersect (ok[p] \union err[p]) = {}
  /\ pc[p] \in {"list", "publish"} => trying[p] = {}
  /\ pc[p] = "list" => ok[p] = {} /\ err[p] = {}

AccountsInv == \A p \in Actors : Accounts(p)

(* What a step may do to a pass and leave its accounts balanced: nothing,  *)
(* end it early, or clear its counters.                                    *)
LEMMA UntouchedAccounts ==
  ASSUME NEW p \in Actors, Accounts(p),
         UNCHANGED <<pc[p], due[p], todo[p], trying[p], ok[p], err[p]>>
  PROVE  Accounts(p)'
BY DEF Accounts

(* A pass that ends early owes nothing to the definitions it did not try.  *)
LEMMA EndedAccounts ==
  ASSUME NEW p \in Actors, Accounts(p), pc'[p] \in {"idle", "skipped", "cancelled"},
         ok'[p] = ok[p] /\ err'[p] = err[p]
  PROVE  Accounts(p)'
BY DEF Accounts, InLoop

(* The accounts of every pass balance: List opens them, Take moves one     *)
(* definition from what is left into the pass's hand, Count from there to  *)
(* ok or err.                                                              *)
LEMMA AccountsHold == Spec => []AccountsInv
<1>1. Init => AccountsInv
  BY DEF Init, AccountsInv, Accounts, InLoop
<1>2. TypeInv /\ AccountsInv /\ [Next]_vars => AccountsInv'
  <2> SUFFICES ASSUME TypeInv, AccountsInv, [Next]_vars, NEW q \in Actors
               PROVE  Accounts(q)'
    BY DEF AccountsInv
  <2>a. Accounts(q) /\ TypeOK
    BY DEF AccountsInv, TypeInv
  <2> USE DEF env, run, pass, kafka, count, hist
  <2>1. ASSUME UNCHANGED pass PROVE Accounts(q)'
    BY <2>1, <2>a, UntouchedAccounts
  <2>2. ASSUME NEW s \in Slugs, Watch(s) PROVE Accounts(q)'
    BY <2>1, <2>2 DEF Watch
  <2>3. ASSUME NEW s \in Slugs, NEW sched \in Schedules \union {None}, Edit(s, sched)
        PROVE  Accounts(q)'
    BY <2>1, <2>3 DEF Edit
  <2>4. CASE HourElapses \/ Boot \/ Stop \/ NewTicker
    BY <2>1, <2>4 DEF HourElapses, Boot, Stop, NewTicker
  <2>5. ASSUME NEW c \in topic, Materialise(c) PROVE Accounts(q)'
    BY <2>1, <2>5 DEF Materialise
  <2>6. CASE Crash \/ Exit \/ ServerEnds
    <3>1. Vanish
      BY <2>6 DEF Crash, Exit, ServerEnds
    <3>2. CASE q = Ticker
      BY <3>1, <3>2, <2>a DEF Vanish, Accounts, TypeOK, InLoop
    <3>3. CASE q # Ticker
      <4>1. ok'[q] = ok[q] /\ err'[q] = err[q] /\ due'[q] = due[q] /\ trying'[q] = {}
        BY <3>1, <3>3, <2>a DEF Vanish, TypeOK
      <4>2. (pc'[q] = pc[q] /\ pc[q] \notin {"list"} \union InLoop) \/ pc'[q] = "cancelled"
        BY <3>1, <3>3, <2>a DEF Vanish, TypeOK
      <4> QED
        BY <4>1, <4>2, <2>a DEF Accounts, InLoop
    <3> QED
      BY <3>2, <3>3
  <2>7. ASSUME NEW p \in Actors, List(p) PROVE Accounts(q)'
    <3>1. CASE q = p
      <4>1. todo'[q] = due'[q] /\ UNCHANGED <<ok, err, trying>> /\ pc[q] = "list"
        BY <2>7, <2>a, <3>1 DEF List, TypeOK
      <4>2. pc'[q] = IF due'[q] = {} THEN "complete" ELSE "publish"
        BY <2>7, <2>a, <3>1 DEF List, TypeOK
      <4> QED
        BY <4>1, <4>2, <2>a DEF Accounts
    <3>2. CASE q # p
      BY <2>7, <3>2, <2>a, UntouchedAccounts DEF List, TypeOK
    <3> QED
      BY <3>1, <3>2
  <2>8. ASSUME NEW p \in Actors, ListFails(p) PROVE Accounts(q)'
    BY <2>8, <2>a, UntouchedAccounts, EndedAccounts DEF ListFails, TypeOK
  <2>9. ASSUME NEW p \in Actors, NEW e \in trying[p], Publish(p, e) \/ PublishFails(p, e)
        PROVE  Accounts(q)'
    <3>1. pc[p] = "send" /\ \E result \in {"sent", "failed"} : Returns(p, result)
      BY <2>9 DEF Publish, PublishFails
    <3>2. UNCHANGED <<due, todo, trying, ok, err>>
      BY <3>1 DEF Returns
    <3>3. CASE q = p
      <4>1. pc'[q] \in {"sent", "failed"} /\ pc[q] = "send"
        BY <3>1, <3>3, <2>a DEF Returns, TypeOK
      <4> QED
        BY <3>2, <4>1, <2>a DEF Accounts, InLoop
    <3>4. CASE q # p
      BY <3>1, <3>2, <3>4, <2>a, UntouchedAccounts DEF Returns, TypeOK
    <3> QED
      BY <3>3, <3>4
  <2>15. ASSUME NEW p \in Actors, NEW e \in todo[p], Take(p, e) PROVE Accounts(q)'
    <3>1. CASE q = p
      <4>1. e \in todo[q] /\ todo'[q] = todo[q] \ {e} /\ trying'[q] = {e}
        BY <2>15, <2>a, <3>1 DEF Take, TypeOK
      <4>2. pc[q] = "publish" /\ pc'[q] = "send" /\ UNCHANGED <<due, ok, err>>
        BY <2>15, <2>a, <3>1 DEF Take, TypeOK
      <4> QED
        BY <4>1, <4>2, <2>a DEF Accounts, InLoop
    <3>2. CASE q # p
      BY <2>15, <3>2, <2>a, UntouchedAccounts DEF Take, TypeOK
    <3> QED
      BY <3>1, <3>2
  <2>16. ASSUME NEW p \in Actors, NEW e \in trying[p], Count(p, e) PROVE Accounts(q)'
    <3>1. CASE q = p
      <4>1. trying[q] = {e} /\ trying'[q] = {} /\ UNCHANGED <<due, todo>>
        BY <2>16, <2>a, <3>1 DEF Count, TypeOK, TypeInv
      <4>2. /\ pc[q] \in {"sent", "failed"}
            /\ pc'[q] = IF todo[q] = {} THEN "complete" ELSE "publish"
        BY <2>16, <2>a, <3>1 DEF Count, TypeOK
      <4>3. \/ ok'[q] = ok[q] \union {e} /\ err'[q] = err[q]
            \/ err'[q] = err[q] \union {e} /\ ok'[q] = ok[q]
        BY <2>16, <2>a, <3>1 DEF Count, TypeOK
      <4> QED
        BY <4>1, <4>2, <4>3, <2>a DEF Accounts, InLoop
    <3>2. CASE q # p
      BY <2>16, <3>2, <2>a, UntouchedAccounts DEF Count, TypeOK
    <3> QED
      BY <3>1, <3>2
  <2>10. ASSUME NEW p \in Actors, NEW d, Start(p, d) PROVE Accounts(q)'
    <3>1. CASE q = p
      BY <2>10, <3>1, <2>a DEF Start, Accounts, TypeOK, InLoop
    <3>2. CASE q # p
      BY <2>10, <3>2, <2>a, UntouchedAccounts DEF Start, TypeOK
    <3> QED
      BY <3>1, <3>2
  <2>11. CASE BeginTick
    BY <2>10, <2>11 DEF BeginTick, Actors
  <2>12. CASE CancelPass
    BY <2>12, <2>a, UntouchedAccounts, EndedAccounts DEF CancelPass, TypeOK
  <2>13. ASSUME NEW r \in Requests, NEW d \in Dates, Receive(r, d) PROVE Accounts(q)'
    BY <2>10, <2>13 DEF Receive, Actors
  <2>14. CASE UNCHANGED vars
    BY <2>1, <2>14 DEF vars
  <2> QED
    BY <2>2, <2>3, <2>4, <2>5, <2>6, <2>7, <2>8, <2>9, <2>11, <2>12, <2>13, <2>14,
       <2>15, <2>16
    DEF Next, TickLoop, Handler, PassStep, Actors
<1> QED
  BY <1>1, <1>2, TypeInvHolds, PTL DEF Spec

(* A failing publish costs no other definition its turn, whatever the      *)
(* order and the interleaving of the passes.                               *)
THEOREM PassesAccountForAll == Spec => []PassAccountsForAll
<1>1. AccountsInv => PassAccountsForAll
  BY DEF AccountsInv, Accounts, PassAccountsForAll
<1> QED
  BY <1>1, AccountsHold, PTL
-----------------------------------------------------------------------------
(* No cache, snapshot or pass ever holds a Schedule that was not applied,  *)
(* however the informer lags and however long a pass takes.                *)
THEOREM SnapshotsStayApplied == Spec => []SnapshotsAreApplied
BY SafeInvHolds, PTL DEF SafeInv

(* AtMostOneLatePublish is not inductive: a tick loop that is inside       *)
(* Publish when the stop comes has the one late publish still before it,   *)
(* and once that is used up it must not get into Publish again.            *)
LateInv ==
  /\ late \in {0, 1}
  /\ proc # "stopping" \/ pc[Ticker] = "send" => late = 0

(* Steps that leave process and count alone and do not bring the tick loop *)
(* into Publish.                                                           *)
LEMMA LateKept ==
  ASSUME LateInv, UNCHANGED <<proc, late>>, pc'[Ticker] = "send" => pc[Ticker] = "send"
  PROVE  LateInv'
BY DEF LateInv

(* Only Take leads into Publish, and for the tick loop it asks the context *)
(* first.                                                                  *)
LEMMA LateInvHolds == Spec => []LateInv
<1>1. Init => LateInv
  BY DEF Init, LateInv
<1>2. TypeOK /\ LateInv /\ [Next]_vars => LateInv'
  <2> SUFFICES ASSUME TypeOK, LateInv, [Next]_vars PROVE LateInv'
    OBVIOUS
  <2> USE DEF env, run, pass, kafka, count, hist
  <2>1. ASSUME UNCHANGED <<pc, proc, late>> PROVE LateInv'
    BY <2>1, LateKept
  <2>2. ASSUME NEW s \in Slugs, NEW sched \in Schedules \union {None},
               Watch(s) \/ Edit(s, sched)
        PROVE  LateInv'
    BY <2>1, <2>2 DEF Watch, Edit
  <2>3. CASE HourElapses \/ NewTicker \/ UNCHANGED vars
    BY <2>1, <2>3 DEF HourElapses, NewTicker, vars
  <2>4. ASSUME NEW c \in topic, Materialise(c) PROVE LateInv'
    BY <2>1, <2>4 DEF Materialise
  <2>5. CASE Boot \/ Stop
    BY <2>5 DEF Boot, Stop, LateInv
  <2>6. CASE Crash \/ Exit \/ ServerEnds
    BY <2>6 DEF Crash, Exit, ServerEnds, Vanish, LateInv
  <2>7. ASSUME NEW p \in Actors, List(p) \/ ListFails(p) \/ (\E e \in trying[p] : Count(p, e))
        PROVE  LateInv'
    <3>1. pc'[Ticker] = "send" => pc[Ticker] = "send"
      BY <2>7 DEF List, ListFails, Count, TypeOK, Actors
    <3> QED
      BY <2>7, <3>1, LateKept DEF List, ListFails, Count
  <2>8. ASSUME NEW p \in Actors, NEW e \in todo[p], Take(p, e) PROVE LateInv'
    <3>1. CASE p = Ticker
      BY <2>8, <3>1 DEF Take, LateInv
    <3>2. CASE p # Ticker
      BY <2>8, <3>2, LateKept DEF Take, TypeOK, Actors
    <3> QED
      BY <3>1, <3>2
  <2>9. ASSUME NEW p \in Actors, NEW e \in trying[p], Publish(p, e) \/ PublishFails(p, e)
        PROVE  LateInv'
    <3>1. pc[p] = "send" /\ \E result \in {"sent", "failed"} : Returns(p, result)
      BY <2>9 DEF Publish, PublishFails
    <3>2. UNCHANGED proc
      BY <3>1 DEF Returns
    <3>3. CASE p = Ticker
      <4>1. pc'[Ticker] # "send"
        BY <3>1, <3>3 DEF Returns, TypeOK, Actors
      <4>2. late = 0 /\ late' = IF proc = "stopping" THEN late + 1 ELSE late
        BY <3>1, <3>3 DEF Returns, LateInv
      <4> QED
        BY <3>2, <4>1, <4>2 DEF LateInv
    <3>4. CASE p # Ticker
      BY <3>1, <3>2, <3>4, LateKept DEF Returns, TypeOK, Actors
    <3> QED
      BY <3>3, <3>4
  <2>10. ASSUME NEW p \in Actors, NEW d, Start(p, d), UNCHANGED <<proc, late>>
         PROVE  LateInv'
    <3>1. pc'[Ticker] = "send" => pc[Ticker] = "send"
      BY <2>10 DEF Start, TypeOK, Actors
    <3> QED
      BY <2>10, <3>1, LateKept
  <2>11. CASE BeginTick
    BY <2>10, <2>11 DEF BeginTick, Actors
  <2>12. CASE CancelPass
    <3>1. pc'[Ticker] # "send"
      BY <2>12 DEF CancelPass, TypeOK, Actors
    <3> QED
      BY <2>12, <3>1, LateKept DEF CancelPass
  <2>13. ASSUME NEW r \in Requests, NEW d \in Dates, Receive(r, d) PROVE LateInv'
    BY <2>10, <2>13 DEF Receive, Actors
  <2> QED
    BY <2>2, <2>3, <2>4, <2>5, <2>6, <2>7, <2>8, <2>9, <2>11, <2>12, <2>13
    DEF Next, TickLoop, Handler, PassStep, Actors
<1> QED
  BY <1>1, <1>2, TypeCorrect, PTL DEF Spec

(* A cancelled context lets the tick loop finish the publish it is in and  *)
(* begins no other, however many ticks it still reads and whatever the     *)
(* requests do meanwhile.                                                  *)
THEOREM StopAllowsOnePublish == Spec => []AtMostOneLatePublish
<1>1. LateInv => AtMostOneLatePublish
  BY DEF LateInv, AtMostOneLatePublish
<1> QED
  BY <1>1, LateInvHolds, PTL

-----------------------------------------------------------------------------
(* No command in the topic, no task.                                       *)
Silent == DryRun => topic = {} /\ files = {}

(* With DRY_RUN set no pass, of the tick loop or of a request, brings a    *)
(* command into the topic, and so no task comes about.                     *)
THEOREM DryRunIsSilent == Spec => []Silent
<1>1. Init => Silent
  BY DEF Init, Silent
<1>2. Silent /\ [Next]_vars => Silent'
  <2> SUFFICES ASSUME DryRun, topic = {}, files = {}, [Next]_vars
               PROVE  topic' = {} /\ files' = {}
    BY DEF Silent
  <2> USE DEF env, run, pass, kafka, count, hist
  <2>1. ASSUME NEW p \in Actors, NEW e \in trying[p], Publish(p, e) \/ PublishFails(p, e)
        PROVE  topic' = {} /\ files' = {}
    BY <2>1 DEF Publish, PublishFails, Returns
  <2>2. CASE UNCHANGED <<topic, files>>
    BY <2>2
  <2>3. \/ \E p \in Actors : \E e \in trying[p] : Publish(p, e) \/ PublishFails(p, e)
        \/ \E c \in topic : Materialise(c)
        \/ UNCHANGED <<topic, files>>
    BY DEF Next, TickLoop, Handler, PassStep, Actors, Watch, Edit, HourElapses, Boot, Stop,
           Crash, Exit, ServerEnds, Vanish, BeginTick, NewTicker, CancelPass, Receive, List,
           ListFails, Take, Count, vars
  <2> QED BY <2>1, <2>2, <2>3
<1> QED BY <1>1, <1>2, PTL DEF Spec
-----------------------------------------------------------------------------
(* What the identifiers are for.  First the dates: every date a pass can   *)
(* take is one of the calendar.                                            *)
LEMMA DatesAreCivil == Dates \subseteq CivilDates
<1>1. ASSUME NEW d \in [year : Nat, month : Nat, day : Nat, hour : Nat], IsCivilDate(d)
      PROVE  d \in CivilDates /\ DateOnly(d) \in CivilDates
  <2>1. /\ d.year \in Int /\ d.month \in 1..12 /\ d.day \in Nat /\ d.hour \in Nat
        /\ d.day \in 1..DaysIn(d.year, d.month)
    BY <1>1 DEF IsCivilDate
  <2>2. d = [year |-> d.year, month |-> d.month, day |-> d.day, hour |-> d.hour]
    OBVIOUS
  <2> QED BY <2>1, <2>2 DEF CivilDates, DateOnly, NewDate
<1>2. ASSUME NEW i \in DOMAIN Timeline
      PROVE  Timeline[i] \in CivilDates /\ DateOnly(Timeline[i]) \in CivilDates
  <2> DEFINE Instants == [year : Nat, month : Nat, day : Nat, hour : Nat]
  <2>1. Timeline[i] \in Instants
    <3>1. Timeline \in Seq(Instants)
      OBVIOUS
    <3> HIDE DEF Instants
    <3> QED BY <3>1
  <2>2. IsCivilDate(Timeline[i])
    BY DatesAssumption
  <2> QED BY <1>1, <2>1, <2>2
<1>3. RequestDates \subseteq CivilDates
  BY <1>1, DatesAssumption
<1> QED BY <1>2, <1>3 DEF Dates

(* A pass knows only entries, and takes only dates it could take.          *)
LEMMA DaysAreDates ==
  ASSUME TypeOK
  PROVE  known \subseteq Entries /\ Days \subseteq Dates
<1>1. known \subseteq Entries /\ asked \subseteq Dates /\ now \in DOMAIN Timeline
  BY DEF TypeOK
<1>2. \A i \in 1..now : i \in DOMAIN Timeline
  BY <1>1
<1>3. \A i \in 1..now : Timeline[i] \in Dates
  BY <1>2, InstantsAreDates
<1> QED BY <1>1, <1>3 DEF Days

(* The commands of one definition that share an identifier are of one      *)
(* period, and share their defer date; those of one period share an        *)
(* identifier.                                                             *)
LEMMA WantedCommandsOfAPeriod ==
  ASSUME known \subseteq Entries, Days \subseteq Dates,
         NEW c, Board!Wanted(c), NEW d, Board!Wanted(d), c.entry = d.entry
  PROVE  /\ c.id = d.id <=> SamePeriod(c.entry[2], c.date, d.date)
         /\ c.id = d.id => c.defer = d.defer
<1>1. PICK e \in known, x \in Days : Fires(e[2], x) /\ c = Command(e, x)
  BY DEF Board!Wanted
<1>2. PICK f \in known, y \in Days : Fires(f[2], y) /\ d = Command(f, y)
  BY DEF Board!Wanted
<1>3. e = f /\ c.entry = e /\ c.date = x /\ d.date = y
  BY <1>1, <1>2 DEF Command
<1>4. c.defer = deferDateFor(e[2].kind, x) /\ d.defer = deferDateFor(e[2].kind, y)
  BY <1>1, <1>2, <1>3 DEF Command
<1>5. c.id = d.id <=> Build(e[2], x) = Build(e[2], y)
  BY <1>1, <1>2, <1>3 DEF Command, Identifier
<1>6. x \in CivilDates /\ y \in CivilDates
  BY <1>1, <1>2, DatesAreCivil
<1>7. e[2] \in Schedules
  BY <1>1 DEF Entries
<1>8. e[2].offset \in Int
  BY <1>7, SchedulesAssumption
<1>9. Build(e[2], x) = Build(e[2], y) <=> SamePeriod(e[2], x, y)
  BY <1>1, <1>2, <1>3, <1>6, <1>8, TokensNamePeriods
<1>10. SamePeriod(e[2], x, y) => deferDateFor(e[2].kind, x) = deferDateFor(e[2].kind, y)
  BY <1>1, <1>2, <1>3, <1>6, DeferDateNamesPeriods
<1> QED BY <1>3, <1>4, <1>5, <1>9, <1>10

(* The controller's de-duplication never swallows another period: commands *)
(* of one definition that share an identifier are of one period, and carry *)
(* the same defer date, whichever of them is consumed first.               *)
THEOREM ReplaysStayInOnePeriod == Spec => []ReplaysAreOfOnePeriod
<1>1. TypeOK /\ Provenance => ReplaysAreOfOnePeriod
  <2> SUFFICES ASSUME TypeOK, Provenance, NEW c \in topic, NEW d \in topic,
                      c.id = d.id, c.entry = d.entry
               PROVE  SamePeriod(c.entry[2], c.date, d.date) /\ c.defer = d.defer
    BY DEF ReplaysAreOfOnePeriod
  <2>1. known \subseteq Entries /\ Days \subseteq Dates
    BY DaysAreDates
  <2>2. Board!Wanted(c) /\ Board!Wanted(d)
    BY DEF Provenance
  <2> QED BY <2>1, <2>2, WantedCommandsOfAPeriod
<1> QED BY <1>1, TypeCorrect, CommandsHaveProvenance, PTL

(* No two files share an identifier: Materialise looks before it writes.   *)
DistinctFiles == \A f, g \in files : f.id = g.id => f = g

(* Only Materialise touches the files.                                     *)
LEMMA FilesStayDistinct == Spec => []DistinctFiles
<1>1. Init => DistinctFiles
  BY DEF Init, DistinctFiles
<1>2. DistinctFiles /\ [Next]_vars => DistinctFiles'
  <2> SUFFICES ASSUME DistinctFiles, [Next]_vars PROVE DistinctFiles'
    OBVIOUS
  <2> USE DEF env, run, pass, kafka, count, hist
  <2>1. ASSUME NEW c \in topic, Materialise(c) PROVE DistinctFiles'
    <3>1. files' = files \union {c} /\ \A f \in files : f.id # c.id
      BY <2>1 DEF Materialise
    <3> QED BY <3>1 DEF DistinctFiles
  <2>2. CASE files' = files
    BY <2>2 DEF DistinctFiles
  <2>3. (\E c \in topic : Materialise(c)) \/ files' = files
    BY DEF Next, TickLoop, Handler, PassStep, Actors, Watch, Edit, HourElapses, Boot, Stop,
           Crash, Exit, ServerEnds, Vanish, BeginTick, NewTicker, CancelPass, Receive, List,
           ListFails, Take, Publish, PublishFails, Returns, Count, vars
  <2> QED BY <2>1, <2>2, <2>3
<1> QED BY <1>1, <1>2, PTL DEF Spec

(* Ticks, restarts, requests and redeliveries produce one task for each    *)
(* period of a definition: two commands of one period share an identifier, *)
(* and the controller writes an identifier once.                           *)
THEOREM PeriodsHaveOneTask == Spec => []OneTaskPerPeriod
<1>1. TypeOK /\ Provenance /\ DistinctFiles => OneTaskPerPeriod
  <2> SUFFICES ASSUME TypeOK, Provenance, DistinctFiles, NEW f \in files, NEW g \in files,
                      f.entry = g.entry, SamePeriod(f.entry[2], f.date, g.date)
               PROVE  f = g
    BY DEF OneTaskPerPeriod
  <2>1. known \subseteq Entries /\ Days \subseteq Dates
    BY DaysAreDates
  <2>2. f \in topic /\ g \in topic
    BY DEF TypeOK
  <2>3. Board!Wanted(f) /\ Board!Wanted(g)
    BY <2>2 DEF Provenance
  <2>4. f.id = g.id
    BY <2>1, <2>3, WantedCommandsOfAPeriod
  <2> QED BY <2>4 DEF DistinctFiles
<1> QED BY <1>1, TypeCorrect, CommandsHaveProvenance, FilesStayDistinct, PTL
=============================================================================
