---------------------------- MODULE TaskCreator ----------------------------
(***************************************************************************)
(* The running service.  Schedule resources live in the Kubernetes API and *)
(* reach the process through an informer cache that lags behind.  The tick *)
(* loop (pkg/tick) makes a pass over the cache at start-up and every hour; *)
(* the /trigger handler (pkg/handler) makes one per request, concurrently. *)
(* A pass takes the civil date at its start, lists the store, keeps the    *)
(* definitions that fire on that date, and publishes one command for each; *)
(* the controller behind the Kafka topic turns a command into a task file  *)
(* unless a file with its identifier exists.                               *)
(*                                                                         *)
(* Sends fail, with or without the command having reached the topic; the   *)
(* store may fail to list; the process is stopped or dies between any two  *)
(* steps and is started again.                                             *)
(***************************************************************************)
EXTENDS PeriodToken, Sequences, FiniteSets

CONSTANTS
  Slugs,         \* the names of Schedule resources, numbered in their order
  Schedules,     \* what a Schedule can say: records [kind, weekdays, ...]
  Timeline,      \* the civil hours in Europe/Berlin the service runs through
  Requests,      \* the /trigger requests
  RequestDates,  \* the civil dates they ask for
  Ticker,        \* the tick loop, as an actor next to Requests
  None,          \* no Schedule of that name
  DryRun,        \* the DRY_RUN flag
  MaxEdits,      \* bounds the operator's changes
  MaxFaults      \* bounds the failures and stops

ASSUME SlugsAssumption == Slugs \subseteq Nat
ASSUME NoneAssumption == None \notin Schedules
ASSUME TickerAssumption == Ticker \notin Requests
ASSUME TimelineAssumption == Timeline \in Seq([year : Nat, month : Nat, day : Nat, hour : Nat])
ASSUME TimelineNotEmpty == Len(Timeline) >= 1
ASSUME DatesAssumption ==
  /\ RequestDates \subseteq [year : Nat, month : Nat, day : Nat, hour : Nat]
  /\ \A d \in RequestDates \union {Timeline[i] : i \in DOMAIN Timeline} : IsCivilDate(d)
ASSUME SchedulesAssumption ==
  Schedules \subseteq
    [kind : STRING, weekdays : SUBSET (0..6), month : Int, day : Int, offset : Int]
ASSUME DryRunAssumption == DryRun \in BOOLEAN
ASSUME BoundsAssumption == MaxEdits \in Nat /\ MaxFaults \in Nat

Actors == {Ticker} \union Requests

NoDate == NewDate(0, 0, 0)

(* The date a date-only construction site makes of an instant.             *)
DateOnly(d) == NewDate(d.year, d.month, d.day)

VARIABLES
  api,      \* [slug -> the Schedule in the Kubernetes API, or None]
  cache,    \* [slug -> the Schedule in the informer cache, or None]
  now,      \* the current hour of Timeline
  proc,     \* the process: down, running, or stopping (context cancelled)
  ticker,   \* time.Ticker: not created yet, armed, or fired and not yet read
  pc,       \* [actor -> where its pass is]
  date,     \* [actor -> the civil date of its pass]
  due,      \* [actor -> the <<slug, definition>> pairs its pass found]
  todo,     \* [actor -> those it has not tried yet]
  trying,   \* [actor -> the one its loop is at, as a set of none or one]
  ok,       \* [actor -> those it counted as published]
  err,      \* [actor -> those it counted as failed]
  topic,    \* the commands in the Kafka topic
  files,    \* the commands the controller turned into task files
  edits,    \* changes made so far
  faults,   \* faults so far
  known,    \* history: every <<slug, definition>> that was ever applied
  asked,    \* history: every civil date requests have taken
  late      \* history: publishes of the tick loop that returned since the stop

env   == <<api, cache, now>>
run   == <<proc, ticker>>
pass  == <<pc, date, due, todo, trying, ok, err>>
kafka == <<topic, files>>
count == <<edits, faults>>
hist  == <<known, asked, late>>
vars  == <<env, run, pass, kafka, count, hist>>

(* The civil dates a pass can have taken so far.                           *)
Days == {Timeline[i] : i \in 1..now} \union asked

(* The create-task command for entry <<slug, definition>> on date d: its   *)
(* identifier, and the parts of the payload that depend on the date.       *)
Command(entry, d) ==
  [id    |-> Identifier(entry[1], entry[2], d),
   entry |-> entry,
   date  |-> d,
   defer |-> deferDateFor(entry[2].kind, d)]

Board == INSTANCE TaskBoard WITH schedules <- known, days <- Days

Ended == {"complete", "skipped", "cancelled"}

(* A pass at the head of its loop, inside Publish, or back from it with    *)
(* nil or an error and not yet past the count.                             *)
InLoop == {"publish", "send", "sent", "failed"}

Dates ==
  {Timeline[i] : i \in DOMAIN Timeline}
    \union {DateOnly(Timeline[i]) : i \in DOMAIN Timeline}
    \union RequestDates

Entries == Slugs \X Schedules

Commands == {Command(e, d) : e \in Entries, d \in Dates}

TypeOK ==
  /\ api \in [Slugs -> Schedules \union {None}]
  /\ cache \in [Slugs -> Schedules \union {None}]
  /\ now \in DOMAIN Timeline
  /\ proc \in {"down", "running", "stopping"}
  /\ ticker \in {"none", "armed", "fired"}
  /\ pc \in [Actors -> {"idle", "list"} \union InLoop \union Ended]
  /\ date \in [Actors -> Dates \union {NoDate}]
  /\ due \in [Actors -> SUBSET Entries]
  /\ todo \in [Actors -> SUBSET Entries]
  /\ trying \in [Actors -> SUBSET Entries]
  /\ ok \in [Actors -> SUBSET Entries]
  /\ err \in [Actors -> SUBSET Entries]
  /\ topic \subseteq Commands
  /\ files \subseteq topic
  /\ edits \in 0..MaxEdits
  /\ faults \in 0..MaxFaults
  /\ known \subseteq Entries
  /\ asked \subseteq Dates
  /\ late \in Nat

Applied(schedules) == {<<s, schedules[s]>> : s \in {t \in Slugs : schedules[t] # None}}

Init ==
  /\ api \in [Slugs -> Schedules \union {None}]
  /\ cache = [s \in Slugs |-> None]
  /\ now = 1
  /\ proc = "down"
  /\ ticker = "none"
  /\ pc = [p \in Actors |-> "idle"]
  /\ date = [p \in Actors |-> NoDate]
  /\ due = [p \in Actors |-> {}]
  /\ todo = [p \in Actors |-> {}]
  /\ trying = [p \in Actors |-> {}]
  /\ ok = [p \in Actors |-> {}]
  /\ err = [p \in Actors |-> {}]
  /\ topic = {}
  /\ files = {}
  /\ edits = 0
  /\ faults = 0
  /\ known = Applied(api)
  /\ asked = {}
  /\ late = 0

Fault == faults < MaxFaults /\ faults' = faults + 1

-----------------------------------------------------------------------------
(* The world around the process.                                           *)

(* An operator applies, changes or deletes a Schedule.                     *)
Edit(s, sched) ==
  /\ edits < MaxEdits
  /\ api[s] # sched
  /\ edits' = edits + 1
  /\ api' = [api EXCEPT ![s] = sched]
  /\ known' = known \union Applied(api')
  /\ UNCHANGED <<cache, now, run, pass, kafka, faults, asked, late>>

(* The informer delivers the current state of one Schedule.                *)
Watch(s) ==
  /\ proc # "down"
  /\ cache[s] # api[s]
  /\ cache' = [cache EXCEPT ![s] = api[s]]
  /\ UNCHANGED <<api, now, run, pass, kafka, count, hist>>

(* An hour passes: the ticker's channel holds at most one tick, so that of *)
(* an hour spent in one pass is dropped.  The civil hour need not change:  *)
(* the clock is set back an hour in autumn, two ticks can fall in one civil *)
(* hour, and Timeline names only the hours that tell schedules apart.      *)
HourElapses ==
  /\ now' \in {now, now + 1} \intersect DOMAIN Timeline
  /\ ticker' = IF ticker = "armed" THEN "fired" ELSE ticker
  /\ UNCHANGED <<api, cache, proc, pass, kafka, count, hist>>

(* The controller consumes a command; redeliveries find the file.          *)
Materialise(c) ==
  /\ c \in topic
  /\ \A f \in files : f.id # c.id
  /\ files' = files \union {c}
  /\ UNCHANGED <<env, run, pass, topic, count, hist>>

-----------------------------------------------------------------------------
(* The process: main.go application.Run.                                   *)

(* The informer cache is filled before the tick loop and the HTTP server   *)
(* start.                                                                  *)
Boot ==
  /\ proc = "down"
  /\ proc' = "running"
  /\ cache' = api
  /\ UNCHANGED <<api, now, ticker, pass, kafka, count, hist>>

(* SIGTERM cancels the context of both functions that                      *)
(* run.CancelOnFirstFinish runs, the HTTP server and the tick loop.        *)
Stop ==
  /\ proc = "running"
  /\ Fault
  /\ proc' = "stopping"
  /\ UNCHANGED <<env, ticker, pass, kafka, edits, hist>>

(* The process is gone and with it everything it kept in memory; what the  *)
(* requests have counted is only remembered here.                          *)
Vanish ==
  /\ proc' = "down"
  /\ ticker' = "none"
  /\ pc' = [p \in Actors |->
              IF p = Ticker THEN "idle"
              ELSE IF pc[p] \in {"list"} \union InLoop THEN "cancelled" ELSE pc[p]]
  /\ date' = [date EXCEPT ![Ticker] = NoDate]
  /\ due' = [due EXCEPT ![Ticker] = {}]
  /\ todo' = [p \in Actors |-> {}]
  /\ trying' = [p \in Actors |-> {}]
  /\ ok' = [ok EXCEPT ![Ticker] = {}]
  /\ err' = [err EXCEPT ![Ticker] = {}]
  /\ late' = 0
  /\ UNCHANGED <<env, kafka, edits, known, asked>>

(* The process dies, or its HTTP server returns an error and               *)
(* CancelOnFirstFinish ends Run with it.                                   *)
Crash ==
  /\ proc # "down"
  /\ Fault
  /\ Vanish

(* After SIGTERM the HTTP server is the first to return:                   *)
(* CancelOnFirstFinish does not wait for the tick loop, wherever it is.    *)
ServerEnds ==
  /\ proc = "stopping"
  /\ Vanish
  /\ UNCHANGED faults

-----------------------------------------------------------------------------
(* A pass, shared by both actors: store.List, schedule.TasksForDate, and   *)
(* publisher.Publish for each definition that fires.                       *)

Inventory == {e \in Applied(cache) : e[2].kind \in AllRecurrenceKinds}

(* Mutant: the date filter lets everything through.                        *)
TasksForDateUnfiltered(defs, d) == defs

TasksForDate(defs, d) == {e \in defs : Fires(e[2], d)}

(* Mutant: what the last pass found is not forgotten.                      *)
StartKeepingDue(p, d) ==
  /\ pc' = [pc EXCEPT ![p] = "list"]
  /\ date' = [date EXCEPT ![p] = d]
  /\ todo' = [todo EXCEPT ![p] = {}]
  /\ trying' = [trying EXCEPT ![p] = {}]
  /\ ok' = [ok EXCEPT ![p] = {}]
  /\ err' = [err EXCEPT ![p] = {}]
  /\ UNCHANGED due

Start(p, d) ==
  /\ pc' = [pc EXCEPT ![p] = "list"]
  /\ date' = [date EXCEPT ![p] = d]
  /\ due' = [due EXCEPT ![p] = {}]
  /\ todo' = [todo EXCEPT ![p] = {}]
  /\ trying' = [trying EXCEPT ![p] = {}]
  /\ ok' = [ok EXCEPT ![p] = {}]
  /\ err' = [err EXCEPT ![p] = {}]

List(p) ==
  /\ proc # "down"
  /\ pc[p] = "list"
  /\ due' = [due EXCEPT ![p] = TasksForDate(Inventory, date[p])]
  /\ todo' = [todo EXCEPT ![p] = due'[p]]
  /\ pc' = [pc EXCEPT ![p] = IF due'[p] = {} THEN "complete" ELSE "publish"]
  /\ UNCHANGED <<env, run, date, trying, ok, err, kafka, count, hist>>

(* The tick is skipped; a request is answered with status 500.             *)
ListFails(p) ==
  /\ proc # "down"
  /\ pc[p] = "list"
  /\ Fault
  /\ pc' = [pc EXCEPT ![p] = "skipped"]
  /\ UNCHANGED <<env, run, date, due, todo, trying, ok, err, kafka, edits, hist>>

(* Mutant: the loop does not look at the context between definitions.      *)
TakeWithoutContext(p, e) ==
  /\ proc # "down"
  /\ pc[p] = "publish"
  /\ p = Ticker \/ \A o \in todo[p] : e[1] <= o[1]
  /\ todo' = [todo EXCEPT ![p] = @ \ {e}]
  /\ trying' = [trying EXCEPT ![p] = {e}]
  /\ pc' = [pc EXCEPT ![p] = "send"]
  /\ UNCHANGED <<env, run, date, due, ok, err, kafka, count, hist>>

(* The next definition: the tick loop takes them as the lister returned    *)
(* them, the handler in the order of their slugs; the tick loop looks at   *)
(* the context first, the handler does not.                                *)
Take(p, e) ==
  /\ proc # "down"
  /\ pc[p] = "publish"
  /\ IF p = Ticker THEN proc = "running" ELSE \A o \in todo[p] : e[1] <= o[1]
  /\ todo' = [todo EXCEPT ![p] = @ \ {e}]
  /\ trying' = [trying EXCEPT ![p] = {e}]
  /\ pc' = [pc EXCEPT ![p] = "send"]
  /\ UNCHANGED <<env, run, date, due, ok, err, kafka, count, hist>>

(* publisher.Publish returns to the pass, which has yet to count it.       *)
Returns(p, result) ==
  /\ pc' = [pc EXCEPT ![p] = result]
  /\ late' = IF p = Ticker /\ proc = "stopping" THEN late + 1 ELSE late
  /\ UNCHANGED <<env, run, date, due, todo, trying, ok, err, files, edits, known, asked>>

(* Mutant: the clock is read again for each command.                       *)
PublishRereadingClock(p, e) ==
  /\ proc # "down"
  /\ pc[p] = "send"
  /\ Build(e[2], Timeline[now]) # NoToken
  /\ topic' = IF DryRun THEN topic ELSE topic \union {Command(e, Timeline[now])}
  /\ Returns(p, "sent")
  /\ UNCHANGED faults

(* Publish returns nil: the broker acknowledged the command, or a dry run  *)
(* skipped the send.                                                       *)
Publish(p, e) ==
  /\ proc # "down"
  /\ pc[p] = "send"
  /\ Build(e[2], date[p]) # NoToken
  /\ topic' = IF DryRun THEN topic ELSE topic \union {Command(e, date[p])}
  /\ Returns(p, "sent")
  /\ UNCHANGED faults

(* A send can fail at any time, and one of the tick loop because its       *)
(* context is cancelled.                                                   *)
SendFault(p) == Fault \/ (p = Ticker /\ proc = "stopping" /\ UNCHANGED faults)

(* Publish returns an error: no identifier can be derived, or the send     *)
(* failed, and then the command may be in the topic all the same.          *)
PublishFails(p, e) ==
  /\ proc # "down"
  /\ pc[p] = "send"
  /\ IF Build(e[2], date[p]) = NoToken
     THEN UNCHANGED <<topic, faults>>
     ELSE /\ ~DryRun
          /\ SendFault(p)
          /\ topic' \in {topic, topic \union {Command(e, date[p])}}
  /\ Returns(p, "failed")

(* Mutant: the first error ends the pass.                                  *)
CountAborting(p, e) ==
  /\ proc # "down"
  /\ pc[p] \in {"sent", "failed"}
  /\ ok' = [ok EXCEPT ![p] = IF pc[p] = "sent" THEN @ \union {e} ELSE @]
  /\ err' = [err EXCEPT ![p] = IF pc[p] = "failed" THEN @ \union {e} ELSE @]
  /\ trying' = [trying EXCEPT ![p] = {}]
  /\ pc' = [pc EXCEPT ![p] = IF todo[p] = {} \/ @ = "failed" THEN "complete" ELSE "publish"]
  /\ UNCHANGED <<env, run, date, due, todo, kafka, count, hist>>

(* Mutant: a failed send is counted as published.                          *)
CountIgnoringError(p, e) ==
  /\ proc # "down"
  /\ pc[p] \in {"sent", "failed"}
  /\ ok' = [ok EXCEPT ![p] = @ \union {e}]
  /\ trying' = [trying EXCEPT ![p] = {}]
  /\ pc' = [pc EXCEPT ![p] = IF todo[p] = {} THEN "complete" ELSE "publish"]
  /\ UNCHANGED <<env, run, date, due, todo, err, kafka, count, hist>>

(* Mutant: off by one, the pass waits for a definition after the last.     *)
CountLate(p, e) ==
  /\ proc # "down"
  /\ pc[p] \in {"sent", "failed"}
  /\ ok' = [ok EXCEPT ![p] = IF pc[p] = "sent" THEN @ \union {e} ELSE @]
  /\ err' = [err EXCEPT ![p] = IF pc[p] = "failed" THEN @ \union {e} ELSE @]
  /\ trying' = [trying EXCEPT ![p] = {}]
  /\ pc' = [pc EXCEPT ![p] = IF todo[p] = {e} THEN "complete" ELSE "publish"]
  /\ UNCHANGED <<env, run, date, due, todo, kafka, count, hist>>

(* The result is counted: a success or an error in the metric or in the    *)
(* response.  An error costs no other definition its turn.                 *)
Count(p, e) ==
  /\ proc # "down"
  /\ pc[p] \in {"sent", "failed"}
  /\ ok' = [ok EXCEPT ![p] = IF pc[p] = "sent" THEN @ \union {e} ELSE @]
  /\ err' = [err EXCEPT ![p] = IF pc[p] = "failed" THEN @ \union {e} ELSE @]
  /\ trying' = [trying EXCEPT ![p] = {}]
  /\ pc' = [pc EXCEPT ![p] = IF todo[p] = {} THEN "complete" ELSE "publish"]
  /\ UNCHANGED <<env, run, date, due, todo, kafka, count, hist>>

-----------------------------------------------------------------------------
(* The tick loop: pkg/tick/tick.go.                                        *)

(* Mutant: the hour is taken in UTC, before the conversion to Berlin.      *)
BeginTickInUTC ==
  /\ proc # "down"
  /\ \/ pc[Ticker] = "idle" /\ UNCHANGED ticker
     \/ pc[Ticker] \in Ended /\ ticker = "fired" /\ ticker' = "armed"
  /\ Start(Ticker, [Timeline[now] EXCEPT !.hour = (@ + 23) % 24])
  /\ UNCHANGED <<env, proc, kafka, count, hist>>

(* Run's first tick, or one read from the ticker's channel.  The metrics   *)
(* gauge takes the same instant as the date.                               *)
BeginTick ==
  /\ proc # "down"
  /\ \/ pc[Ticker] = "idle" /\ UNCHANGED ticker
     \/ pc[Ticker] \in Ended /\ ticker = "fired" /\ ticker' = "armed"
  /\ Start(Ticker, Timeline[now])
  /\ UNCHANGED <<env, proc, kafka, count, hist>>

(* Mutant: Run gives up when its first tick was skipped.                   *)
NewTickerAfterGoodTick ==
  /\ pc[Ticker] = "complete"
  /\ ticker = "none"
  /\ ticker' = "armed"
  /\ UNCHANGED <<env, proc, pass, kafka, count, hist>>

(* NewTicker is reached when the first tick has returned.                  *)
NewTicker ==
  /\ pc[Ticker] \in Ended
  /\ ticker = "none"
  /\ ticker' = "armed"
  /\ UNCHANGED <<env, proc, pass, kafka, count, hist>>

(* ctx.Done() is seen before the next definition.                          *)
CancelPass ==
  /\ proc = "stopping"
  /\ pc[Ticker] = "publish"
  /\ pc' = [pc EXCEPT ![Ticker] = "cancelled"]
  /\ todo' = [todo EXCEPT ![Ticker] = {}]
  /\ UNCHANGED <<env, run, date, due, trying, ok, err, kafka, count, hist>>

(* Mutant: only a pass looks at the context, the loop does not.            *)
ExitAfterCancelledPass ==
  /\ proc = "stopping"
  /\ pc[Ticker] = "cancelled"
  /\ ticker # "none"
  /\ Vanish
  /\ UNCHANGED faults

(* ctx.Done() is seen in the select of the loop: the loop's Run is the     *)
(* first to return, and the process ends.                                  *)
Exit ==
  /\ proc = "stopping"
  /\ pc[Ticker] \in Ended
  /\ ticker # "none"
  /\ Vanish
  /\ UNCHANGED faults

-----------------------------------------------------------------------------
(* The /trigger handler: pkg/handler/trigger.go.                           *)

(* The form value, or when it does not parse the clock's current date in   *)
(* the container's zone (TZ=Europe/Berlin); always without an hour.  The   *)
(* server can still read a request while it is being shut down.            *)
Receive(r, d) ==
  /\ proc # "down"
  /\ pc[r] = "idle"
  /\ d \in RequestDates \union {DateOnly(Timeline[now])}
  /\ Start(r, d)
  /\ asked' = asked \union {d}
  /\ UNCHANGED <<env, run, kafka, count, known, late>>

-----------------------------------------------------------------------------
PassStep(p) ==
  \/ List(p)
  \/ ListFails(p)
  \/ \E e \in todo[p] : Take(p, e)
  \/ \E e \in trying[p] : Publish(p, e) \/ PublishFails(p, e) \/ Count(p, e)

TickLoop == PassStep(Ticker) \/ BeginTick \/ NewTicker \/ CancelPass \/ Exit

Handler(r) == PassStep(r) \/ \E d \in Dates : Receive(r, d)

Next ==
  \/ \E s \in Slugs : Watch(s) \/ \E sched \in Schedules \union {None} : Edit(s, sched)
  \/ HourElapses
  \/ \E c \in topic : Materialise(c)
  \/ Boot \/ Stop \/ Crash \/ ServerEnds
  \/ TickLoop
  \/ \E r \in Requests : Handler(r)

Spec == Init /\ [][Next]_vars

(* Kubernetes restarts the process, the scheduler runs every goroutine,    *)
(* time passes, events are delivered and commands consumed.  Go's select   *)
(* picks among ready cases at random, so it cannot pass over ctx.Done()    *)
(* for ever.  Operators and clients owe nothing, and faults are bounded by *)
(* MaxFaults.                                                              *)
Fairness ==
  /\ WF_vars(Boot)
  /\ WF_vars(TickLoop)
  /\ SF_vars(Exit)
  /\ \A r \in Requests : WF_vars(PassStep(r))
  /\ WF_vars(HourElapses)
  /\ WF_vars(\E s \in Slugs : Watch(s))
  /\ WF_vars(\E c \in topic : Materialise(c))

FairSpec == Spec /\ Fairness
=============================================================================
