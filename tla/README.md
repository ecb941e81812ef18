# Verification of recurring-task-creator

TLA+ models of the Go service in this repository, the TLC runs that check them
on small instances, and TLAPS proofs of their main safety properties for every
value of their constants.

## 1. The system

The service turns *Schedule* custom resources into *create-task commands* on a
Kafka topic. A task controller outside this repository consumes the topic and
creates one task file for each task identifier it has not seen.

| part | state it keeps | operations | talks to |
|---|---|---|---|
| `pkg/schedule` | none (pure) | `TasksForDate` keeps the definitions that fire on a civil date | |
| `pkg/publisher` tokens, identifiers | none (pure) | `Build`, `Create`, `deferDateFor`, placeholders | |
| `pkg/publisher` `Publish` | none | derives the identifier, renders title, body and frontmatter, merges the built-in keys, builds the command, sends it or skips the send in a dry run | Kafka |
| `pkg/store` | none; reads the informer cache | `List` adapts every cached Schedule, drops unknown ones | informer cache |
| `k8s/client/informers` (generated) and client-go | the informers by type, those started, their caches | register, start, wait for the first list; list and watch | Kubernetes API |
| `pkg/tick` | the pass on its stack, `time.Ticker`, metrics | `Run` (first tick, hourly loop), `tick` (one pass), `RunOnce` | store, publisher |
| `pkg/handler` | the request on its stack | `/trigger` (one pass for a given date), `/healthz` | store, publisher |
| `pkg/k8s_connector.go` | the CRD in the cluster | get, create, update of the CRD at start-up | Kubernetes API |
| `pkg/k8s_connector_schema.go` | none | the schema and the CEL admission rules | Kubernetes API server |
| `main.go` | the process | CRD set-up, cache sync with a 30 s limit, Kafka, then HTTP server and tick loop until the first of them ends | all of the above |
| `cmd/run-once` | the process | the same set-up and one tick | all of the above |
| task controller (external) | the task files | consumes commands, ignores known identifiers | Kafka |

The tick loop and every HTTP request run in goroutines of their own and share
the store, the publisher and the cache, and with the cache the frontmatter maps
of the objects in it, which `adaptSchedule` hands on uncopied. They share no
other memory: they meet in the topic and, through it, in the controller's
de-duplication.

What is hard:

* **Everything is re-published every hour**, and again after every restart, and
  again by every request. One task for each period is the work of the
  identifier alone: all days of a period must yield one token, and different
  periods different ones, over ISO weeks, month ends and year ends.
* **Nothing is persisted.** A crash or a stop in the middle of a pass leaves a
  part of the commands sent. What is missing is made good only by a later tick
  of the same period, and for an hourly Schedule there is none.
* **A pass is long and works on a snapshot**: of the clock, read once, and of
  a cache that lags the API. Hours pass, Schedules change, and a stop arrives
  while it is sending.
* **Sends fail ambiguously**: an error may hide a command that was stored.
* **One map, many passes**: several publishes range over the same frontmatter
  map at once, in an order of Go's choosing, each for its own date.
* **Admission is spread out** over required fields, enums, ranges, four CEL rules
  and the adapter, with three copies of the table of weekday names, and it does
  not look again at what is already stored.
* **The wiring is silent when wrong**: a factory with no informer registered
  syncs at once, an informer with the wrong context stops after 30 s, one
  without its namespace serves two stages; none of it is an error.
* **The CRD is shared by the whole cluster**: every process of every namespace
  and build writes it when it starts, and so do operators and the API server.

What makes each part correct:

* tokens: a token changes from one day to the next exactly when the period of
  its kind ends, and never returns; the defer date is the first day of that
  period; a placeholder changes exactly when a period begins, and what a title
  calls the next or the last period is what that period calls the current one;
* a pass: it tries every definition it found exactly once, whatever the others
  return, and counts it as what happened; it sends only applied Schedules, on a
  date they fire on;
* a command: it is that of one version of the Schedule and one date, whatever
  else is published from the same object; commands of one period are equal when
  the template only uses what is steady over it;
* admission: the rules admit the valid objects and no other, and what they admit
  is listed, means what was written, and fires on some day;
* the caches: filled before the first tick, current while the process lives, and
  of one namespace;
* the start-up: an earlier build's schema is replaced for good, nothing is
  overwritten that was not read, and every service works in the end;
* the service: one task file for each period of a Schedule, none of them ever
  replaced; a Schedule that stays gets its task; requests are answered and a
  stop ends the process.

`PROJECT.json` lists the hazards one by one, with their lines and the
properties that cover them.

## 2. Modules

| module | models | kind |
|---|---|---|
| `Calendar` | the part of Go's `time` the publisher computes with | pure, external |
| `PeriodToken` | `TasksForDate`, `Build`, `Create`, `deferDateFor`, `placeholders.go` | pure |
| `PeriodTokenProofs` | | lemmas about the calendar and the tokens |
| `CivilDays` | nothing of the code: the reference, a walk through the calendar that counts days | checks `PeriodToken` |
| `CivilDaysProofs` | | theorems about `CivilDays` |
| `TaskBoard` | nothing of the code: what the service promises to the reader of the board | abstract specification |
| `TaskCreator` | store, tick loop, `/trigger`, `Publish`, process, and the API, clock, topic and controller around them | system |
| `TaskCreatorProps` | | properties of `TaskCreator` |
| `TaskCreatorProofs` | | theorems about `TaskCreator` |
| `Startup` | `k8s_connector.go`, `main.go` up to the running group, `cmd/run-once`, and the API server's CRD around them | system |
| `StartupProofs` | | theorems about `Startup` |
| `Admission` | the schema and CEL rules, `ScheduleSpec`, `adaptSchedule`, `scheduleStore.List`, and the API server that admits and stores | system |
| `AdmissionProofs` | | theorems about `Admission` |
| `Publishing` | `publisher.Publish`, renderer and frontmatter merge, step by step over the informer's objects | system |
| `PublishingProofs` | | theorems about `Publishing` |
| `Informers` | the generated informer factory, its use by `CreateScheduleStore`, `main.go` and `cmd/run-once`, and client-go's informers and API around it | system |
| `InformersProofs` | | theorems about `Informers` |
| `MCCivilDays`, `MCTaskCreator`, `MCStartup`, `MCAdmission`, `MCPublishing`, `MCInformers` | | values for TLC |

### Calendar and PeriodToken

A civil date is a record of year, month, day and hour, as `schedule.Date`. A
token is a *layout* and the numbers printed into it. Every number has a fixed
width, years have four digits and no two layouts print the same string, so
records stand for strings one to one, and the UUID5 of
`recurring-<slug>-<token>` for the pair of slug and token.

### CivilDays

The variables are counted, not computed: `weekday` steps by one modulo seven
and `since[k]` takes today's date whenever a period of kind `k` starts in the
plain sense of the word (a Monday, a first, a first of January). The invariants
and action properties compare `Build`, `deferDateFor` and the placeholders to
them on every day.

### TaskCreator

Actors are the tick loop (`Ticker`) and the requests. Each has a place `pc`, a
`date`, the definitions its pass found (`due`), those still to try (`todo`),
the one its loop is at (`trying`), and those it counted as published (`ok`) or
failed (`err`). A turn of the loop is three steps: check the context and take the
next definition, publish it, count the result.

| action | code |
|---|---|
| `Boot` | `main.go` 80-98: the cache is synchronised before anything else runs |
| `BeginTick` | `tick.Run` 68 and 78, `tick.tick` 97-101: clock, Berlin date and hour |
| `List`, `ListFails` | `tick.tick` 103-120, `trigger.go` 68-74, with `scheduleStore.List`, `adaptSchedule` and `TasksForDate` |
| `Take` | the head of the loop: `tick.tick` 122-127, `trigger.go` 84 |
| `Publish`, `PublishFails` | the call of `publisher.Publish`, `publisher.go` 62-113 |
| `Count` | the rest of the turn: `tick.tick` 130-137, `trigger.go` 86-98 |
| `CancelPass` | `tick.tick` 123-127 |
| `NewTicker` | `tick.Run` 70 |
| `Exit` | `tick.Run` 75-77; it is the first to return and the process ends |
| `ServerEnds` | `main.go` 135-139: after SIGTERM the HTTP server is the first to return |
| `Receive` | `trigger.go` 61-66 |
| `Stop` | SIGTERM cancels the context of both functions of `main.go` 135-139 |
| `Crash` | loss of the process, or an error of its HTTP server |
| `Watch`, `Edit`, `HourElapses`, `Materialise` | informer, operator, clock, controller (external) |

Choices worth knowing:

* The definitions of a tick are tried in any order (the lister returns map
  order), those of a request in the order of their slugs.
* Between the loop's check of the context, the publish and the count anything
  may happen: hours pass, the context is cancelled, the process dies. A publish
  itself is one step: what others do in between does not change its command
  (`Publishing`), and a crash in the middle of it is one before it, or after a
  `PublishFails` that stored the command.
* A send fails at a fault's expense. One of the tick loop also fails, at no
  expense, because its context is cancelled: `Publish` is given that context.
* `CancelOnFirstFinish` cancels on the first return and does not wait for the
  other function, so after SIGTERM the process ends wherever the tick loop is:
  in its `select` (`Exit`), or in the middle of a pass (`ServerEnds`).
* The hour of `Timeline` need not change when `HourElapses`: the clock is set
  back in autumn, and `Timeline` names only hours that tell Schedules apart.
* The container runs with `TZ=Europe/Berlin` (`helm/templates/statefulset.yaml`
  88-89), so the clock's date that `/trigger` falls back to is Berlin's.
* `known`, `asked` and `late` are history variables: every Schedule that was ever
  applied, every date a request took, the publishes that returned to the tick
  loop since the context was cancelled. No guard and no other variable depends
  on them.

`known`, `Days` and `files` are the refinement mapping to `TaskBoard`.

### Startup

The CRD is a record of what it says (`spec`), its revision and whether the API
server has established it. Each process has a place `pc`, the call it makes
next, and `seen`, the object `updateCrd` read.

| action | code |
|---|---|
| `Get` | `SetupCustomResourceDefinition` 67-88 |
| `Create` | `createCrd`; `AlreadyExists` goes on to `updateCrd` |
| `Read`, `Update` | the two calls of `updateCrd`, 113 and 125 |
| `Sync`, `SyncTimesOut` | `main.go` 87-98, `cmd/run-once/main.go` 71-82 |
| `Connect` | `main.go` 103-121, `cmd/run-once/main.go` 84-92 |
| `Finish` | `RunOnce` returns |
| `CallFails` | any of these calls fails or is cut off, stored or not; the process is killed |
| `Start` | the process is started (external) |
| `Establish`, `Edit`, `Delete` | the API server's controller, operators (external) |

An update of an object that is not the stored one is refused (`Conflict`, or
`NotFound`); one that changes nothing is accepted and no write. The informers
list Schedules, which needs an established CRD. `Startup` ends where
`TaskCreator` begins: its `working` is the `Boot` of `TaskCreator`.

### Admission

A JSON object is a record with the fields that are set, so `Has` is CEL's
`has()` and the Go zero values of a missing field are part of `ScheduleTrigger`.
The rules carry the names they have in `k8s_connector_schema.go`.

| action | code |
|---|---|
| `Init`, `OtherBuildStarts` | a cluster in which a build with another schema has stored Schedules, or sets the CRD up again |
| `SetupCustomResourceDefinition` | `k8s_connector.go`: this build's schema comes into force; nothing stored is checked |
| `Apply` | a write, validated by the API server against the schema in force (external) |
| `List`, `Adapt` | `scheduleStore.List`: the objects found, then each adapted or dropped |

The objects may be any that have, of the declared fields, some, each of its
declared type (`ShapesAssumption`): the schema declares the types, and the API
server prunes fields nobody declared and refuses values of another type. Enums,
ranges, required fields and CEL rules are what `scheduleSchema` checks.
`ToLower` maps the words of the schema and leaves other words alone, which no
kind of the service matches.

`Valid` is the reference: what a trigger may be, kind by kind, written from the
meaning of the kinds and not from the rules. `DaysOfWeek` is the reference for
the three tables of weekday names.

### Publishing

A string is a sequence of pieces, each a literal or a placeholder; `Render`
turns known placeholders into literals and leaves unknown ones. Each actor (the
tick loop, the requests) has at most one `Publish` under way, over the object
its pass listed.

| action | code |
|---|---|
| `Begin` | `Publish` 67-87 up to `Format`, which seeds its result (`frontmatter.go` 94-98) |
| `MergeValue`, `BeginList`, `RenderEntry`, `EndList` | the loop over the operator's map (99-109) and `renderList` (123-137), one entry at a time |
| `Stamp` | 110-112 |
| `Send` | `publisher.go` 97-112, dry run, success and both kinds of failure |
| `Watch` | the informer replaces the object (external) |

`shared` is the map of each object as it is now: that no step changes it is a
result (`Untouched` in the proofs), not an assumption. The loop takes the keys
in any order. `Expected` is the reference, key by key and without order.
`TaskCreator` keeps a `Publish` as one step: `Publishing` shows that its outcome
depends on nothing another publish does in between.

### Informers

| action | code |
|---|---|
| `NewFactory` | `pkg/factory/factory.go` 130-134, with the generated `WithNamespace` 81-87 and `NewSharedInformerFactoryWithOptions` 140-160 |
| `MakeLister` | `pkg/factory/factory.go` 135: the lister takes the informer and so registers it (`InformerFor`) |
| `TouchInformer` | `pkg/factory/factory.go` 137: the informer is asked for once more |
| `StartWithContext` | the generated factory 166-182 |
| `BeginSync`, `Wake`, `ReadSyncResult` | `WaitForCacheSyncWithContext` 199-239 with `main.go` 87-98 |
| `Leave`, `Restart` | the process ends, Kubernetes starts it again |
| `ListAll`, `WatchEvent`, `InformerEnds` | client-go's reflector (external), with the namespace filter of the generated informer |
| `Deadline`, `Cancel`, `Outage`, `Recovery`, `Edit` | the 30 s of the sync, a signal, the API server, operators (external) |

The namespace goes the way it goes in the code: from the option into the
factory, from there into the informer that is made first, and from that into its
list and its watch, which cover one namespace or, with `NamespaceAll`, all
(`Covers`). A factory without the option is for all.

A cache is represented by the revision of each namespace it holds, or `Unlisted`.
`WaitContext` and `InformerContext` name the two contexts `main.go` creates for
the wait and for the informers. The cache sync of `Startup` (`Sync`,
`SyncTimesOut`) is this model in one step.

## 3. Runs

| run | instance | shows |
|---|---|---|
| `civil_days` | 31 years, offsets -13 to 5 | tokens, defer dates and placeholders turn with the periods; no two kinds but the two yearly ones share a token |
| `replays` | 1 slug, a weekly and an ondate Schedule, 3 hours, 1 request, 1 edit, 1 fault | one task for each period, provenance, refinement of `TaskBoard` |
| `passes` | 2 slugs with a daily, a Friday or an unknown Schedule, 1 hour, 1 request, 2 faults | a pass accounts for all it found, a stop lets at most one publish return, requests are answered |
| `liveness` | 1 slug, a weekly and an ondate Schedule, 2 hours, 1 edit, 2 faults | the task comes in the end; a stop completes |
| `hourly_loss` | 1 slug, an hourly Schedule, 1 fault | **violated**: see Findings |
| `startup` | 2 services of two builds, 1 run-once, a CRD of a third build or none, 1 edit or deletion, 2 faults | an old schema does not come back, no blind overwrite, everyone starts in the end |
| `pods_together` | 2 services of one build, no CRD, no edit, no fault | **violated**: see Findings |
| `dry_run_kafka` | 1 run-once with `DRY_RUN` | **violated**: see Findings |
| `admission` | 2 slugs, every trigger at a boundary of the schema, incomplete objects, 1 edit | admission is exact; admitted Schedules are listed as written and fire |
| `publishing` | 2 actors, 2 dates, 2 versions, dry run or not | a command is of one version and date; replays are identical |
| `frontmatter_wins` | the same | **violated**: see Findings |
| `informers` | 2 namespaces of 2 edits each, 2 faults | ticks run on filled caches that follow the API; one namespace; the sync ends |

Bounds. `MaxEdits` and `MaxFaults` bound what operators and failures do, not
what the service does: ticks, restarts and deliveries are unbounded. Each member
of `Requests` makes one pass; TLC has at most one of them, the theorems any number.
The timelines cross New Year's night 2026/27, where day, month, quarter and
year change and the ISO week does not; a third hour lies in the next ISO week.
One slug suffices where the property is about one definition, because passes
share no state between slugs; two are used where the order or the failure of
one could touch the other. `passes` stays in one hour, a Thursday's, so that a
Friday Schedule lies in the store and does not fire; its two faults are two
failing publishes, or one and a stop, or a stop and a crash. The 31 years of
`civil_days` hold every combination of leap year and weekday of 1 January, weeks
52 and 53 at the year's end, and 2100, which is not a leap year.

In `Startup` three processes are enough for one to write between the read and
the update of another while a third starts; with two faults a process can fail
twice, or two processes once. Every spec that may come into the CRD is one of
three: left behind, and wanted by the one or the other build.

`admission` writes each recurrence with each field it may or may not have, all
14 weekday names alone, every short name next to every long one, and months,
days and offsets at the ends of their ranges; one object at a time is new,
because the rules look at one object. Next to it lies what another build left:
a recurrence nobody knows, and a weekday Schedule without days.

`publishing` needs two actors for one to overtake the other, two dates of one
ISO week in two years, so that the identifier of the weekly version agrees while
year, month and day do not, and two versions, so that the object is replaced in
the middle. The frontmatters hold a scalar, a list of mixed entries, a seeded
key and two stamped ones.

`informers`: two faults are an outage before the list and one after it, or an
outage and a stop; the deadline and recoveries are unbounded. The service has
one type of informer; the proofs are for any number.

`CHECK_DEADLOCK FALSE` appears in `civil_days`, whose walks end after a year
and a week, and in the runs of `Startup`, which has nothing left to do when
the services work, the run-once has ended and the edits are used up.

### Fairness

`FairSpec` assumes weak fairness of the process restart (Kubernetes restarts
the pod), of the tick loop and of a running request (goroutines are scheduled,
calls return), of the clock, of the informer and of the controller. It assumes
strong fairness of `Exit` alone: with a tick pending *and* the context
cancelled, Go's `select` picks at random, so the loop may run another tick, but
not for ever. Operators, clients and failures owe nothing; failures are bounded
by `MaxFaults`, so "in the end" means once failures have stopped for a while.

`FairSpec` of `Startup` assumes weak fairness of every call of a running
process (calls return; those that do not are faults, cut off after 30 s), of
the start of a service (the StatefulSet) and of `Establish`. Nobody starts a
run-once.

`FairSpec` of `Informers` assumes weak fairness of `main`'s next call, of the
deadline (a timer), of the informers' goroutines, of the end of a process that
failed or was cancelled, and of its restart. Nothing makes the API come back:
`SyncEnds` holds without it, and `CacheFollowsApi` is about the runs in which it
stays reachable.

`Admission` and `Publishing` have safety properties only and state no fairness.

## 4. Proofs

The theorems hold for every value of the constants that meets the `ASSUME`s of
the module, which TLC evaluates on every run. Beyond bounds being numbers and
names being distinct, those say:

* dates are dates of the calendar, in years from 0 on: they come from the clock
  or from a request that `time.Parse` accepted;
* an offset is an integer, 0 where none is set: the field is a Go `int`;
* stored objects have the JSON types the schema declares;
* a frontmatter list is a finite sequence, and a Schedule has one version at least.

Every safety invariant and action property of a passing run is a theorem.

### Calendar and tokens

`PeriodTokenProofs` holds lemmas for all years and offsets. `DayNumber` orders
the dates and names one date each (`DayNumberGrows`, `DayNumberNamesTheDate`),
`AddDays` adds to it (`AddDaysAdds`), over month ends and leap days. Two dates
have one ISO week if and only if they lie in one run from Monday to Sunday
(`ISOWeekIsTheWeek`): the ISO year is that of the week's Thursday, and its
number is counted by that Thursday. From these:

* `TokensNamePeriods`: on two dates a definition fires on, `Build` is equal if
  and only if they lie in one period of its kind (`SamePeriod`);
* `DeferDateNamesPeriods`: the defer date is equal on the dates of one period;
* `FiredGetTokens`: a definition that fires has a token.

`CivilDaysProofs` proves, for any years to start in, any length of the walk and
any offsets:

| theorem | property |
|---|---|
| `WalkIsTyped` | `TypeOK` |
| `WeekdaysAreCounted` | `WeekdayIsCounted` |
| `DeferDatesArePeriodStarts` | `DeferDateIsPeriodStart` |
| `TokensFollowPeriods` | `TokenFollowsPeriod` |
| `TokensNeverReturn` | `TokenNeverReturns` |
| `WeekendsAreInTheirWeek` | `WeekendInCurrentWeek` |
| `PlaceholdersTurn` | `PlaceholdersTurnWithPeriods` |
| `KindsShareTheYearOnly` | `KindsShareOnlyTheYear` |

The inductive invariant, `WalkInv`, says that what the walk counted is what the
calendar computes: the weekday is `Weekday` of today, and `since[k]`, once
known, the first day of today's period. `TokensFollowPeriods` and
`TokensNeverReturn` use it on both ends of a step; the second needs that tokens
grow with the days (`TokensGrow`), number by number. `PlaceholdersTurn` compares
the placeholders of a day and of the next: the week's by the day a week later
(`WeeksTurn`), the others by their numbers, over the ends of months, quarters and
years (`MonthsTurn`, `QuartersTurn`, `YearsTurn`).

### Service

`TaskCreatorProofs`, for any slugs, schedules, timeline, requests and bounds:

| theorem | property |
|---|---|
| `TypeCorrect` | `TypeOK` |
| `CommandsHaveProvenance` | `Provenance` |
| `ServiceImplementsBoard` | `ImplementsBoard`, the refinement of `TaskBoard` |
| `CountedPublishesWereSent` | `CountedIsSent` |
| `PassesAccountForAll` | `PassAccountsForAll` |
| `SnapshotsStayApplied` | `SnapshotsAreApplied` |
| `StopAllowsOnePublish` | `AtMostOneLatePublish` |
| `DryRunIsSilent` | `Silent`: with `DRY_RUN` the topic and the board stay empty |
| `ReplaysStayInOnePeriod` | `ReplaysAreOfOnePeriod` |
| `PeriodsHaveOneTask` | `OneTaskPerPeriod` |

`TypeOK` is inductive once a pass that is not idle is known to have a date
(`TypeInv`). `Provenance` is not: a command is wanted because the
pass that sent it kept its date and holds only applied definitions that fire on
it. That is `SnapshotsAreApplied`, checked as an invariant of `replays`; with
it and the facts that `known` and `Days` only grow (`WantedStays`) the
conjunction is inductive (`SafeInvHolds`). Refinement follows: `Materialise`
is the board's `Create`, everything else leaves the files alone and is `Learn`
or a stutter (`StepImplementsBoard`). `PassAccountsForAll` is inductive with
`TypeOK`; the lemmas say what an untouched and an ended pass count.
`AtMostOneLatePublish` needs `LateInv`: `late` is 0 unless the process is stopping
and the loop is out of the publish the stop found it in. Of what the loop may
still do, a further tick included, only `Take` leads into a publish, and it needs
a context that is not cancelled. `Silent` is inductive.

The last two put the service and the calendar together. Of two commands of one
definition, `Provenance` says that each is that of a date the definition fires
on; `TokensNamePeriods` then says that they share an identifier exactly when
the dates are of one period (`WantedCommandsOfAPeriod`). So the controller,
which never writes an identifier twice (`FilesStayDistinct`), keeps one task for
each period and never takes a command of another period for a repetition.

### Start-up

`StartupProofs`, for any processes, builds, dry runs and bounds:

| theorem | property |
|---|---|
| `Typed` | `TypeOK` |
| `OverwritesAreSeen` | `NoBlindOverwrite` |
| `StaleSchemaGoes` | `StaleSchemaIsGone` |

`NoBlindOverwrite` needs that a process holds no CRD before it reads one
(`NothingHeld`, inductive with `TypeOK`): a create that succeeds found nothing
and holds nothing, an update is accepted only over what was read.
`StaleSchemaIsGone` is inductive with `TypeOK`: a process comes past the set-up
only by writing what its build wants, and without edits nothing else is ever
written (`StoreInstalls`).

### Informers

`InformersProofs`, for any types, namespaces and bounds:

| theorem | property |
|---|---|
| `Typed` | `TypeOK` |
| `CachesAreFilled` | `RunsOnFilledCache` |
| `NamespaceIsOwn` | `OwnNamespaceOnly` |

`RunsOnFilledCache` needs to know why a successful wait means filled caches
(`FillInv`): once the lister is made every type is registered, from the start on
every registered type is started, so the sync awaits every type; and a type that
has synced has its own namespace listed, which no later event undoes. `FillInv`
also follows the namespace: the factory's is that of the process once it is made
(`Made`), and each registered informer is for it (`Scoped`). `OwnNamespaceOnly`
uses the second: an informer that runs covers that namespace and no other.

### Admission

`AdmissionProofs`, for any slugs, any typed objects stored or applied, and any
number of edits:

| theorem | property |
|---|---|
| `AdmissionIsTyped` | `TypeOK` |
| `AdmissionExact` | `AdmissionIsExact` |
| `AdmittedAreListed` | `AdmittedIsListed` |
| `AdmittedMeanWhatTheySay` | `ListedAsWritten` |
| `AdmittedAreAlive` | `AdmittedFires` |

The inductive invariant, `AdmissionInv`, is about the list: what it found are
stored objects, one for each name, and what it collected are the adapted ones of
those it came to. The rest is about one object. `TriggersAreExact` goes through
the kinds and shows each rule equal to its part of `Valid`. For the weekday
lists the tables are shown to name the same days (`NamesNameDays`), and a list
of names to have no duplicates if and only if it has as many days as entries,
by cardinality (`DaysOfLists`). `LeapYearHasEveryWeekday` gives each weekday
Schedule its day.

### Publishing

`PublishingProofs`, for any number of actors, dates and versions and any
frontmatter:

| theorem | property |
|---|---|
| `PublishingIsTyped` | `TypeOK` |
| `CommandsAreOfOneVersion` | `CommandIsOfOneVersionAndDate` |
| `ReplaysAreEqual` | `ReplaysAreIdentical` |

`CommandIsOfOneVersionAndDate` is not inductive: `BuildInv` adds that the
informer's maps are as delivered (`Untouched`) and what each call has made of its
map so far. In the loop the result is `Merged`: rendered for the keys it has been
to, seeded elsewhere (`MergedGrows`); within a list it is a rendered `Prefix`
(`PrefixGrows`); after the stamps it is `Expected` (`StampedIsExpected`). Each
action has its own lemma, and `OthersBuildOn` says that it leaves the other
calls where they were.

`ReplaysAreIdentical` follows from it, without looking at steps again: both
commands are `Expected` of one version and of dates it fires on (`OnlyFired`);
sharing an identifier, the dates are of one period (`TokensNamePeriods`); and
over a period the placeholders in `Steady` have one value
(`SteadyOverThePeriod`), so the commands agree key by key (`CommandsAgree`).

### Only model-checked

Liveness is out of the prover's reach: `RequestsEnd`, `EventuallyMaterialised`,
`StopCompletes`, `EveryoneStarts`, `CacheFollowsApi` and `SyncEnds` are checked
on the instances of section 3. So are the disagreements in section 5, which are
counterexamples and need no proof.

## 5. Findings

* **A skipped tick is not retried for hourly Schedules** (`hourly_loss`).
  `pkg/tick/tick.go` 93-94 says the next hourly tick will retry after a failed
  store list. It runs in another civil hour and derives another token; the
  skipped hour's task never appears. The same holds for every point-shaped kind
  when the last tick of the day is the one that fails.

* **Pods that boot together can fail** (`pods_together`).
  `specs/in-progress/008-crd-scaffolding.md` 73 says the second pod's create
  falls through to an update that changes nothing, with no recovery needed. The
  API server writes the CRD itself when it establishes it; if that comes
  between the second pod's read and its update, the update is a `Conflict`,
  which `updateCrd` does not retry, and the pod exits. The restart is the
  recovery (`EveryoneStarts` of `startup`).
* **A dry run of run-once needs Kafka** (`dry_run_kafka`).
  `cmd/run-once/main.go` 38 says the brokers are ignored when `DRY_RUN` is
  true, and `dry_run_sender.go` 13-14 that the no-op sender avoids the Kafka
  client there; lines 84-92 open the producer all the same. `main.go` does not.
* **Operators override `status` and `page_type`** (`frontmatter_wins`).
  `pkg/k8s_connector_schema.go` 253-256, the text `kubectl explain` shows, says
  the three built-in keys always win. `Format` seeds `status` and `page_type`
  first and lets every operator key overwrite them (`frontmatter.go` 94-109);
  only `created_by` is put over the rest. The comment at
  `pkg/schedule/task_definition.go` 64-68 describes what the code does.

Two disagreements are not runs:

* `specs/in-progress/003-tick.md` 86 says of a SIGTERM in the middle of a tick that
  the publish in progress is allowed to finish and the loop then exits. But
  `main.go` 135-139 ends with the first of its two functions; if that is the HTTP
  server, the process may be gone in the middle of a publish (`ServerEnds`).
  `CancelOnFirstFinish` is a library outside the repository, and
  `prompts/completed/007-tick-package.md` 73 is the one place here that says it
  does not wait; the model allows either function to be first.
* `specs/in-progress/005-trigger-http-handler.md` 45 and 58 have `/trigger`
  publishes counted by the published counter, which only the tick loop increments
  (`tick.go` 129-137). The metrics are not modelled beyond a pass.

## 6. Plan

Done: tokens and calendar, the service and its board, start-up, admission,
publishing, informers; their safety properties as theorems. Next:

1. The bridges between modules as theorems: what `Admission` lets through meets
   the assumptions `TaskCreator` and `Publishing` make of a Schedule; an update
   of a CRD in `Startup` and its being in force in `Admission`.
2. The safety half of the liveness properties: what a stop, a request or a sync
   leaves to be done only ever shrinks.
3. `InformersProofs`: what a cache holds was a revision of the API, and caches do
   not go back.

## 7. Not modelled

* The metrics' running totals, the gauge, logging and Sentry: nothing reads them
  back. What a pass counts is modelled.
* HTTP routing, `/healthz`, JSON of requests and answers: no state.
* Generated clientset, apply configurations, deep copies, mocks: no state of
  their own, and the service neither writes nor copies a Schedule. Of the
  generated factory, `Shutdown`, resync, transform and tweak options have no
  caller here.
* Constructors in `pkg/factory` other than `CreateScheduleStore` and
  `CreatePublisher`: they pass arguments on.
* Deployment manifests; what they say of time zone and replicas is assumed.
* The pass of run-once step by step: it is the tick of `TaskCreator`, one step of
  `Startup` here.
* What an offset of thousands of years prints: `periodOffset` has no bounds, and
  the fixed width of a token's year is assumed.
* The trimming of blanks in a title.
