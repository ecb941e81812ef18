-------------------------- MODULE TaskCreatorProps --------------------------
(***************************************************************************)
(* What TaskCreator is checked for.                                        *)
(***************************************************************************)
EXTENDS TaskCreator

-----------------------------------------------------------------------------
(* Every command in the topic, whoever sent it and however stale the       *)
(* snapshot it came from, is for a Schedule that was applied, on a date    *)
(* that has come or was asked for, and that this Schedule fires on: no     *)
(* weekday task on a wrong day, nothing from the future on its own accord. *)
Provenance == \A c \in topic : Board!Wanted(c)

(* Why Provenance holds: a cache, a snapshot or a pass never holds a       *)
(* Schedule that was not applied, however far it lags; a pass keeps the    *)
(* date it started with and only definitions that fire on it.              *)
SnapshotsAreApplied ==
  /\ Applied(api) \union Applied(cache) \subseteq known
  /\ \A p \in Actors :
       /\ pc[p] # "idle" => date[p] \in Days
       /\ todo[p] \union trying[p] \subseteq due[p]
       /\ \A e \in due[p] : e \in known /\ Fires(e[2], date[p])

(* Ticks, restarts, requests and redeliveries produce one task for each    *)
(* period of a definition (the contract of TaskIdentifierCreator).         *)
OneTaskPerPeriod ==
  \A f, g \in files :
    f.entry = g.entry /\ SamePeriod(f.entry[2], f.date, g.date) => f = g

(* The controller's de-duplication never swallows another period: commands *)
(* of one definition that share an identifier are of one period, and then  *)
(* carry the same defer_date, whichever of them is consumed first.         *)
ReplaysAreOfOnePeriod ==
  \A c, d \in topic :
    c.id = d.id /\ c.entry = d.entry =>
      SamePeriod(c.entry[2], c.date, d.date) /\ c.defer = d.defer

(* What a pass counts as published (the metric's "success", the response's *)
(* "published") is in the topic, under the date the pass started with, and *)
(* was there before it was counted, even if hours passed, the process      *)
(* stopped or another pass failed to send the same command in between.     *)
CountedIsSent ==
  ~DryRun => \A p \in Actors :
    /\ \A e \in ok[p] : Command(e, date[p]) \in topic
    /\ pc[p] = "sent" => \A e \in trying[p] : Command(e, date[p]) \in topic

(* One failing publish costs no other definition its turn: a pass that     *)
(* ends of its own accord has counted each definition it found exactly     *)
(* once, as a success or as an error, and until then each of them is       *)
(* counted, being published or still to come, and only one of these.       *)
PassAccountsForAll ==
  \A p \in Actors :
    /\ ok[p] \intersect err[p] = {}
    /\ pc[p] = "complete" => ok[p] \union err[p] = due[p]
    /\ pc[p] \in InLoop =>
         /\ ok[p] \union err[p] \union todo[p] \union trying[p] = due[p]
         /\ todo[p] \intersect (ok[p] \union err[p] \union trying[p]) = {}
         /\ trying[p] \intersect (ok[p] \union err[p]) = {}

(* The service implements the board's promise: known is every Schedule     *)
(* ever applied, the days are the hours that have come and the dates that  *)
(* requests took.                                                          *)
ImplementsBoard == Board!Spec

(* A cancelled context lets the tick loop finish the publish it is in and  *)
(* begins no other: whatever the loop does until the process is gone,      *)
(* another tick that Go's select prefers to ctx.Done() included, at most   *)
(* one publish returns to it.                                              *)
AtMostOneLatePublish == late <= 1

-----------------------------------------------------------------------------
HasFile(s, def, d) == \E f \in files : f.id = Identifier(s, def, d)

(* A Schedule that stays, in a period that lasts, gets its task: stops,    *)
(* crashes, failing lists and failing sends are made good by a later tick  *)
(* of the same period.                                                     *)
EventuallyMaterialised ==
  \A s \in Slugs, def \in Schedules :
    \A i \in DOMAIN Timeline :
      Fires(def, Timeline[i]) /\ def.kind \in AllRecurrenceKinds =>
        (<>[](now = i /\ api[s] = def) => <>HasFile(s, def, Timeline[i]))

(* A request is answered, even when every publish of it fails, unless the  *)
(* process ends first.                                                     *)
RequestsEnd == \A r \in Requests : pc[r] = "list" ~> pc[r] \in Ended

(* A stop requested in the middle of a pass ends the process.              *)
StopCompletes == proc = "stopping" ~> proc = "down"

(* What tick.go says of a tick whose store list failed: "the next hourly   *)
(* tick will retry".  A Schedule that stays gets the task the skipped tick *)
(* was due to create.                                                      *)
SkippedTickIsRetried ==
  \A s \in Slugs, def \in Schedules : \A i \in DOMAIN Timeline :
    pc[Ticker] = "skipped" /\ date[Ticker] = Timeline[i] /\ Fires(def, Timeline[i])
      ~> HasFile(s, def, Timeline[i]) \/ api[s] # def
=============================================================================
