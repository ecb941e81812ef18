------------------------------ MODULE Startup ------------------------------
(***************************************************************************)
(* From the start of a process to its tick loop: main.go and cmd/run-once  *)
(* install the Schedule CRD (pkg/k8s_connector.go), wait for the informer  *)
(* cache, connect to Kafka, and go to work.                                *)
(*                                                                         *)
(* The CRD is one object of the whole cluster, while processes start in    *)
(* several namespaces (a StatefulSet per stage), in builds of their own,   *)
(* and by hand (run-once).  The API server gives every stored write a      *)
(* revision and refuses an update of an object that is no longer the one   *)
(* that was read.  Any call may fail, with or without the write having     *)
(* been stored; a process that fails exits and is started again.           *)
(***************************************************************************)
EXTENDS Naturals

CONSTANTS
  Services,  \* the processes of main.go
  Jobs,      \* the processes of cmd/run-once
  Specs,     \* what a CRD can say
  Desired,   \* [process -> the spec its build wants]
  Initial,   \* the specs that earlier builds may have left behind
  Dry,       \* the processes with DRY_RUN set
  Absent,    \* no CRD
  MaxEdits,  \* bounds what operators do to the CRD
  MaxFaults  \* bounds the failing calls and the kills

Processes == Services \union Jobs

ASSUME ProcessesAssumption == Services \intersect Jobs = {} /\ Dry \subseteq Processes
ASSUME DesiredAssumption == Desired \in [Processes -> Specs]
ASSUME InitialAssumption == Initial \subseteq Specs
ASSUME AbsentAssumption == Absent \notin [spec : Specs, rev : Nat, established : BOOLEAN]
ASSUME BoundsAssumption == MaxEdits \in Nat /\ MaxFaults \in Nat

VARIABLES
  crd,        \* the stored CRD with its revision, or Absent; established
              \* once the API server serves Schedules
  rev,        \* the revision of the last write
  pc,         \* [process -> the call it makes next]
  seen,       \* [process -> the CRD updateCrd read]
  producers,  \* the processes that opened a Kafka producer
  edits,
  faults

vars == <<crd, rev, pc, seen, producers, edits, faults>>

Crds == [spec : Specs, rev : Nat, established : BOOLEAN]

(* SetupCustomResourceDefinition has returned nil.                         *)
PastSetup == {"sync", "kafka", "working"}

Calling == {"get", "create", "read", "update"} \union (PastSetup \ {"working"})

TypeOK ==
  /\ crd \in Crds \union {Absent}
  /\ rev \in Nat
  /\ pc \in [Processes -> {"off", "ended"} \union Calling \union {"working"}]
  /\ seen \in [Processes -> Crds \union {Absent}]
  /\ \A p \in Processes : pc[p] = "update" => seen[p] \in Crds
  /\ producers \subseteq Processes
  /\ edits \in 0..MaxEdits
  /\ faults \in 0..MaxFaults

Init ==
  /\ rev = 1
  /\ \/ crd = Absent
     \/ \E spec \in Initial : crd = [spec |-> spec, rev |-> 1, established |-> TRUE]
  /\ pc = [p \in Processes |-> "off"]
  /\ seen = [p \in Processes |-> Absent]
  /\ producers = {}
  /\ edits = 0
  /\ faults = 0

Goto(p, step) == pc' = [pc EXCEPT ![p] = step]

(* The process returns an error and exits; what it holds is closed.        *)
Fail(p) ==
  /\ Goto(p, "off")
  /\ seen' = [seen EXCEPT ![p] = Absent]
  /\ producers' = producers \ {p}

(* The API server stores a write; one that changes nothing is no write.    *)
Store(spec) ==
  IF crd # Absent /\ crd.spec = spec
  THEN UNCHANGED <<crd, rev>>
  ELSE /\ rev' = rev + 1
       /\ crd' = [spec |-> spec, rev |-> rev + 1,
                  established |-> crd # Absent /\ crd.established]

Fault == faults < MaxFaults /\ faults' = faults + 1

-----------------------------------------------------------------------------
(* SetupCustomResourceDefinition, createCrd, updateCrd.                    *)

Start(p) ==
  /\ pc[p] = "off"
  /\ Goto(p, "get")
  /\ UNCHANGED <<crd, rev, seen, producers, edits, faults>>

(* Mutant: a CRD that is there is left as it is.                           *)
GetAndLeave(p) ==
  /\ pc[p] = "get"
  /\ Goto(p, IF crd = Absent THEN "create" ELSE "sync")
  /\ UNCHANGED <<crd, rev, seen, producers, edits, faults>>

(* Mutant: NotFound is an error like any other.                            *)
GetOrFail(p) ==
  /\ pc[p] = "get"
  /\ IF crd = Absent THEN Fail(p) ELSE Goto(p, "read") /\ UNCHANGED <<seen, producers>>
  /\ UNCHANGED <<crd, rev, edits, faults>>

Get(p) ==
  /\ pc[p] = "get"
  /\ Goto(p, IF crd = Absent THEN "create" ELSE "read")
  /\ UNCHANGED <<crd, rev, seen, producers, edits, faults>>

(* AlreadyExists falls through to updateCrd.                               *)
Create(p) ==
  /\ pc[p] = "create"
  /\ IF crd = Absent
     THEN Store(Desired[p]) /\ Goto(p, "sync")
     ELSE UNCHANGED <<crd, rev>> /\ Goto(p, "read")
  /\ UNCHANGED <<seen, producers, edits, faults>>

(* Mutant: NotFound is let through.                                        *)
ReadRegardless(p) ==
  /\ pc[p] = "read"
  /\ Goto(p, "update")
  /\ seen' = [seen EXCEPT ![p] = crd]
  /\ UNCHANGED <<crd, rev, producers, edits, faults>>

(* updateCrd reads the object again; NotFound is an error here.            *)
Read(p) ==
  /\ pc[p] = "read"
  /\ IF crd = Absent
     THEN Fail(p)
     ELSE Goto(p, "update") /\ seen' = [seen EXCEPT ![p] = crd] /\ UNCHANGED producers
  /\ UNCHANGED <<crd, rev, edits, faults>>

(* Mutant: the object is built anew, without the revision that was read.   *)
UpdateUnconditionally(p) ==
  /\ pc[p] = "update"
  /\ Store(Desired[p])
  /\ Goto(p, "sync")
  /\ UNCHANGED <<seen, producers, edits, faults>>

(* The whole spec is replaced.  A CRD that changed since it was read is a  *)
(* Conflict, one that is gone NotFound: both are errors, not retried.      *)
Update(p) ==
  /\ pc[p] = "update"
  /\ IF crd = seen[p]
     THEN Store(Desired[p]) /\ Goto(p, "sync") /\ UNCHANGED <<seen, producers>>
     ELSE Fail(p) /\ UNCHANGED <<crd, rev>>
  /\ UNCHANGED <<edits, faults>>

-----------------------------------------------------------------------------
(* The rest of application.Run.                                            *)

(* The informers list Schedules, which needs a CRD that is established.    *)
(* run-once opens a producer even in a dry run.                            *)
Sync(p) ==
  /\ pc[p] = "sync"
  /\ crd # Absent /\ crd.established
  /\ Goto(p, IF p \in Services \intersect Dry THEN "working" ELSE "kafka")
  /\ UNCHANGED <<crd, rev, seen, producers, edits, faults>>

(* 30 s without a CRD.                                                     *)
SyncTimesOut(p) ==
  /\ pc[p] = "sync"
  /\ crd = Absent
  /\ Fail(p)
  /\ UNCHANGED <<crd, rev, edits, faults>>

Connect(p) ==
  /\ pc[p] = "kafka"
  /\ producers' = producers \union {p}
  /\ Goto(p, "working")
  /\ UNCHANGED <<crd, rev, seen, edits, faults>>

(* RunOnce has made its pass; a service works until it is stopped.         *)
Finish(p) ==
  /\ p \in Jobs
  /\ pc[p] = "working"
  /\ Goto(p, "ended")
  /\ producers' = producers \ {p}
  /\ UNCHANGED <<crd, rev, seen, edits, faults>>

(* A call returns an error, the 30 s of a phase are over, or the process   *)
(* is killed.  A write may have been stored all the same.                  *)
CallFails(p) ==
  /\ pc[p] \in Calling \union {"working"}
  /\ Fault
  /\ \/ UNCHANGED <<crd, rev>>
     \/ pc[p] = "create" /\ crd = Absent /\ Store(Desired[p])
     \/ pc[p] = "update" /\ crd = seen[p] /\ Store(Desired[p])
  /\ Fail(p)
  /\ UNCHANGED edits

-----------------------------------------------------------------------------
(* Others write the CRD: the API server's controller, when it begins to    *)
(* serve it, and operators, who apply another spec or delete it.           *)
Establish ==
  /\ crd # Absent /\ ~crd.established
  /\ rev' = rev + 1
  /\ crd' = [crd EXCEPT !.rev = rev + 1, !.established = TRUE]
  /\ UNCHANGED <<pc, seen, producers, edits, faults>>

Edit(spec) ==
  /\ edits < MaxEdits
  /\ edits' = edits + 1
  /\ Store(spec)
  /\ UNCHANGED <<pc, seen, producers, faults>>

Delete ==
  /\ edits < MaxEdits
  /\ crd # Absent
  /\ edits' = edits + 1
  /\ rev' = rev + 1
  /\ crd' = Absent
  /\ UNCHANGED <<pc, seen, producers, faults>>

-----------------------------------------------------------------------------
Setup(p) == Get(p) \/ Create(p) \/ Read(p) \/ Update(p)

Work(p) == Setup(p) \/ Sync(p) \/ SyncTimesOut(p) \/ Connect(p) \/ Finish(p)

Next ==
  \/ \E p \in Processes : Start(p) \/ Work(p) \/ CallFails(p)
  \/ Establish
  \/ \E spec \in Specs : Edit(spec)
  \/ Delete

Spec == Init /\ [][Next]_vars

(* Every call returns, the API server gets to establishing the CRD, and    *)
(* the StatefulSet starts a failed service again; nobody starts a run-once.*)
FairSpec ==
  /\ Spec
  /\ \A p \in Processes : WF_vars(Work(p))
  /\ \A p \in Services : WF_vars(Start(p))
  /\ WF_vars(Establish)

-----------------------------------------------------------------------------
(* A process replaces only the CRD it has read: what another pod or an     *)
(* operator wrote in the meantime is never overwritten unseen, however     *)
(* long the process took (existing carries the revision into Update).      *)
NoBlindOverwrite ==
  [][\A p \in Processes :
       pc[p] \in {"create", "update"} /\ pc'[p] # pc[p] /\ crd' # crd => crd = seen[p]]_vars

(* Once one process is past the set-up, the schema that an earlier build   *)
(* left behind is gone for good, however many processes race, fail half-   *)
(* way and start again; only somebody outside can bring another.           *)
StaleSchemaIsGone ==
  edits = 0 /\ (\E p \in Processes : pc[p] \in PastSetup) =>
    crd # Absent /\ \E q \in Processes : crd.spec = Desired[q]

(* Conflicts, half-done calls, deletions of the CRD in the middle of it:   *)
(* in the end every service works, and every run-once that is begun ends,  *)
(* with its pass made or with an error.                                    *)
EveryoneStarts ==
  /\ \A p \in Services : <>[](pc[p] = "working")
  /\ \A p \in Jobs : pc[p] = "get" ~> pc[p] \in {"off", "ended"}

(* What specs/in-progress/008-crd-scaffolding.md says of pods that boot at *)
(* the same time and both create the CRD: the second falls through to the  *)
(* update, and no recovery is needed.  Nobody fails without a failing call *)
(* and without an operator.                                                *)
PodsStartTogether ==
  [][\A p \in Processes :
       faults' = 0 /\ crd' # Absent /\ pc[p] \in Calling => pc'[p] # "off"]_vars

(* What the dry-run flag of run-once says of the Kafka brokers: they are   *)
(* ignored when DRY_RUN is true.                                           *)
DryRunAvoidsKafka == producers \intersect Dry = {}
=============================================================================
