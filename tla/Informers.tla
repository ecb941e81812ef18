------------------------------ MODULE Informers ------------------------------
(***************************************************************************)
(* How the service comes to its Schedules: main.go creates the shared      *)
(* informer factory and the store, starts the informers, waits for their   *)
(* caches at most 30 s, and then runs the tick loop over what the lister   *)
(* finds.  cmd/run-once does the same for one tick.  The informer itself   *)
(* (client-go) is modelled by what it does: in a goroutine, until its      *)
(* context is done, it lists and watches the namespace it was made for.    *)
(***************************************************************************)
EXTENDS Naturals, FiniteSets

CONSTANTS
  Types,         \* the types the program takes informers for
  Namespaces,    \* the namespaces of the cluster, each with its Schedules
  Namespace,     \* that of this process
  NamespaceAll,  \* v1.NamespaceAll: a list or watch of it covers them all
  NoInformer,    \* no informer of a type is registered
  MaxEdits,      \* bounds the changes in each namespace
  MaxFaults      \* bounds the outages of the API and the stops

ASSUME NamespaceAssumption == Namespace \in Namespaces
ASSUME ScopeAssumption ==
  NamespaceAll \notin Namespaces /\ NoInformer \notin Namespaces \union {NamespaceAll}
ASSUME BoundsAssumption == MaxEdits \in Nat /\ MaxFaults \in Nat
ASSUME TypesAssumption == Types # {}

(* A namespace never listed, next to its revisions 0, 1, ...               *)
Unlisted == MaxEdits + 1

Revisions == 0..MaxEdits

(* What a factory or an informer can be limited to.                        *)
Scopes == Namespaces \union {NamespaceAll}

VARIABLES
  api,        \* [namespace -> the revision of its Schedules]
  reachable,  \* does the API answer?
  main,       \* where main is
  ctx,        \* the process's context: live or cancelled
  syncCtx,    \* the context of the cache sync: none, live or expired
  namespace,  \* the factory's namespace
  informers,  \* the factory's map of informers: [type -> the namespace it is for]
  started,    \* those it has started
  awaited,    \* those WaitForCacheSyncWithContext waits for
  goroutine,  \* [type -> none, running or ended]
  cache,      \* [type -> [namespace -> the revision the indexer holds]]
  synced,     \* the types whose first list is in the indexer
  faults      \* outages and stops so far

world   == <<api, reachable>>
factory == <<namespace, informers, started>>
caches  == <<goroutine, cache, synced>>
vars    == <<world, main, ctx, syncCtx, factory, awaited, caches, faults>>

Registered == {t \in Types : informers[t] # NoInformer}

TypeOK ==
  /\ api \in [Namespaces -> Revisions]
  /\ reachable \in BOOLEAN
  /\ main \in {"new", "made", "listing", "wired", "started", "waiting", "woken", "run", "failed", "down"}
  /\ ctx \in {"live", "cancelled"}
  /\ syncCtx \in {"none", "live", "expired"}
  /\ namespace \in Scopes
  /\ informers \in [Types -> Scopes \union {NoInformer}]
  /\ started \subseteq Registered
  /\ awaited \subseteq started
  /\ goroutine \in [Types -> {"none", "running", "ended"}]
  /\ \A t \in Types : t \in started <=> goroutine[t] # "none"
  /\ cache \in [Types -> [Namespaces -> Revisions \union {Unlisted}]]
  /\ synced \subseteq started
  /\ faults \in 0..MaxFaults

NoInformers == [t \in Types |-> NoInformer]

EmptyCache == [t \in Types |-> [n \in Namespaces |-> Unlisted]]

Init ==
  /\ api = [n \in Namespaces |-> 0]
  /\ reachable \in BOOLEAN
  /\ main = "new"
  /\ ctx = "live" /\ syncCtx = "none"
  /\ namespace = NamespaceAll
  /\ informers = NoInformers /\ started = {} /\ awaited = {}
  /\ goroutine = [t \in Types |-> "none"]
  /\ cache = EmptyCache
  /\ synced = {}
  /\ faults = 0

Fault == faults < MaxFaults /\ faults' = faults + 1

-----------------------------------------------------------------------------
(* The world.                                                              *)
Edit(n) ==
  /\ api[n] < MaxEdits
  /\ api' = [api EXCEPT ![n] = @ + 1]
  /\ UNCHANGED <<reachable, main, ctx, syncCtx, factory, awaited, caches, faults>>

Outage ==
  /\ reachable /\ Fault
  /\ reachable' = FALSE
  /\ UNCHANGED <<api, main, ctx, syncCtx, factory, awaited, caches>>

Recovery ==
  /\ ~reachable
  /\ reachable' = TRUE
  /\ UNCHANGED <<api, main, ctx, syncCtx, factory, awaited, caches, faults>>

(* SIGTERM.                                                                *)
Cancel ==
  /\ main # "down" /\ ctx = "live" /\ Fault
  /\ ctx' = "cancelled"
  /\ UNCHANGED <<world, main, syncCtx, factory, awaited, caches>>

(* 30 s after the sync began, whether or not it has ended since.           *)
Deadline ==
  /\ syncCtx = "live"
  /\ syncCtx' = "expired"
  /\ UNCHANGED <<world, main, ctx, factory, awaited, caches, faults>>

(* A derived context is done with its parent.                              *)
Done(c) == ctx = "cancelled" \/ (c = "syncCtx" /\ syncCtx = "expired")

-----------------------------------------------------------------------------
(* main.                                                                   *)

(* Mutant: the factory is made without the option.                         *)
NewFactoryForAll ==
  /\ main = "new"
  /\ main' = "made"
  /\ namespace' = NamespaceAll
  /\ UNCHANGED <<world, ctx, syncCtx, informers, started, awaited, caches, faults>>

(* NewSharedInformerFactoryWithOptions starts from NamespaceAll, and       *)
(* WithNamespace puts the namespace of the process in its place.           *)
NewFactory ==
  /\ main = "new"
  /\ main' = "made"
  /\ namespace' = Namespace
  /\ UNCHANGED <<world, ctx, syncCtx, informers, started, awaited, caches, faults>>

(* Mutant: the new informer is not entered into the factory's map.         *)
InformerForUnregistered(t) == informers[t]

(* The informer of a type: the one the factory has, or a new one, for the  *)
(* namespace that Task().V1() takes over from the factory.                 *)
InformerFor(t) == IF informers[t] = NoInformer THEN namespace ELSE informers[t]

(* The store's lister is made from the informer, which registers it.       *)
MakeLister ==
  /\ main = "made"
  /\ main' = "listing"
  /\ informers' = [t \in Types |-> InformerFor(t)]
  /\ UNCHANGED <<world, ctx, syncCtx, namespace, started, awaited, caches, faults>>

(* The informer is touched once more, so that it is registered even if     *)
(* the lister did not take it.                                             *)
TouchInformer ==
  /\ main = "listing"
  /\ main' = "wired"
  /\ informers' = [t \in Types |-> InformerFor(t)]
  /\ UNCHANGED <<world, ctx, syncCtx, namespace, started, awaited, caches, faults>>

(* Mutant: the informers are not marked as started.                        *)
StartUnmarked ==
  /\ main = "wired"
  /\ main' = "started"
  /\ goroutine' = [t \in Types |-> IF t \in Registered \ started THEN "running" ELSE goroutine[t]]
  /\ UNCHANGED <<world, ctx, syncCtx, factory, awaited, cache, synced, faults>>

(* Each informer that has not been started gets a goroutine.               *)
StartWithContext ==
  /\ main = "wired"
  /\ main' = "started"
  /\ started' = Registered
  /\ goroutine' = [t \in Types |-> IF t \in Registered \ started THEN "running" ELSE goroutine[t]]
  /\ UNCHANGED <<world, ctx, syncCtx, namespace, informers, awaited, cache, synced, faults>>

(* WaitForCacheSyncWithContext picks, under the factory's lock, the        *)
(* informers that are registered and started.                              *)
BeginSync ==
  /\ main = "started"
  /\ main' = "waiting"
  /\ syncCtx' = "live"
  /\ awaited' = Registered \intersect started
  /\ UNCHANGED <<world, ctx, factory, caches, faults>>

(* Mutant: the wait is not bounded.                                        *)
WaitForProcess == "ctx"

(* The contexts main passes to the wait and to the informers.              *)
WaitContext == "syncCtx"

(* Mutant: the informers get the bounded context.                          *)
InformerContextOfSync == "syncCtx"

InformerContext == "ctx"

(* cache.WaitFor returns.                                                  *)
Wake ==
  /\ main = "waiting"
  /\ awaited \subseteq synced \/ Done(WaitContext)
  /\ main' = "woken"
  /\ UNCHANGED <<world, ctx, syncCtx, factory, awaited, caches, faults>>

(* HasSynced is asked again; an informer may have made it since.  With an  *)
(* error, or a type that has not synced, main returns.                     *)
ReadSyncResult ==
  /\ main = "woken"
  /\ main' = IF awaited \subseteq synced THEN "run" ELSE "failed"
  /\ UNCHANGED <<world, ctx, syncCtx, factory, awaited, caches, faults>>

(* The process ends: the sync failed, the context was cancelled, or        *)
(* run-once has made its tick.                                             *)
Leave ==
  /\ main \in {"failed", "run"}
  /\ main' = "down"
  /\ syncCtx' = "none"
  /\ namespace' = NamespaceAll
  /\ informers' = NoInformers /\ started' = {} /\ awaited' = {}
  /\ goroutine' = [t \in Types |-> "none"]
  /\ cache' = EmptyCache
  /\ synced' = {}
  /\ UNCHANGED <<world, ctx, faults>>

Restart ==
  /\ main = "down"
  /\ main' = "new"
  /\ ctx' = "live"
  /\ UNCHANGED <<world, syncCtx, factory, awaited, caches, faults>>

-----------------------------------------------------------------------------
(* The informer of one type.                                               *)

(* What a list or a watch of a namespace covers.                           *)
Covers(scope, n) == scope \in {n, NamespaceAll}

Runs(t) == goroutine[t] = "running" /\ ~Done(InformerContext)

(* The list, or the list again after a broken watch.                       *)
ListAll(t) ==
  /\ Runs(t) /\ reachable
  /\ cache' = [cache EXCEPT ![t] = [n \in Namespaces |->
                 IF Covers(informers[t], n) THEN api[n] ELSE Unlisted]]
  /\ synced' = synced \union {t}
  /\ UNCHANGED <<world, main, ctx, syncCtx, factory, awaited, goroutine, faults>>

WatchEvent(t, n) ==
  /\ Runs(t) /\ reachable
  /\ t \in synced /\ Covers(informers[t], n)
  /\ cache[t][n] # api[n]
  /\ cache' = [cache EXCEPT ![t][n] = api[n]]
  /\ UNCHANGED <<world, main, ctx, syncCtx, factory, awaited, goroutine, synced, faults>>

InformerEnds(t) ==
  /\ goroutine[t] = "running" /\ Done(InformerContext)
  /\ goroutine' = [goroutine EXCEPT ![t] = "ended"]
  /\ UNCHANGED <<world, main, ctx, syncCtx, factory, awaited, cache, synced, faults>>

(* What store.List gets from the lister of its namespace.                  *)
Lister(t) == {r \in Revisions : r = cache[t][Namespace]}

Informer(t) == ListAll(t) \/ (\E n \in Namespaces : WatchEvent(t, n)) \/ InformerEnds(t)

-----------------------------------------------------------------------------
Main ==
  \/ NewFactory \/ MakeLister \/ TouchInformer
  \/ StartWithContext \/ BeginSync \/ Wake \/ ReadSyncResult

Next ==
  \/ \E n \in Namespaces : Edit(n)
  \/ Outage \/ Recovery \/ Cancel \/ Deadline
  \/ Main \/ Leave \/ Restart
  \/ \E t \in Types : Informer(t)

Spec == Init /\ [][Next]_vars

(* Goroutines are scheduled, the deadline comes, a broken watch is listed  *)
(* again.  Nothing makes the API come back.                                *)
Fairness ==
  /\ WF_vars(Main)
  /\ WF_vars(Deadline)
  /\ WF_vars(Leave /\ (main = "failed" \/ ctx = "cancelled"))
  /\ WF_vars(Restart)
  /\ \A t \in Types : WF_vars(Informer(t))

FairSpec == Spec /\ Fairness

-----------------------------------------------------------------------------
(* The tick loop never reads a cache that was not filled: it would take a  *)
(* cluster without Schedules for granted and skip a day's tasks without an *)
(* error.  A factory that had no informer registered when it was started   *)
(* would report a successful sync of nothing.                              *)
RunsOnFilledCache ==
  main = "run" => \A t \in Types : t \in synced /\ Lister(t) # {}

(* No Schedule of another namespace is even in the process's memory: the   *)
(* namespace gets from the option to the factory, to whoever takes the     *)
(* informer first, and into its lists and its watch.                       *)
OwnNamespaceOnly ==
  \A t \in Types, n \in Namespaces : cache[t][n] # Unlisted => n = Namespace

(* The informers outlive the 30 s of the sync: as long as the process runs *)
(* and the API answers, a change reaches the cache, however late it comes  *)
(* (main.go: a bounded context would "silently stop delivering updates").  *)
CacheFollowsApi ==
  \A t \in Types, r \in Revisions :
    <>[](main = "run" /\ ctx = "live" /\ reachable /\ api[Namespace] = r)
      => <>[](cache[t][Namespace] = r)

(* The sync does not wait for an API that never answers: it succeeds, or   *)
(* the process ends and may start afresh.                                  *)
SyncEnds == main = "waiting" ~> main \in {"run", "down"}
=============================================================================
