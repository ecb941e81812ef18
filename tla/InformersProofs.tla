-------------------------- MODULE InformersProofs --------------------------
(***************************************************************************)
(* For any types, namespaces and bounds: the variables of Informers keep   *)
(* their types, the tick loop only runs on filled caches, and no cache     *)
(* holds another namespace.                                                *)
(***************************************************************************)
EXTENDS Informers, TLAPS

USE DEF Revisions, Unlisted, Registered, world, factory, caches

(* A namespace that was never listed is told from every revision.          *)
LEMMA UnlistedIsNoRevision == Unlisted \notin Revisions
  BY BoundsAssumption

LEMMA InitTyped == Init => TypeOK
  BY BoundsAssumption DEF Init, TypeOK, EmptyCache, NoInformers, Scopes

(* The cache a list leaves is one of revisions and holes.                  *)
LEMMA ListIsTyped ==
  ASSUME TypeOK, NEW t \in Types
  PROVE  [n \in Namespaces |-> IF Covers(informers[t], n) THEN api[n] ELSE Unlisted]
           \in [Namespaces -> Revisions \union {Unlisted}]
  BY DEF TypeOK

LEMMA StepTyped ==
  ASSUME TypeOK, [Next]_vars
  PROVE  TypeOK'
<1> USE BoundsAssumption
<1>1. ASSUME NEW n \in Namespaces, Edit(n) PROVE TypeOK'
  <2>1. api' \in [Namespaces -> Revisions]
    <3>1. api[n] + 1 \in Revisions
      BY <1>1 DEF Edit, TypeOK
    <3> QED BY <3>1, <1>1 DEF Edit, TypeOK
  <2> QED BY <2>1, <1>1 DEF Edit, TypeOK
<1>2. CASE Outage
  <2>1. faults' \in 0..MaxFaults
    BY <1>2 DEF Outage, Fault, TypeOK
  <2>2. reachable' \in BOOLEAN
    BY <1>2 DEF Outage
  <2> QED BY <2>1, <2>2, <1>2, Zenon DEF Outage, TypeOK
<1>3. CASE Recovery
  BY <1>3 DEF Recovery, TypeOK
<1>4. CASE Cancel
  BY <1>4 DEF Cancel, Fault, TypeOK
<1>5. CASE Deadline
  BY <1>5 DEF Deadline, TypeOK
<1>6. CASE NewFactory
  BY <1>6, NamespaceAssumption DEF NewFactory, TypeOK, Scopes
<1>17. CASE MakeLister \/ TouchInformer
  <2>1. informers' = [t \in Types |-> InformerFor(t)]
    BY <1>17 DEF MakeLister, TouchInformer
  <2>2. informers' \in [Types -> Scopes \union {NoInformer}]
    BY <2>1 DEF InformerFor, TypeOK
  <2>3. Registered \subseteq Registered'
    BY <2>1, ScopeAssumption DEF InformerFor, TypeOK
  <2> QED
    BY <1>17, <2>2, <2>3 DEF MakeLister, TouchInformer, TypeOK
<1>7. CASE StartWithContext
  BY <1>7 DEF StartWithContext, TypeOK
<1>8. CASE BeginSync
  BY <1>8 DEF BeginSync, TypeOK
<1>9. CASE Wake
  BY <1>9 DEF Wake, TypeOK
<1>10. CASE ReadSyncResult
  BY <1>10 DEF ReadSyncResult, TypeOK
<1>11. CASE Leave
  BY <1>11 DEF Leave, EmptyCache, NoInformers, Scopes, TypeOK
<1>12. CASE Restart
  BY <1>12 DEF Restart, TypeOK
<1>13. ASSUME NEW t \in Types, ListAll(t) PROVE TypeOK'
  <2>1. cache' \in [Types -> [Namespaces -> Revisions \union {Unlisted}]]
    BY <1>13, ListIsTyped DEF ListAll, TypeOK
  <2>2. t \in started
    BY <1>13 DEF ListAll, Runs, TypeOK
  <2> QED BY <2>1, <2>2, <1>13 DEF ListAll, TypeOK
<1>14. ASSUME NEW t \in Types, NEW n \in Namespaces, WatchEvent(t, n) PROVE TypeOK'
  <2>1. [cache[t] EXCEPT ![n] = api[n]] \in [Namespaces -> Revisions \union {Unlisted}]
    BY DEF TypeOK
  <2>2. cache' = [cache EXCEPT ![t] = [cache[t] EXCEPT ![n] = api[n]]]
    BY <1>14 DEF WatchEvent
  <2>3. cache' \in [Types -> [Namespaces -> Revisions \union {Unlisted}]]
    BY <2>1, <2>2 DEF TypeOK
  <2> QED BY <2>3, <1>14 DEF WatchEvent, TypeOK
<1>15. ASSUME NEW t \in Types, InformerEnds(t) PROVE TypeOK'
  BY <1>15 DEF InformerEnds, TypeOK
<1>16. CASE UNCHANGED vars
  BY <1>16 DEF vars, TypeOK
<1> QED
  BY <1>1, <1>2, <1>3, <1>4, <1>5, <1>6, <1>7, <1>8, <1>9, <1>10, <1>11, <1>12, <1>13,
     <1>14, <1>15, <1>16, <1>17 DEF Next, Main, Informer

(* Every variable of the wiring keeps its type; in particular a goroutine  *)
(* runs or ran for exactly the informers marked as started.                *)
THEOREM Typed == Spec => []TypeOK
<1>1. Init => TypeOK
  BY InitTyped
<1>2. TypeOK /\ [Next]_vars => TypeOK'
  BY StepTyped
<1> QED BY <1>1, <1>2, PTL DEF Spec

-----------------------------------------------------------------------------
(* Why the tick loop finds its caches filled: from the wiring on every     *)
(* type is registered, from the start on it is started, from the wait on   *)
(* it is awaited, and a type counts as synced only with a list in its      *)
(* cache, of the namespace that came down from the option.                 *)
Made    == main \notin {"new", "down"} => namespace = Namespace
Scoped  == \A t \in Registered : informers[t] = Namespace
Wired   == main \in {"wired", "started", "waiting", "woken", "run"} => Registered = Types
Started == main \in {"started", "waiting", "woken", "run"} => started = Types
Awaited == main \in {"waiting", "woken", "run"} => awaited = Types
Synced  == main = "run" => awaited \subseteq synced
Filled  == \A t \in synced : cache[t][Namespace] # Unlisted

FillInv == Made /\ Scoped /\ Wired /\ Started /\ Awaited /\ Synced /\ Filled

(* A list of the watched namespace, and every event after it, puts a       *)
(* revision into the cache.                                                *)
LEMMA ApiIsListed ==
  ASSUME TypeOK, NEW n \in Namespaces
  PROVE  api[n] # Unlisted
  BY BoundsAssumption DEF TypeOK

(* An informer that runs covers the namespace of the process and no other. *)
LEMMA RunningCoversOwn ==
  ASSUME TypeOK, Scoped, NEW t \in Types, Runs(t), NEW n \in Namespaces
  PROVE  Covers(informers[t], n) <=> n = Namespace
<1>1. t \in Registered
  BY DEF Runs, TypeOK
<1>2. informers[t] = Namespace
  BY <1>1 DEF Scoped
<1> QED BY <1>2, NamespaceAssumption, ScopeAssumption DEF Covers

LEMMA StepFills ==
  ASSUME TypeOK, FillInv, [Next]_vars
  PROVE  FillInv'
<1> USE DEF FillInv
<1>1. ASSUME NEW t \in Types, ListAll(t) PROVE FillInv'
  <2>1. cache'[t][Namespace] # Unlisted
    <3>1. cache'[t] = [n \in Namespaces |-> IF Covers(informers[t], n) THEN api[n] ELSE Unlisted]
      BY <1>1 DEF ListAll, TypeOK
    <3>2. cache'[t][Namespace] = api[Namespace]
      <4>1. Covers(informers[t], Namespace)
        BY <1>1, NamespaceAssumption, RunningCoversOwn DEF ListAll
      <4> QED BY <3>1, <4>1, NamespaceAssumption
    <3> QED BY <3>2, NamespaceAssumption, ApiIsListed
  <2>2. \A s \in Types \ {t} : cache'[s] = cache[s]
    BY <1>1 DEF ListAll, TypeOK
  <2>3. Filled'
    BY <2>1, <2>2, <1>1 DEF ListAll, Filled, TypeOK
  <2> QED BY <2>3, <1>1 DEF ListAll, Made, Scoped, Wired, Started, Awaited, Synced
<1>2. ASSUME NEW t \in Types, NEW n \in Namespaces, WatchEvent(t, n) PROVE FillInv'
  <2>1. cache' = [cache EXCEPT ![t] = [cache[t] EXCEPT ![n] = api[n]]]
    BY <1>2 DEF WatchEvent
  <2>2. ASSUME NEW s \in synced PROVE cache'[s][Namespace] # Unlisted
    <3>1. CASE s = t /\ n = Namespace
      BY <3>1, <2>1, ApiIsListed DEF TypeOK
    <3>2. CASE ~(s = t /\ n = Namespace)
      <4>1. cache'[s][Namespace] = cache[s][Namespace]
        BY <3>2, <2>1, NamespaceAssumption DEF TypeOK
      <4> QED BY <4>1, <2>2 DEF Filled
    <3> QED BY <3>1, <3>2
  <2> QED BY <2>2, <1>2 DEF WatchEvent, Made, Scoped, Wired, Started, Awaited, Synced, Filled
<1>3. ASSUME NEW t \in Types, InformerEnds(t) PROVE FillInv'
  BY <1>3 DEF InformerEnds, Made, Scoped, Wired, Started, Awaited, Synced, Filled
<1>4. CASE NewFactory
  BY <1>4 DEF NewFactory, Made, Scoped, Wired, Started, Awaited, Synced, Filled
<1>14. CASE MakeLister \/ TouchInformer
  <2>1. informers' = [t \in Types |-> InformerFor(t)] /\ UNCHANGED namespace
    BY <1>14 DEF MakeLister, TouchInformer
  <2>2. namespace = Namespace
    BY <1>14 DEF MakeLister, TouchInformer, Made
  <2>3. \A t \in Types : informers'[t] = Namespace
    BY <2>1, <2>2 DEF InformerFor, Scoped
  <2>4. Scoped' /\ Registered' = Types
    BY <2>3, NamespaceAssumption, ScopeAssumption DEF Scoped
  <2>5. main \in {"made", "listing"} /\ main' \in {"listing", "wired"}
    BY <1>14 DEF MakeLister, TouchInformer
  <2>6. UNCHANGED <<namespace, started, awaited, synced, cache>>
    BY <1>14 DEF MakeLister, TouchInformer
  <2> QED BY <2>4, <2>5, <2>6 DEF Made, Wired, Started, Awaited, Synced, Filled
<1>5. CASE StartWithContext
  BY <1>5 DEF StartWithContext, Made, Scoped, Wired, Started, Awaited, Synced, Filled
<1>6. CASE BeginSync
  BY <1>6 DEF BeginSync, Made, Scoped, Wired, Started, Awaited, Synced, Filled
<1>7. CASE Wake
  BY <1>7 DEF Wake, Made, Scoped, Wired, Started, Awaited, Synced, Filled
<1>8. CASE ReadSyncResult
  BY <1>8 DEF ReadSyncResult, Made, Scoped, Wired, Started, Awaited, Synced, Filled
<1>9. CASE Leave
  BY <1>9 DEF Leave, NoInformers, Made, Scoped, Wired, Started, Awaited, Synced, Filled
<1>10. CASE Restart
  BY <1>10 DEF Restart, Made, Scoped, Wired, Started, Awaited, Synced, Filled
<1>11. ASSUME NEW n \in Namespaces, Edit(n) PROVE FillInv'
  BY <1>11 DEF Edit, Made, Scoped, Wired, Started, Awaited, Synced, Filled
<1>12. CASE Outage \/ Recovery \/ Cancel \/ Deadline
  BY <1>12 DEF Outage, Recovery, Cancel, Deadline, Made, Scoped, Wired, Started, Awaited, Synced, Filled
<1>13. CASE UNCHANGED vars
  BY <1>13 DEF vars, Made, Scoped, Wired, Started, Awaited, Synced, Filled
<1> QED
  BY <1>1, <1>2, <1>3, <1>4, <1>5, <1>6, <1>7, <1>8, <1>9, <1>10, <1>11, <1>12, <1>13,
     <1>14
  DEF Next, Main, Informer

(* Wiring, start, wait and lists keep their order, and the namespace its   *)
(* way, in every reachable state.                                          *)
LEMMA FillInvHolds == Spec => []FillInv
<1>1. Init => FillInv
  BY DEF Init, NoInformers, FillInv, Made, Scoped, Wired, Started, Awaited, Synced, Filled
<1>2. TypeOK /\ FillInv /\ [Next]_vars => FillInv'
  BY StepFills
<1> QED BY <1>1, <1>2, Typed, PTL DEF Spec

(* However the deadline, outages, stops and restarts fall: when the tick   *)
(* loop runs, every cache has been listed, and the lister finds its        *)
(* namespace in it.                                                        *)
THEOREM CachesAreFilled == Spec => []RunsOnFilledCache
<1>1. TypeOK /\ FillInv => RunsOnFilledCache
  <2> SUFFICES ASSUME TypeOK, FillInv, main = "run", NEW t \in Types
               PROVE  t \in synced /\ Lister(t) # {}
    BY DEF RunsOnFilledCache
  <2>1. t \in synced
    BY DEF FillInv, Awaited, Synced
  <2>2. cache[t][Namespace] # Unlisted
    BY <2>1 DEF FillInv, Filled
  <2>3. cache[t][Namespace] \in Revisions
    BY <2>2, NamespaceAssumption DEF TypeOK
  <2> QED BY <2>1, <2>3 DEF Lister
<1> QED BY <1>1, FillInvHolds, Typed, PTL

-----------------------------------------------------------------------------
LEMMA StepStaysInNamespace ==
  ASSUME TypeOK, FillInv, OwnNamespaceOnly, [Next]_vars
  PROVE  OwnNamespaceOnly'
<1>1. ASSUME NEW t \in Types, ListAll(t) PROVE OwnNamespaceOnly'
  <2> SUFFICES ASSUME NEW s \in Types, NEW n \in Namespaces, n # Namespace
               PROVE  cache'[s][n] = Unlisted
    BY DEF OwnNamespaceOnly
  <2>1. CASE s = t
    <3>1. cache'[t] = [m \in Namespaces |-> IF Covers(informers[t], m) THEN api[m] ELSE Unlisted]
      BY <1>1 DEF ListAll, TypeOK
    <3>2. ~Covers(informers[t], n)
      BY <1>1, RunningCoversOwn DEF ListAll, FillInv
    <3> QED BY <2>1, <3>1, <3>2
  <2>2. CASE s # t
    BY <2>2, <1>1 DEF ListAll, OwnNamespaceOnly, TypeOK
  <2> QED BY <2>1, <2>2
<1>2. ASSUME NEW t \in Types, NEW n \in Namespaces, WatchEvent(t, n) PROVE OwnNamespaceOnly'
  <2>1. n = Namespace
    BY <1>2, RunningCoversOwn DEF WatchEvent, FillInv
  <2>2. cache' = [cache EXCEPT ![t] = [cache[t] EXCEPT ![n] = api[n]]]
    BY <1>2 DEF WatchEvent
  <2>3. \A s \in Types, m \in Namespaces \ {n} : cache'[s][m] = cache[s][m]
    BY <2>2 DEF TypeOK
  <2> QED BY <2>1, <2>3 DEF OwnNamespaceOnly
<1>3. CASE Leave
  BY <1>3 DEF Leave, EmptyCache, OwnNamespaceOnly
<1>4. CASE UNCHANGED cache
  BY <1>4 DEF OwnNamespaceOnly
<1>5. \/ \E t \in Types : ListAll(t) \/ \E n \in Namespaces : WatchEvent(t, n)
      \/ Leave
      \/ UNCHANGED cache
  BY DEF Next, Main, Informer, Edit, Outage, Recovery, Cancel, Deadline, NewFactory,
         MakeLister, TouchInformer, StartWithContext, BeginSync, Wake, ReadSyncResult, Restart,
         InformerEnds, vars
<1> QED BY <1>1, <1>2, <1>3, <1>4, <1>5

(* A process never has a Schedule of a namespace other than its own in     *)
(* memory, whatever happens in the other namespaces: the namespace of the  *)
(* option reaches the factory before anyone takes an informer, every       *)
(* informer is made with it, and lists and watches only that.              *)
THEOREM NamespaceIsOwn == Spec => []OwnNamespaceOnly
<1>1. Init => OwnNamespaceOnly
  BY DEF Init, EmptyCache, OwnNamespaceOnly
<1>2. TypeOK /\ FillInv /\ OwnNamespaceOnly /\ [Next]_vars => OwnNamespaceOnly'
  BY StepStaysInNamespace
<1> QED BY <1>1, <1>2, Typed, FillInvHolds, PTL DEF Spec
=============================================================================
