--------------------------- MODULE StartupProofs ---------------------------
(***************************************************************************)
(* Theorems of Startup, for any number of processes and builds, any CRD    *)
(* left behind, and with any number of failing calls and edits.            *)
(***************************************************************************)
EXTENDS Startup, TLAPS

USE BoundsAssumption

(* Every step of Startup is one of these.                                  *)
LEMMA StepCases ==
  ASSUME Next
  PROVE  \/ \E p \in Processes :
              \/ Start(p) \/ Get(p) \/ Create(p) \/ Read(p) \/ Update(p)
              \/ Sync(p) \/ SyncTimesOut(p) \/ Connect(p) \/ Finish(p) \/ CallFails(p)
         \/ Establish
         \/ \E spec \in Specs : Edit(spec)
         \/ Delete
BY DEF Next, Work, Setup

(* A stored write leaves a CRD with the spec that was written.             *)
LEMMA StoreLeavesSpec ==
  ASSUME NEW spec \in Specs, Store(spec), crd \in Crds \union {Absent}, rev \in Nat
  PROVE  /\ crd' \in Crds
         /\ crd'.spec = spec
         /\ rev' \in Nat
<1>1. CASE crd # Absent /\ crd.spec = spec
  BY <1>1 DEF Store, Crds
<1>2. CASE ~(crd # Absent /\ crd.spec = spec)
  <2>1. (crd # Absent /\ crd.established) \in BOOLEAN
    OBVIOUS
  <2>2. DEFINE served == crd # Absent /\ crd.established
  <2>3. rev' = rev + 1 /\ crd' = [spec |-> spec, rev |-> rev + 1, established |-> served]
    BY <1>2 DEF Store
  <2>4. served \in BOOLEAN
    BY <2>1
  <2>5. rev + 1 \in Nat
    OBVIOUS
  <2> HIDE DEF served
  <2>6. QED
    BY <2>3, <2>4, <2>5 DEF Crds
<1>3. QED
  BY <1>1, <1>2

(* What is stored is never the mark for nothing stored.                    *)
LEMMA CrdsAreNotAbsent ==
  ASSUME NEW c \in Crds
  PROVE  c # Absent
BY AbsentAssumption DEF Crds

(* Establishing a CRD leaves its spec alone.                               *)
LEMMA EstablishKeepsSpec ==
  ASSUME TypeOK, Establish
  PROVE  /\ crd' \in Crds
         /\ crd'.spec = crd.spec
         /\ rev' \in Nat
<1>1. crd \in Crds /\ rev + 1 \in Nat
  BY DEF TypeOK, Establish
<1>2. crd' = [crd EXCEPT !.rev = rev + 1, !.established = TRUE] /\ rev' = rev + 1
  BY DEF Establish
<1>3. QED
  BY <1>1, <1>2 DEF Crds

(* The type of the state is kept by every step.                            *)
LEMMA TypeStep ==
  ASSUME TypeOK, [Next]_vars
  PROVE  TypeOK'
<1>1. ASSUME NEW p \in Processes, Start(p) PROVE TypeOK'
  BY <1>1 DEF TypeOK, Start, Goto, Calling, PastSetup
<1>2. ASSUME NEW p \in Processes, Get(p) PROVE TypeOK'
  BY <1>2 DEF TypeOK, Get, Goto, Calling, PastSetup
<1>3. ASSUME NEW p \in Processes, Create(p) PROVE TypeOK'
  <2>1. Desired[p] \in Specs
    BY DesiredAssumption
  <2>2. crd' \in Crds \union {Absent} /\ rev' \in Nat
    BY <1>3, <2>1, StoreLeavesSpec DEF TypeOK, Create
  <2>3. QED
    BY <1>3, <2>2 DEF TypeOK, Create, Goto, Calling, PastSetup
<1>4. ASSUME NEW p \in Processes, Read(p) PROVE TypeOK'
  <2>1. CASE crd = Absent
    BY <1>4, <2>1 DEF TypeOK, Read, Fail, Goto, Calling, PastSetup
  <2>2. CASE crd # Absent
    BY <1>4, <2>2 DEF TypeOK, Read, Goto, Calling, PastSetup
  <2>3. QED
    BY <2>1, <2>2
<1>5. ASSUME NEW p \in Processes, Update(p) PROVE TypeOK'
  <2>1. Desired[p] \in Specs
    BY DesiredAssumption
  <2>2. crd' \in Crds \union {Absent} /\ rev' \in Nat
    BY <1>5, <2>1, StoreLeavesSpec DEF TypeOK, Update
  <2>3. QED
    BY <1>5, <2>2 DEF TypeOK, Update, Fail, Goto, Calling, PastSetup
<1>6. ASSUME NEW p \in Processes, Sync(p) PROVE TypeOK'
  BY <1>6 DEF TypeOK, Sync, Goto, Calling, PastSetup
<1>7. ASSUME NEW p \in Processes, SyncTimesOut(p) PROVE TypeOK'
  BY <1>7 DEF TypeOK, SyncTimesOut, Fail, Goto, Calling, PastSetup
<1>8. ASSUME NEW p \in Processes, Connect(p) PROVE TypeOK'
  BY <1>8 DEF TypeOK, Connect, Goto, Calling, PastSetup
<1>9. ASSUME NEW p \in Processes, Finish(p) PROVE TypeOK'
  BY <1>9 DEF TypeOK, Finish, Goto, Calling, PastSetup
<1>10. ASSUME NEW p \in Processes, CallFails(p) PROVE TypeOK'
  <2>1. Desired[p] \in Specs
    BY DesiredAssumption
  <2>2. crd' \in Crds \union {Absent} /\ rev' \in Nat
    BY <1>10, <2>1, StoreLeavesSpec DEF TypeOK, CallFails
  <2>3. faults' \in 0..MaxFaults
    BY <1>10 DEF TypeOK, CallFails, Fault
  <2>4. QED
    BY <1>10, <2>2, <2>3 DEF TypeOK, CallFails, Fail, Goto, Calling, PastSetup
<1>11. ASSUME Establish PROVE TypeOK'
  BY <1>11, EstablishKeepsSpec DEF TypeOK, Establish
<1>12. ASSUME NEW spec \in Specs, Edit(spec) PROVE TypeOK'
  <2>1. crd' \in Crds \union {Absent} /\ rev' \in Nat
    BY <1>12, StoreLeavesSpec DEF TypeOK, Edit
  <2>2. edits' \in 0..MaxEdits
    BY <1>12 DEF TypeOK, Edit
  <2>3. QED
    BY <1>12, <2>1, <2>2 DEF TypeOK, Edit
<1>13. ASSUME Delete PROVE TypeOK'
  BY <1>13 DEF TypeOK, Delete
<1>14. CASE UNCHANGED vars
  BY <1>14 DEF TypeOK, vars
<1>15. QED
  BY <1>1, <1>2, <1>3, <1>4, <1>5, <1>6, <1>7, <1>8, <1>9, <1>10, <1>11, <1>12,
     <1>13, <1>14, StepCases

(* Every state is well typed, and no process comes to Update without a CRD *)
(* it has read.                                                            *)
THEOREM Typed == Spec => []TypeOK
<1>1. ASSUME Init PROVE TypeOK
  <2>1. crd \in Crds \union {Absent}
    <3>1. ASSUME NEW spec \in Specs
          PROVE  [spec |-> spec, rev |-> 1, established |-> TRUE] \in Crds
      BY DEF Crds
    <3>2. QED
      BY <1>1, <3>1, InitialAssumption DEF Init
  <2>2. QED
    BY <1>1, <2>1 DEF Init, TypeOK
<1>2. TypeOK /\ [Next]_vars => TypeOK'
  BY TypeStep
<1>3. QED
  BY <1>1, <1>2, PTL DEF Spec

-----------------------------------------------------------------------------
(* Before it reads the CRD in updateCrd a process holds none.              *)
NothingHeld ==
  \A p \in Processes : pc[p] \in {"off", "get", "create", "read"} => seen[p] = Absent

(* Only Read takes hold of a CRD, and it moves on; a failure lets go.      *)
LEMMA NothingHeldStep ==
  ASSUME TypeOK, NothingHeld, [Next]_vars
  PROVE  NothingHeld'
<1>1. ASSUME NEW p \in Processes, Start(p) \/ Get(p) PROVE NothingHeld'
  BY <1>1 DEF TypeOK, NothingHeld, Start, Get, Goto
<1>2. ASSUME NEW p \in Processes, Create(p) PROVE NothingHeld'
  BY <1>2 DEF TypeOK, NothingHeld, Create, Goto
<1>3. ASSUME NEW p \in Processes, Read(p) PROVE NothingHeld'
  BY <1>3 DEF TypeOK, NothingHeld, Read, Fail, Goto
<1>4. ASSUME NEW p \in Processes, Update(p) PROVE NothingHeld'
  BY <1>4 DEF TypeOK, NothingHeld, Update, Fail, Goto
<1>5. ASSUME NEW p \in Processes, Sync(p) \/ Connect(p) \/ Finish(p) PROVE NothingHeld'
  BY <1>5 DEF TypeOK, NothingHeld, Sync, Connect, Finish, Goto
<1>6. ASSUME NEW p \in Processes, SyncTimesOut(p) \/ CallFails(p) PROVE NothingHeld'
  BY <1>6 DEF TypeOK, NothingHeld, SyncTimesOut, CallFails, Fail, Goto
<1>7. ASSUME \/ Establish \/ Delete \/ UNCHANGED vars
             \/ \E spec \in Specs : Edit(spec)
      PROVE  NothingHeld'
  BY <1>7 DEF NothingHeld, Establish, Delete, Edit, vars
<1>8. QED
  BY <1>1, <1>2, <1>3, <1>4, <1>5, <1>6, <1>7, StepCases

(* Whatever others do to the CRD meanwhile, a process overwrites only what *)
(* it has read.                                                            *)
THEOREM OverwritesAreSeen == Spec => NoBlindOverwrite
<1> DEFINE Overwrite == \A p \in Processes :
      pc[p] \in {"create", "update"} /\ pc'[p] # pc[p] /\ crd' # crd => crd = seen[p]
<1>1. Init => NothingHeld
  BY DEF Init, NothingHeld
<1>2. TypeOK /\ NothingHeld /\ [Next]_vars => NothingHeld'
  BY NothingHeldStep
<1>3. ASSUME TypeOK, NothingHeld, Next, ~UNCHANGED vars PROVE Overwrite
  <2> SUFFICES ASSUME NEW p \in Processes,
                      pc[p] \in {"create", "update"}, pc'[p] # pc[p], crd' # crd
               PROVE  crd = seen[p]
    OBVIOUS
  <2>1. PICK q \in Processes : Start(q) \/ Get(q) \/ Create(q) \/ Read(q) \/ Update(q)
              \/ Sync(q) \/ SyncTimesOut(q) \/ Connect(q) \/ Finish(q) \/ CallFails(q)
    BY <1>3, StepCases DEF Establish, Edit, Delete
  <2>2. q = p
    BY <1>3, <2>1 DEF TypeOK, Start, Get, Create, Read, Update, Sync, SyncTimesOut, Connect,
                Finish, CallFails, Fail, Goto
  <2>3. CASE Create(p)
    BY <1>3, <2>3 DEF Create, NothingHeld
  <2>4. CASE Update(p)
    BY <2>4 DEF Update
  <2>5. CASE CallFails(p)
    BY <1>3, <2>5 DEF CallFails, NothingHeld
  <2>6. QED
    BY <2>1, <2>2, <2>3, <2>4, <2>5 DEF Start, Get, Read, Sync, SyncTimesOut, Connect, Finish
<1>4. TypeOK /\ NothingHeld /\ [Next]_vars => [Overwrite]_vars
  BY <1>3
<1>5. QED
  BY <1>1, <1>2, <1>4, Typed, PTL DEF Spec, NoBlindOverwrite

-----------------------------------------------------------------------------
(* The CRD says what some build of the processes wants.                    *)
Installed == crd # Absent /\ \E q \in Processes : crd.spec = Desired[q]

(* Writing what one's build wants installs the CRD.                        *)
LEMMA StoreInstalls ==
  ASSUME NEW p \in Processes, TypeOK, Store(Desired[p])
  PROVE  Installed'
BY StoreLeavesSpec, CrdsAreNotAbsent, DesiredAssumption DEF TypeOK, Installed

(* Without edits, a step that leaves the CRD installed or brings a process *)
(* past the set-up writes what its build wants.                            *)
LEMMA StaleStep ==
  ASSUME TypeOK, StaleSchemaIsGone, [Next]_vars
  PROVE  StaleSchemaIsGone'
<1> SUFFICES ASSUME edits' = 0, NEW p \in Processes, pc'[p] \in PastSetup
             PROVE  Installed'
  BY DEF StaleSchemaIsGone, Installed
<1>1. ASSUME UNCHANGED <<crd, edits>>, \E q \in Processes : pc[q] \in PastSetup
      PROVE  Installed'
  BY <1>1 DEF StaleSchemaIsGone, Installed
<1>2. ASSUME NEW q \in Processes, Start(q) \/ Get(q) PROVE Installed'
  BY <1>1, <1>2 DEF TypeOK, Start, Get, Goto, PastSetup
<1>3. ASSUME NEW q \in Processes, Create(q) PROVE Installed'
  <2>1. CASE crd = Absent
    BY <1>3, <2>1, StoreInstalls DEF Create
  <2>2. CASE crd # Absent
    BY <1>1, <1>3, <2>2 DEF TypeOK, Create, Goto, PastSetup
  <2>3. QED
    BY <2>1, <2>2
<1>4. ASSUME NEW q \in Processes, Read(q) PROVE Installed'
  BY <1>1, <1>4 DEF TypeOK, Read, Fail, Goto, PastSetup
<1>5. ASSUME NEW q \in Processes, Update(q) PROVE Installed'
  <2>1. CASE crd = seen[q]
    BY <1>5, <2>1, StoreInstalls DEF Update
  <2>2. CASE crd # seen[q]
    BY <1>1, <1>5, <2>2 DEF TypeOK, Update, Fail, Goto, PastSetup
  <2>3. QED
    BY <2>1, <2>2
<1>6. ASSUME NEW q \in Processes,
             Sync(q) \/ SyncTimesOut(q) \/ Connect(q) \/ Finish(q)
      PROVE  Installed'
  BY <1>1, <1>6 DEF TypeOK, Sync, SyncTimesOut, Connect, Finish, Fail, Goto, PastSetup
<1>7. ASSUME NEW q \in Processes, CallFails(q) PROVE Installed'
  <2>1. CASE UNCHANGED crd
    BY <1>1, <1>7, <2>1 DEF TypeOK, CallFails, Fail, Goto, PastSetup
  <2>2. CASE Store(Desired[q])
    BY <2>2, StoreInstalls
  <2>3. QED
    BY <1>7, <2>1, <2>2 DEF CallFails
<1>8. ASSUME Establish PROVE Installed'
  <2>1. Installed
    BY <1>8 DEF Establish, StaleSchemaIsGone, Installed
  <2>2. QED
    BY <1>8, <2>1, EstablishKeepsSpec, CrdsAreNotAbsent DEF Installed
<1>9. ASSUME Delete \/ \E spec \in Specs : Edit(spec) PROVE Installed'
  BY <1>9 DEF TypeOK, Delete, Edit
<1>10. CASE UNCHANGED vars
  BY <1>1, <1>10 DEF vars
<1>11. QED
  BY <1>2, <1>3, <1>4, <1>5, <1>6, <1>7, <1>8, <1>9, <1>10, StepCases

(* However many processes race, fail and start again: once one of them is  *)
(* past the set-up, what an earlier build left behind is gone for good.    *)
THEOREM StaleSchemaGoes == Spec => []StaleSchemaIsGone
<1>1. Init => StaleSchemaIsGone
  BY DEF Init, StaleSchemaIsGone, PastSetup
<1>2. TypeOK /\ StaleSchemaIsGone /\ [Next]_vars => StaleSchemaIsGone'
  BY StaleStep
<1>3. QED
  BY <1>1, <1>2, Typed, PTL DEF Spec
=============================================================================
