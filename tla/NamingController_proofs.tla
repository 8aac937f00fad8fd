----------------------- MODULE NamingController_proofs -----------------------
(***************************************************************************)
(* Theorems about NamingController, for every number of CRDs and names and *)
(* every bound.  First its types.  Then what the optimistic concurrency of *)
(* the status updates guarantees for every number of servers and every     *)
(* fault: InformerInv, and from it the action properties of status updates *)
(* and what the handler finds in a served CRD.  Last, with one worker      *)
(* whose status updates are answered: names are unique in a group, and     *)
(* NamingController implements NameReservation.                            *)
(***************************************************************************)
EXTENDS NamingController, CRDWriters_proofs

-----------------------------------------------------------------------------
(* The objects that the actions build are CRDs.                            *)

\* The names accepted for a CRD and those of its spec combine to names, field
\* by field the old or the requested ones.
LEMMA AcceptableNamesType ==
  ASSUME NEW s \in Servers, NEW in \in CRD
  PROVE  /\ AcceptableNames(s, in) \in NameSet
         /\ \A f \in NameFields :
              AcceptableNames(s, in)[f] = IF Conflicts(s, in, f) = {}
                                          THEN in.names[f] ELSE in.accepted[f]
  BY DEF AcceptableNames, CRD, NameSet

\* Every field is checked, in some order.
LEMMA CheckOrderType == \A i \in 1..5 : CheckOrder[i] \in NameFields
  BY DEF CheckOrder, NameFields, ResourceFields, KindFields

\* The condition that a sync reports is a condition.
LEMMA NamesAcceptedConditionType ==
  ASSUME NEW s \in Servers, NEW in \in CRD
  PROVE  NamesAcceptedCondition(s, in) \in Conditions
<1> DEFINE failed == {i \in 1..5 : Conflicts(s, in, CheckOrder[i]) # {}}
           last   == CHOOSE i \in failed : \A j \in failed : j <= i
<1>1. CASE failed = {}
  <2>1. Condition("True", "NoConflicts") \in Conditions
    BY ConditionType DEF Reasons
  <2>2. QED
    BY <1>1, <2>1 DEF NamesAcceptedCondition
<1>2. CASE failed # {}
  <2>1. \E i \in failed : \A j \in failed : j <= i
    <3>1. \A j \in failed : j \in 1..5
      OBVIOUS
    <3> HIDE DEF failed
    <3>2. CASE 5 \in failed
      BY <3>1, <3>2
    <3>3. CASE 5 \notin failed /\ 4 \in failed
      BY <3>1, <3>3
    <3>4. CASE 5 \notin failed /\ 4 \notin failed /\ 3 \in failed
      BY <3>1, <3>4
    <3>5. CASE 5 \notin failed /\ 4 \notin failed /\ 3 \notin failed /\ 2 \in failed
      BY <3>1, <3>5
    <3>6. CASE 5 \notin failed /\ 4 \notin failed /\ 3 \notin failed /\ 2 \notin failed
      BY <1>2, <3>1, <3>6
    <3>7. QED
      BY <3>2, <3>3, <3>4, <3>5, <3>6
  <2>2. last \in 1..5
    BY <2>1
  <2>3. CheckOrder[last] \in NameFields
    BY <2>2, CheckOrderType
  <2>4. Conflicts(s, in, CheckOrder[last]) \in SUBSET Names
    BY <2>3 DEF Conflicts, CRD, NameSet
  <2>5. [status |-> "False", reason |-> CheckOrder[last],
         names |-> Conflicts(s, in, CheckOrder[last])] \in Conditions
    BY <2>3, <2>4 DEF Conditions, Reasons
  <2>6. QED
    BY <1>2, <2>5 DEF NamesAcceptedCondition
<1>3. QED
  BY <1>1, <1>2

\* What sync sends to the store is a CRD, with the name, uid, version and
\* spec of the object it was computed from.
LEMMA WithStatusType ==
  ASSUME NEW s \in Servers, NEW in \in CRD
  PROVE  /\ WithStatus(s, in) \in CRD
         /\ WithStatus(s, in).name = in.name
         /\ WithStatus(s, in).rv = in.rv
         /\ WithStatus(s, in).names = in.names
         /\ WithStatus(s, in).accepted = AcceptableNames(s, in)
         /\ FindCRDCondition(WithStatus(s, in), "Established")
              = EstablishedCondition(in, NamesAcceptedCondition(s, in))
         /\ FindCRDCondition(WithStatus(s, in), "NamesAccepted")
              = NamesAcceptedCondition(s, in)
<1> DEFINE c == NamesAcceptedCondition(s, in)
           e == EstablishedCondition(in, c)
           a == [in EXCEPT !.accepted = AcceptableNames(s, in)]
           b == SetCRDCondition(a, "NamesAccepted", c)
<1>1. c \in Conditions /\ e \in Conditions
  BY NamesAcceptedConditionType, EstablishedConditionType
<1>2. a \in CRD
  BY AcceptableNamesType DEF CRD
<1>3. b \in CRD
  BY <1>1, <1>2, SetConditionType DEF ConditionTypes
<1>4. SetCRDCondition(b, "Established", e) \in CRD
  BY <1>1, <1>3, SetConditionType DEF ConditionTypes
<1>5. WithStatus(s, in) = SetCRDCondition(b, "Established", e)
  BY DEF WithStatus
<1>6. QED
  BY <1>1, <1>2, <1>3, <1>4, <1>5 DEF SetCRDCondition, CRD, FindCRDCondition, ConditionTypes

-----------------------------------------------------------------------------
(* Type correctness.                                                       *)

\* The other controllers write one object, or nothing.
LEMMA OtherControllersStore ==
  ASSUME StorageTypeOK, OtherControllers
  PROVE  NothingStored \/ \E k \in CRDs, obj \in CRD \cup {NoCRD} :
                            Stores(k, obj) /\ Keeps(k, obj)
  BY WritersStore DEF OtherControllers

\* The first theorem: whatever the servers, CRDs, names and faults, every
\* variable keeps its type, and every object lies under its own name.
THEOREM TypeCorrect == Spec => []TypeOK
<1>1. Init => TypeOK
  BY StorageAssumption, NamingAssumption DEF Init, StorageInit, TypeOK, StorageTypeOK, IsNamed
<1>2. TypeOK /\ [Next]_vars => TypeOK'
  <2> SUFFICES ASSUME TypeOK, [Next]_vars PROVE TypeOK'
    OBVIOUS
  <2> USE DEF TypeOK
  <2>1. CASE UserNext /\ UNCHANGED <<controllerVars, faults>>
    BY <2>1, UserNextType DEF controllerVars
  <2>2. CASE OtherControllers
    <3>1. NothingStored => StorageTypeOK'
      BY <2>2 DEF OtherControllers, NothingStored, StorageTypeOK, IsNamed
    <3>2. (\E k \in CRDs, obj \in CRD \cup {NoCRD} : Stores(k, obj)) => StorageTypeOK'
      <4>1. UNCHANGED cache /\ userWrites' \in 0..MaxUserWrites
        BY <2>2 DEF OtherControllers, StorageTypeOK
      <4>2. QED
        BY <4>1, StoresType
    <3>3. StorageTypeOK'
      BY <2>2, <3>1, <3>2, OtherControllersStore
    <3>4. QED
      BY <2>2, <3>3 DEF OtherControllers, controllerVars
  <2>3. ASSUME NEW s \in Servers, NEW k \in CRDs, Sync(s, k) PROVE TypeOK'
    <3>1. StorageTypeOK'
      BY <2>3 DEF Sync, SyncDeleted, SyncUpToDate, SyncUpdate, storageVars,
         StorageTypeOK, IsNamed
    <3>2. worker' \in [Servers -> CRD \cup {NoCRD}]
      <4>1. CASE SyncUpdate(s, k)
        <5>1. cache[s][k] \in CRD
          BY <4>1 DEF SyncUpdate, StorageTypeOK
        <5>2. QED
          BY <4>1, <5>1, WithStatusType DEF SyncUpdate
      <4>2. QED
        BY <2>3, <4>1 DEF Sync, SyncDeleted, SyncUpToDate
    <3>3. QED
      BY <2>3, <3>1, <3>2 DEF Sync, SyncDeleted, SyncUpToDate, SyncUpdate,
         CachedPeers, Peers
  <2>4. ASSUME NEW s \in Servers, Answer(s) PROVE TypeOK'
    <3>1. worker[s] \in CRD /\ worker[s].name \in CRDs /\ UNCHANGED <<cache, userWrites>>
      BY <2>4 DEF Answer, UpdateAccepted, UpdateRefused, UpdateFailed, ResponseLost,
         Answered, CRD
    <3>2. CASE UpdateAccepted(s)
      <4>1. StorageTypeOK'
        BY <3>1, <3>2, UpdateStatusType DEF UpdateAccepted, Current
      <4>2. store'[worker[s].name] \in CRD \cup {NoCRD}
        BY <3>1, <4>1 DEF StorageTypeOK
      <4>3. QED
        BY <3>1, <3>2, <4>1, <4>2 DEF UpdateAccepted, Answered, CachedPeers, Peers
    <3>3. CASE UpdateRefused(s)
      BY <3>1, <3>3 DEF UpdateRefused, Answered, StorageTypeOK, IsNamed
    <3>4. CASE UpdateFailed(s)
      BY <3>1, <3>4, NamingAssumption DEF UpdateFailed, Answered, Fault,
         StorageTypeOK, IsNamed
    <3>5. CASE ResponseLost(s)
      <4>1. StorageTypeOK'
        BY <3>1, <3>5, UpdateStatusType DEF ResponseLost, Current
      <4>2. QED
        BY <3>1, <3>5, <4>1, NamingAssumption DEF ResponseLost, Answered, Fault
    <3>6. QED
      BY <2>4, <3>2, <3>3, <3>4, <3>5 DEF Answer
  <2>5. ASSUME NEW s \in Servers, Deliver(s) PROVE TypeOK'
    <3>1. StorageTypeOK'
      BY <2>5, InformerType DEF Deliver
    <3>2. \A e \in watch[s] : e.name \in CRDs
      BY DEF StorageTypeOK, Event
    <3>3. QED
      BY <2>5, <3>1, <3>2 DEF Deliver
  <2>6. ASSUME NEW s \in Servers, Relist(s) \/ Restart(s) PROVE TypeOK'
    <3>1. StorageTypeOK'
      BY <2>6, InformerType DEF Relist, Restart
    <3>2. faults' \in 0..MaxFaults
      BY <2>6, NamingAssumption DEF Relist, Restart, Fault
    <3>3. CASE Relist(s)
      BY <3>1, <3>2, <3>3 DEF Relist, Changed
    <3>4. CASE Restart(s)
      BY <3>1, <3>2, <3>4 DEF Restart, Live
    <3>5. QED
      BY <2>6, <3>3, <3>4
  <2>7. ASSUME NEW s \in Servers, Resync(s) PROVE TypeOK'
    BY <2>7 DEF Resync, storageVars, StorageTypeOK, IsNamed
  <2>8. CASE UNCHANGED vars
    BY <2>8 DEF vars, storageVars, controllerVars, StorageTypeOK, IsNamed
  <2>9. QED
    BY <2>1, <2>2, <2>3, <2>4, <2>5, <2>6, <2>7, <2>8 DEF Next
<1>3. QED
  BY <1>1, <1>2, PTL DEF Spec

-----------------------------------------------------------------------------
(* The steps of the system, by what they do to the storage.                *)

\* Users and other controllers write one object, and nothing of this
\* controller changes.
LEMMA OthersWrite ==
  ASSUME TypeOK, (UserNext /\ UNCHANGED <<controllerVars, faults>>) \/ OtherControllers
  PROVE  /\ UNCHANGED <<cache, mutationCache, worker>>
         /\ \/ NothingStored
            \/ \E k \in CRDs, obj \in CRD \cup {NoCRD} : Stores(k, obj) /\ Keeps(k, obj)
<1>1. StorageTypeOK
  BY DEF TypeOK
<1>2. CASE UserNext /\ UNCHANGED <<controllerVars, faults>>
  <2>1. UNCHANGED <<cache, mutationCache, worker>>
    BY <1>2 DEF UserNext, CreateCRD, UpdateSpec, DeleteCRD, UserWrite, controllerVars
  <2>2. QED
    BY <1>1, <1>2, <2>1, UserNextStores
<1>3. CASE OtherControllers
  <2>1. UNCHANGED <<cache, mutationCache, worker>>
    BY <1>3 DEF OtherControllers, controllerVars
  <2>2. QED
    BY <1>1, <1>3, <2>1, OtherControllersStore
<1>4. QED
  BY <1>2, <1>3

\* The store commits the update of a worker: the object stored has the
\* accepted names and conditions of the update.
LEMMA WorkerWrites ==
  ASSUME TypeOK, NEW s \in Servers, UpdateAccepted(s) \/ ResponseLost(s)
  PROVE  LET k == worker[s].name
         IN  /\ worker[s] \in CRD /\ worker[s] # NoCRD /\ k \in CRDs
             /\ Current(worker[s])
             /\ UNCHANGED cache
             /\ worker' = [worker EXCEPT ![s] = NoCRD]
             /\ \/ UNCHANGED mutationCache
                \/ mutationCache' = [mutationCache EXCEPT ![s][k] = store'[k]]
             /\ \/ NothingStored
                \/ Stores(k, NoCRD)
                \/ \E new \in CRD : /\ Stores(k, new)
                                    /\ new.names = store[k].names
                                    /\ new.accepted = worker[s].accepted
                                    /\ new.conditions = worker[s].conditions
<1>1. /\ worker[s] \in CRD /\ worker[s] # NoCRD /\ Current(worker[s])
      /\ UpdateStatus(worker[s])
      /\ UNCHANGED cache
      /\ worker' = [worker EXCEPT ![s] = NoCRD]
  BY DEF TypeOK, UpdateAccepted, ResponseLost, Answered
<1>2. worker[s].name \in CRDs
  BY <1>1 DEF CRD
<1>3. \/ UNCHANGED mutationCache
      \/ mutationCache' = [mutationCache EXCEPT ![s][worker[s].name] = store'[worker[s].name]]
  BY DEF UpdateAccepted, ResponseLost
<1>4. store[worker[s].name] # NoCRD
  BY <1>1 DEF Current
<1>5. \/ NothingStored
      \/ Stores(worker[s].name, NoCRD)
      \/ \E new \in CRD : /\ Stores(worker[s].name, new)
                          /\ new.names = store[worker[s].name].names
                          /\ new.accepted = worker[s].accepted
                          /\ new.conditions = worker[s].conditions
  BY <1>1, <1>4, UpdateStatusStores DEF TypeOK
<1>6. QED
  BY <1>1, <1>2, <1>3, <1>5

-----------------------------------------------------------------------------
(* The mutation cache and the updates in flight.                           *)

\* A write by anyone, the workers themselves included, makes every update in
\* flight for the written object obsolete.
LEMMA StoresWorkerInv ==
  ASSUME TypeOK, VersionInv, MutationInv, WorkerInv,
         NEW k \in CRDs, NEW obj, Stores(k, obj), UNCHANGED cache,
         \A s \in Servers : worker'[s] \in {worker[s], NoCRD},
         \A s \in Servers, j \in CRDs :
           mutationCache'[s][j] = mutationCache[s][j] \/ (j = k /\ mutationCache'[s][j] = obj)
  PROVE  MutationInv' /\ WorkerInv'
<1>1. /\ rv \in Nat /\ rv' = rv + 1
      /\ store'[k] = obj /\ (obj # NoCRD => obj.rv = rv + 1)
      /\ \A j \in CRDs \ {k} : store'[j] = store[j]
  BY StoresStore DEF TypeOK, StorageTypeOK, Stores
<1>2. /\ \A s \in Servers, j \in CRDs :
           mutationCache[s][j] # NoCRD => mutationCache[s][j].rv \in Nat
      /\ \A s \in Servers :
           worker[s] # NoCRD => worker[s].rv \in Nat /\ worker[s].name \in CRDs
  BY DEF TypeOK, CRD
<1>3. MutationInv'
  <2> SUFFICES ASSUME NEW s \in Servers, NEW j \in CRDs, mutationCache'[s][j] # NoCRD
               PROVE  /\ mutationCache'[s][j].rv <= rv'
                      /\ store'[j] # NoCRD => mutationCache'[s][j].rv <= store'[j].rv
    BY DEF MutationInv
  <2>1. CASE j = k /\ mutationCache'[s][j] = obj
    BY <1>1, <2>1
  <2>2. CASE mutationCache'[s][j] = mutationCache[s][j]
    BY <1>1, <1>2, <2>2 DEF MutationInv
  <2>3. QED
    BY <2>1, <2>2
<1>4. WorkerInv'
  <2> SUFFICES ASSUME NEW s \in Servers, worker'[s] # NoCRD
               PROVE  /\ worker'[s] = worker[s]
                      /\ worker[s].rv <= rv'
                      /\ Current(worker[s])' =>
                           /\ Current(worker[s])
                           /\ store'[worker[s].name] = store[worker[s].name]
    BY DEF WorkerInv
  <2>1. worker'[s] = worker[s] /\ worker[s].rv <= rv
    BY DEF WorkerInv
  <2>2. Current(worker[s])' => worker[s].name # k
    BY <1>1, <1>2, <2>1 DEF Current
  <2>3. QED
    BY <1>1, <1>2, <2>1, <2>2 DEF Current
<1>5. QED
  BY <1>3, <1>4

\* Established, once true, is carried over by every sync.
LEMMA EstablishedCarried ==
  ASSUME NEW s \in Servers, NEW in \in CRD, IsCRDConditionTrue(in, "Established")
  PROVE  IsCRDConditionTrue(WithStatus(s, in), "Established")
<1>1. FindCRDCondition(in, "Established").status = "True"
  BY DEF IsCRDConditionTrue
<1>2. FindCRDCondition(in, "Established") # NoCondition
  <2>1. NoCondition.status = "Absent"
    BY DEF NoCondition, Condition
  <2>2. QED
    BY <1>1, <2>1
<1>3. QED
  BY <1>1, <1>2, WithStatusType DEF EstablishedCondition, IsCRDConditionTrue

\* The update that a sync sends is computed from the stored object or will be
\* refused.
LEMMA SyncWorkerInv ==
  ASSUME TypeOK, StoreInv, WorkerInv, NEW s \in Servers, NEW k \in CRDs, SyncUpdate(s, k)
  PROVE  WorkerInv'
<1> DEFINE in == cache[s][k]
<1>1. in \in CRD /\ in # NoCRD /\ in.name = k /\ in.rv <= rv
  BY DEF SyncUpdate, TypeOK, StorageTypeOK, IsNamed, StoreInv, VersionInv
<1>2. /\ worker' = [worker EXCEPT ![s] = WithStatus(s, in)]
      /\ UNCHANGED <<rv, store, cache>>
  BY DEF SyncUpdate, storageVars
<1>3. /\ WithStatus(s, in).rv = in.rv
      /\ WithStatus(s, in).name = k
      /\ \A f \in NameFields :
           WithStatus(s, in).accepted[f] \in {in.accepted[f], in.names[f]}
      /\ IsCRDConditionTrue(in, "Established")
           => IsCRDConditionTrue(WithStatus(s, in), "Established")
  BY <1>1, WithStatusType, AcceptableNamesType, EstablishedCarried
<1>4. Current(WithStatus(s, in)) => in = store[k]
  BY <1>1, <1>3 DEF Current, StoreInv, CacheInv
<1> HIDE DEF in
<1>5. \A t \in Servers : worker'[t] = IF t = s THEN WithStatus(s, in) ELSE worker[t]
  BY <1>2 DEF TypeOK
<1>6. \A crd : Current(crd)' <=> Current(crd)
  BY <1>2 DEF Current
<1>7. QED
  BY <1>1, <1>2, <1>3, <1>4, <1>5, <1>6 DEF WorkerInv, in

\* While an update that the store would accept is in flight, no event for its
\* object is on its way.
LEMMA InformerWorkerInv ==
  ASSUME TypeOK, StoreInv, WorkerInv, NEW s \in Servers,
         (\E e \in watch[s] : Receive(s, e)) \/ List(s),
         \A t \in Servers : worker'[t] \in {worker[t], NoCRD}
  PROVE  WorkerInv'
<1>1. UNCHANGED <<rv, store>>
  BY DEF Receive, List
<1> SUFFICES ASSUME NEW t \in Servers, worker[t] # NoCRD, Current(worker[t])
             PROVE  cache'[t][worker[t].name] = cache[t][worker[t].name]
  BY <1>1 DEF WorkerInv, Current
<1> DEFINE k == worker[t].name
<1>2. k \in CRDs /\ cache[t][k] = store[k] /\ store[k] # NoCRD /\ store[k] \in CRD
  BY DEF WorkerInv, TypeOK, StorageTypeOK, CRD, Current
<1>3. CASE List(s)
  BY <1>2, <1>3 DEF List, TypeOK, StorageTypeOK
<1>4. ASSUME NEW e \in watch[s], Receive(s, e)
      PROVE  cache'[t][k] = cache[t][k]
  <2>1. e \in Event
    BY DEF TypeOK, StorageTypeOK
  <2>2. t = s => e.name # k
    BY <1>2, <2>1 DEF StoreInv, CacheInv, Event, CRD
  <2>3. QED
    BY <1>2, <1>4, <2>1, <2>2 DEF Receive, TypeOK, StorageTypeOK, Event
<1>5. QED
  BY <1>3, <1>4

-----------------------------------------------------------------------------
(* The invariant of informers, caches and updates in flight.               *)

\* A step leaves this controller's part of the invariant alone.
LEMMA UnchangedInformerInv ==
  ASSUME InformerInv, UNCHANGED <<rv, store, watch, cache, mutationCache>>,
         \A s \in Servers : worker'[s] \in {worker[s], NoCRD}
  PROVE  InformerInv'
<1>1. StoreInv'
  BY DEF InformerInv, StoreInv, VersionInv, CacheInv, EventsDistinct, Live
<1>2. MutationInv'
  BY DEF InformerInv, MutationInv
<1>3. WorkerInv'
  BY DEF InformerInv, WorkerInv, Current
<1>4. QED
  BY <1>1, <1>2, <1>3 DEF InformerInv

\* InformerInv is inductive.
LEMMA InformerInvStep ==
  ASSUME TypeOK, InformerInv, [Next]_vars
  PROVE  InformerInv'
<1> USE DEF InformerInv
<1>1. StorageTypeOK
  BY DEF TypeOK
<1>2. ASSUME (UserNext /\ UNCHANGED <<controllerVars, faults>>) \/ OtherControllers
      PROVE  InformerInv'
  <2>1. UNCHANGED <<cache, mutationCache, worker>>
    BY <1>2, OthersWrite
  <2>2. CASE NothingStored
    BY <2>1, <2>2, UnchangedInformerInv DEF NothingStored
  <2>3. ASSUME NEW k \in CRDs, NEW obj \in CRD \cup {NoCRD}, Stores(k, obj)
        PROVE  InformerInv'
    <3>1. /\ \A s \in Servers : worker'[s] \in {worker[s], NoCRD}
          /\ \A s \in Servers, j \in CRDs : mutationCache'[s][j] = mutationCache[s][j]
      BY <2>1
    <3>2. StoreInv'
      BY <1>1, <2>1, <2>3, StoresStoreInv
    <3>3. VersionInv /\ UNCHANGED cache
      BY <2>1 DEF StoreInv
    <3>4. MutationInv' /\ WorkerInv'
      BY <2>3, <3>1, <3>3, StoresWorkerInv
    <3>5. QED
      BY <3>2, <3>4
  <2>4. QED
    BY <1>2, <2>2, <2>3, OthersWrite
<1>3. ASSUME NEW s \in Servers, NEW k \in CRDs, Sync(s, k)
      PROVE  InformerInv'
  <2>1. UNCHANGED <<storageVars, mutationCache>>
    BY <1>3 DEF Sync, SyncDeleted, SyncUpToDate, SyncUpdate
  <2>2. CASE SyncUpdate(s, k)
    <3>1. WorkerInv'
      BY <2>2, SyncWorkerInv
    <3>2. StoreInv' /\ MutationInv'
      BY <2>1 DEF storageVars, StoreInv, VersionInv, CacheInv, EventsDistinct, Live, MutationInv
    <3>3. QED
      BY <3>1, <3>2
  <2>3. CASE UNCHANGED worker
    BY <2>1, <2>3, UnchangedInformerInv DEF storageVars
  <2>4. QED
    BY <1>3, <2>2, <2>3 DEF Sync, SyncDeleted, SyncUpToDate
<1>4. ASSUME NEW s \in Servers, Answer(s)
      PROVE  InformerInv'
  <2>1. CASE UpdateAccepted(s) \/ ResponseLost(s)
    <3> DEFINE k == worker[s].name
    <3>1. /\ k \in CRDs /\ UNCHANGED cache /\ Current(worker[s])
          /\ worker' = [worker EXCEPT ![s] = NoCRD]
          /\ \/ UNCHANGED mutationCache
             \/ mutationCache' = [mutationCache EXCEPT ![s][k] = store'[k]]
          /\ NothingStored \/ \E obj \in CRD \cup {NoCRD} : Stores(k, obj)
      BY <2>1, WorkerWrites
    <3>2. \A t \in Servers : worker'[t] \in {worker[t], NoCRD}
      BY <3>1 DEF TypeOK
    <3>3. \A t \in Servers, j \in CRDs :
            \/ mutationCache'[t][j] = mutationCache[t][j]
            \/ j = k /\ mutationCache'[t][j] = store'[k]
      BY <3>1 DEF TypeOK
    <3>4. CASE NothingStored
      <4>1. StoreInv'
        BY <3>1, <3>4 DEF NothingStored, StoreInv, VersionInv, CacheInv, EventsDistinct, Live
      <4>2. WorkerInv'
        BY <3>1, <3>2, <3>4 DEF NothingStored, WorkerInv, Current
      <4>3. MutationInv'
        <5>1. UNCHANGED <<rv, store>>
          BY <3>4 DEF NothingStored
        <5>2. \A j \in CRDs : store[j] # NoCRD => store[j].rv <= rv /\ store[j].rv \in Nat
          <6>1. \A j \in CRDs : store[j] # NoCRD => store[j].rv \in Nat
            BY DEF TypeOK, StorageTypeOK, CRD
          <6>2. QED
            BY <6>1 DEF StoreInv, VersionInv, Live
        <5>3. QED
          BY <3>3, <5>1, <5>2 DEF MutationInv
      <4>4. QED
        BY <4>1, <4>2, <4>3
    <3>5. ASSUME NEW obj \in CRD \cup {NoCRD}, Stores(k, obj)
          PROVE  InformerInv'
      <4>1. store'[k] = obj
        BY <1>1, <3>1, <3>5, StoresStore
      <4>2. StoreInv'
        BY <1>1, <3>1, <3>5, StoresStoreInv
      <4>3. \A t \in Servers, j \in CRDs :
              mutationCache'[t][j] = mutationCache[t][j] \/ (j = k /\ mutationCache'[t][j] = obj)
        BY <3>3, <4>1
      <4>4. VersionInv /\ UNCHANGED cache /\ k \in CRDs
        BY <3>1 DEF StoreInv
      <4>5. MutationInv' /\ WorkerInv'
        <5> HIDE DEF k
        <5>1. QED
          BY <3>2, <3>5, <4>3, <4>4, StoresWorkerInv
      <4>6. QED
        BY <4>2, <4>5
    <3>6. QED
      BY <3>1, <3>4, <3>5
  <2>2. CASE UpdateRefused(s) \/ UpdateFailed(s)
    BY <2>2, UnchangedInformerInv DEF UpdateRefused, UpdateFailed, Answered, TypeOK
  <2>3. QED
    BY <1>4, <2>1, <2>2 DEF Answer
<1>5. ASSUME NEW s \in Servers, Deliver(s) \/ Relist(s) \/ Restart(s)
      PROVE  InformerInv'
  <2>1. (\E e \in watch[s] : Receive(s, e)) \/ List(s)
    BY <1>5 DEF Deliver, Relist, Restart
  <2>2. \A t \in Servers : worker'[t] \in {worker[t], NoCRD}
    BY <1>5 DEF Deliver, Relist, Restart, TypeOK
  <2>3. StoreInv' /\ WorkerInv'
    BY <1>1, <2>1, <2>2, InformerStoreInv, InformerWorkerInv
  <2>4. UNCHANGED <<rv, store>>
    BY <2>1 DEF Receive, List
  <2>5. \A t \in Servers, j \in CRDs : mutationCache'[t][j] \in {mutationCache[t][j], NoCRD}
    BY <1>5 DEF Deliver, Relist, Restart, TypeOK
  <2>6. MutationInv'
    BY <2>4, <2>5 DEF MutationInv
  <2>7. QED
    BY <2>3, <2>6
<1>6. ASSUME (\E s \in Servers : Resync(s)) \/ UNCHANGED vars
      PROVE  InformerInv'
  BY <1>6, UnchangedInformerInv DEF Resync, vars, storageVars, controllerVars
<1>7. QED
  BY <1>2, <1>3, <1>4, <1>5, <1>6 DEF Next

\* Initially everything is empty.
LEMMA InformerInvInit == Init => InformerInv
  BY DEF Init, StorageInit, InformerInv, StoreInv, VersionInv, CacheInv, EventsDistinct,
     Live, MutationInv, WorkerInv

\* What the caches and the updates in flight know of the store, for any
\* number of servers, restarts, lost watches and lost responses.
THEOREM InformerInvariant == Spec => []InformerInv
<1>1. TypeOK /\ InformerInv /\ [Next]_vars => InformerInv'
  BY InformerInvStep
<1>2. QED
  BY <1>1, InformerInvInit, TypeCorrect, PTL DEF Spec

-----------------------------------------------------------------------------
(* The properties of status updates.                                       *)

\* How a step changes the store.
LEMMA StoreStep ==
  ASSUME TypeOK, [Next]_vars, store' # store
  PROVE  \/ \E k \in CRDs, obj \in CRD \cup {NoCRD} : Stores(k, obj) /\ Keeps(k, obj)
         \/ \E s \in Servers :
              /\ worker[s] # NoCRD /\ Current(worker[s])
              /\ \/ Stores(worker[s].name, NoCRD)
                 \/ \E new \in CRD : /\ Stores(worker[s].name, new)
                                     /\ new.accepted = worker[s].accepted
                                     /\ new.conditions = worker[s].conditions
<1>1. CASE (UserNext /\ UNCHANGED <<controllerVars, faults>>) \/ OtherControllers
  BY <1>1, OthersWrite DEF NothingStored
<1>2. ASSUME NEW s \in Servers, UpdateAccepted(s) \/ ResponseLost(s)
      PROVE  /\ worker[s] # NoCRD /\ Current(worker[s])
             /\ \/ Stores(worker[s].name, NoCRD)
                \/ \E new \in CRD : /\ Stores(worker[s].name, new)
                                    /\ new.accepted = worker[s].accepted
                                    /\ new.conditions = worker[s].conditions
  BY <1>2, WorkerWrites DEF NothingStored
<1>3. ASSUME NEW s \in Servers, UpdateRefused(s) \/ UpdateFailed(s) \/ Deliver(s)
                                 \/ Relist(s) \/ Restart(s)
      PROVE  FALSE
  BY <1>3 DEF UpdateRefused, UpdateFailed, Deliver, Relist, Restart, Receive, List
<1>4. ASSUME NEW s \in Servers, NEW k \in CRDs, Sync(s, k)
      PROVE  FALSE
  BY <1>4 DEF Sync, SyncDeleted, SyncUpToDate, SyncUpdate, storageVars
<1>5. ASSUME (\E s \in Servers : Resync(s)) \/ UNCHANGED vars
      PROVE  FALSE
  BY <1>5 DEF Resync, vars, storageVars
<1>6. QED
  BY <1>1, <1>2, <1>3, <1>4, <1>5 DEF Next, Answer

\* Two servers may compute from different reads, yet what they store was
\* asked for by the spec it is stored with.
THEOREM OnlyRequestedAccepted == Spec => AcceptsOnlyRequested
<1>1. TypeOK /\ InformerInv /\ [Next]_vars => [AcceptsRequested]_store
  <2> SUFFICES ASSUME TypeOK, InformerInv, [Next]_vars, store' # store,
                      NEW j \in CRDs, store[j] # NoCRD, store'[j] # NoCRD, NEW f \in NameFields
               PROVE  store'[j].accepted[f] \in {store[j].accepted[f], store[j].names[f]}
    BY DEF AcceptsRequested
  <2>1. StorageTypeOK
    BY DEF TypeOK
  <2>2. ASSUME NEW k \in CRDs, NEW obj \in CRD \cup {NoCRD}, Stores(k, obj), Keeps(k, obj)
        PROVE  store'[j].accepted = store[j].accepted
    BY <2>1, <2>2, StoresStore DEF Keeps
  <2>3. ASSUME NEW s \in Servers, worker[s] # NoCRD, Current(worker[s]),
               NEW new \in CRD, Stores(worker[s].name, new), new.accepted = worker[s].accepted
        PROVE  store'[j].accepted[f] \in {store[j].accepted[f], store[j].names[f]}
    <3>1. worker[s].name \in CRDs
      BY <2>3 DEF TypeOK, CRD
    <3>2. \A g \in NameFields :
            new.accepted[g] \in {store[worker[s].name].accepted[g], store[worker[s].name].names[g]}
      BY <2>3 DEF InformerInv, WorkerInv
    <3>3. QED
      BY <2>1, <2>3, <3>1, <3>2, StoresStore
  <2>4. ASSUME NEW s \in Servers, worker[s] # NoCRD, Stores(worker[s].name, NoCRD)
        PROVE  store'[j].accepted = store[j].accepted
    <3>1. worker[s].name \in CRDs
      BY <2>4 DEF TypeOK, CRD
    <3>2. QED
      BY <2>1, <2>4, <3>1, StoresStore
  <2>5. QED
    BY <2>2, <2>3, <2>4, StoreStep
<1>2. QED
  BY <1>1, InformerInvariant, TypeCorrect, PTL DEF Spec, AcceptsOnlyRequested

\* No overlap of the naming, establishing and finalizing controllers, of one
\* server or of several, makes an established CRD lose the condition.
THEOREM EstablishedForGood == Spec => EstablishedStays
<1>1. TypeOK /\ InformerInv /\ [Next]_vars => [KeepsEstablished]_store
  <2> SUFFICES ASSUME TypeOK, InformerInv, [Next]_vars, store' # store,
                      NEW j \in CRDs, store[j] # NoCRD, store'[j] # NoCRD,
                      IsCRDConditionTrue(store[j], "Established")
               PROVE  IsCRDConditionTrue(store'[j], "Established")
    BY DEF KeepsEstablished
  <2>1. StorageTypeOK
    BY DEF TypeOK
  <2>2. ASSUME NEW k \in CRDs, NEW obj \in CRD \cup {NoCRD}, Stores(k, obj), Keeps(k, obj)
        PROVE  IsCRDConditionTrue(store'[j], "Established")
    BY <2>1, <2>2, StoresStore DEF Keeps, KeepsConditions
  <2>3. ASSUME NEW s \in Servers, worker[s] # NoCRD, Current(worker[s]),
               NEW new \in CRD, Stores(worker[s].name, new),
               new.conditions = worker[s].conditions
        PROVE  IsCRDConditionTrue(store'[j], "Established")
    <3>1. worker[s].name \in CRDs
      BY <2>3 DEF TypeOK, CRD
    <3>2. IsCRDConditionTrue(store[worker[s].name], "Established")
            => IsCRDConditionTrue(new, "Established")
      BY <2>3 DEF InformerInv, WorkerInv, IsCRDConditionTrue, FindCRDCondition
    <3>3. QED
      BY <2>1, <2>3, <3>1, <3>2, StoresStore
  <2>4. ASSUME NEW s \in Servers, worker[s] # NoCRD, Stores(worker[s].name, NoCRD)
        PROVE  IsCRDConditionTrue(store'[j], "Established")
    <3>1. worker[s].name \in CRDs
      BY <2>4 DEF TypeOK, CRD
    <3>2. QED
      BY <2>1, <2>4, <3>1, StoresStore
  <2>5. QED
    BY <2>2, <2>3, <2>4, StoreStep
<1>2. QED
  BY <1>1, InformerInvariant, TypeCorrect, PTL DEF Spec, EstablishedStays

\* A sync always leaves an Established condition, true or not.
LEMMA EstablishedPresent ==
  ASSUME NEW s \in Servers, NEW in \in CRD
  PROVE  FindCRDCondition(WithStatus(s, in), "Established") # NoCondition
<1>1. /\ NoCondition.status = "Absent"
      /\ Condition("False", "Installing").status = "False"
      /\ Condition("False", "NotAccepted").status = "False"
  BY DEF NoCondition, Condition
<1>2. FindCRDCondition(in, "Established").status = "True"
        => FindCRDCondition(in, "Established") # NoCondition
  BY <1>1
<1>3. QED
  BY <1>1, <1>2, WithStatusType DEF EstablishedCondition

\* ServedInv is inductive.
LEMMA ServedInvStep ==
  ASSUME TypeOK, ServedInv, [Next]_vars
  PROVE  ServedInv'
<1>1. ServedHasEstablishedCondition'
  <2> SUFFICES ASSUME store' # store, NEW j \in CRDs, store'[j] # NoCRD,
                      IsCRDConditionTrue(store'[j], "NamesAccepted")
               PROVE  FindCRDCondition(store'[j], "Established") # NoCondition
    BY DEF ServedInv, ServedHasEstablishedCondition, Live
  <2>1. StorageTypeOK
    BY DEF TypeOK
  <2>2. store[j] # NoCRD /\ IsCRDConditionTrue(store[j], "NamesAccepted")
          => FindCRDCondition(store[j], "Established") # NoCondition
    BY DEF ServedInv, ServedHasEstablishedCondition, Live
  <2>3. ASSUME NEW k \in CRDs, NEW obj \in CRD \cup {NoCRD}, Stores(k, obj), Keeps(k, obj)
        PROVE  FindCRDCondition(store'[j], "Established") # NoCondition
    BY <2>1, <2>2, <2>3, StoresStore DEF Keeps, KeepsConditions, IsCRDConditionTrue
  <2>4. ASSUME NEW s \in Servers, worker[s] # NoCRD,
               NEW new \in CRD, Stores(worker[s].name, new),
               new.conditions = worker[s].conditions
        PROVE  FindCRDCondition(store'[j], "Established") # NoCondition
    <3>1. worker[s].name \in CRDs
      BY <2>4 DEF TypeOK, CRD
    <3>2. FindCRDCondition(new, "Established") # NoCondition
      BY <2>4 DEF ServedInv, FindCRDCondition
    <3>3. QED
      BY <2>1, <2>2, <2>4, <3>1, <3>2, StoresStore
  <2>5. ASSUME NEW s \in Servers, worker[s] # NoCRD, Stores(worker[s].name, NoCRD)
        PROVE  FindCRDCondition(store'[j], "Established") # NoCondition
    <3>1. worker[s].name \in CRDs
      BY <2>5 DEF TypeOK, CRD
    <3>2. QED
      BY <2>1, <2>2, <2>5, <3>1, StoresStore
  <2>6. QED
    BY <2>3, <2>4, <2>5, StoreStep
<1>2. ASSUME NEW t \in Servers, worker'[t] # NoCRD
      PROVE  FindCRDCondition(worker'[t], "Established") # NoCondition
  <2>1. ASSUME NEW s \in Servers, NEW k \in CRDs, SyncUpdate(s, k)
        PROVE  FindCRDCondition(worker'[t], "Established") # NoCondition
    <3>1. cache[s][k] \in CRD
      BY <2>1 DEF SyncUpdate, TypeOK, StorageTypeOK
    <3>2. worker' = [worker EXCEPT ![s] = WithStatus(s, cache[s][k])]
      BY <2>1 DEF SyncUpdate
    <3>3. QED
      BY <1>2, <3>1, <3>2, EstablishedPresent DEF TypeOK, ServedInv
  <2>2. CASE worker'[t] = worker[t]
    BY <1>2, <2>2 DEF ServedInv
  <2>3. ASSUME NEW s \in Servers, NEW k \in CRDs, SyncDeleted(s, k) \/ SyncUpToDate(s, k)
        PROVE  worker'[t] = worker[t]
    BY <2>3 DEF SyncDeleted, SyncUpToDate
  <2>4. ASSUME NEW s \in Servers, Answer(s) \/ Deliver(s) \/ Relist(s) \/ Restart(s)
        PROVE  worker'[t] = worker[t]
    BY <1>2, <2>4 DEF Answer, UpdateAccepted, UpdateRefused, UpdateFailed, ResponseLost,
       Answered, Deliver, Relist, Restart, TypeOK
  <2>5. CASE (UserNext /\ UNCHANGED <<controllerVars, faults>>) \/ OtherControllers
    BY <2>2, <2>5, OthersWrite
  <2>6. ASSUME (\E s \in Servers : Resync(s)) \/ UNCHANGED vars
        PROVE  worker'[t] = worker[t]
    BY <2>6 DEF Resync, vars, controllerVars
  <2>7. QED
    BY <2>1, <2>2, <2>3, <2>4, <2>5, <2>6 DEF Next, Sync
<1>3. QED
  BY <1>1, <1>2 DEF ServedInv

\* A create request that is served finds the Established condition that it
\* reads without checking whether it is there.
THEOREM EstablishedConditionServed == Spec => []ServedHasEstablishedCondition
<1>1. Init => ServedInv
  BY DEF Init, StorageInit, ServedInv, ServedHasEstablishedCondition, Live
<1>2. TypeOK /\ ServedInv /\ [Next]_vars => ServedInv'
  BY ServedInvStep
<1>3. ServedInv => ServedHasEstablishedCondition
  BY DEF ServedInv
<1>4. QED
  BY <1>1, <1>2, <1>3, TypeCorrect, PTL DEF Spec

-----------------------------------------------------------------------------
(* The names of served CRDs.                                               *)

\* A sync accepts all requested names or leaves those accepted before.
LEMMA WithStatusNames ==
  ASSUME NEW s \in Servers, NEW in \in CRD, NamesGiven(in)
  PROVE  NamesGiven(WithStatus(s, in))
<1> DEFINE new == WithStatus(s, in)
<1>1. /\ new.names = in.names /\ new.accepted = AcceptableNames(s, in)
      /\ FindCRDCondition(new, "Established")
           = EstablishedCondition(in, NamesAcceptedCondition(s, in))
      /\ FindCRDCondition(new, "NamesAccepted") = NamesAcceptedCondition(s, in)
  BY WithStatusType
<1> SUFFICES NamesGiven(new)
  OBVIOUS
<1> HIDE DEF new
<1>2. \A f \in NameFields :
        new.accepted[f] = IF Conflicts(s, in, f) = {} THEN in.names[f] ELSE in.accepted[f]
  BY <1>1 DEF AcceptableNames
<1>3. RequiredNames \in SUBSET NameFields
  BY DEF RequiredNames
<1>4. CASE Served(in)
  BY <1>1, <1>2, <1>3, <1>4 DEF NamesGiven
<1>5. CASE ~ Served(in)
  <2>1. ~ IsCRDConditionTrue(new, "Established")
    <3>1. /\ Condition("False", "Installing").status = "False"
          /\ Condition("False", "NotAccepted").status = "False"
      BY DEF Condition
    <3>2. QED
      BY <1>1, <1>5, <3>1 DEF EstablishedCondition, Served, IsCRDConditionTrue
  <2>2. ASSUME IsCRDConditionTrue(new, "NamesAccepted"), NEW f \in RequiredNames
        PROVE  new.accepted[f] # {}
    <3>1. {i \in 1..5 : Conflicts(s, in, CheckOrder[i]) # {}} = {}
      BY <1>1, <2>2 DEF NamesAcceptedCondition, IsCRDConditionTrue
    <3>2. \E i \in 1..5 : CheckOrder[i] = f
      BY DEF RequiredNames, NameFields, ResourceFields, KindFields, CheckOrder
    <3>3. Conflicts(s, in, f) = {}
      BY <3>1, <3>2
    <3>4. QED
      BY <1>2, <1>3, <3>3 DEF NamesGiven
  <2>3. QED
    BY <1>1, <2>1, <2>2 DEF NamesGiven, Served
<1>6. QED
  BY <1>4, <1>5

\* What is stored, and so sent to the informers, has its names.
LEMMA StoresNamesInv ==
  ASSUME TypeOK, NamesInv, NEW k \in CRDs, NEW obj, Stores(k, obj),
         obj # NoCRD => NamesGiven(obj), UNCHANGED cache,
         \A s \in Servers : worker'[s] \in {worker[s], NoCRD}
  PROVE  NamesInv'
<1>1. /\ store'[k] = obj
      /\ \A j \in CRDs \ {k} : store'[j] = store[j]
      /\ \A s \in Servers :
           watch'[s] = watch[s] \cup {[rv |-> rv + 1, name |-> k, obj |-> obj]}
  BY StoresStore DEF TypeOK
<1>2. \A j \in CRDs : store'[j] # NoCRD => NamesGiven(store'[j])
  BY <1>1 DEF NamesInv, Live
<1>3. \A s \in Servers : \A e \in watch'[s] : e.obj # NoCRD => NamesGiven(e.obj)
  BY <1>1 DEF NamesInv
<1>4. QED
  BY <1>2, <1>3 DEF NamesInv, Live

\* The informer copies.
LEMMA InformerNamesInv ==
  ASSUME TypeOK, NamesInv, NEW s \in Servers, (\E e \in watch[s] : Receive(s, e)) \/ List(s),
         \A t \in Servers : worker'[t] \in {worker[t], NoCRD}
  PROVE  NamesInv'
<1>1. UNCHANGED store
  BY DEF Receive, List
<1>2. ASSUME NEW t \in Servers
      PROVE  /\ watch'[t] \in SUBSET watch[t]
             /\ \A k \in CRDs : \/ cache'[t][k] \in {cache[t][k], store[k]}
                              \/ \E e \in watch[t] : cache'[t][k] = e.obj
  <2>1. CASE List(s)
    BY <2>1 DEF List, TypeOK, StorageTypeOK
  <2>2. ASSUME NEW e \in watch[s], Receive(s, e)
        PROVE  /\ watch'[t] \in SUBSET watch[t]
               /\ \A k \in CRDs : cache'[t][k] = cache[t][k] \/ (t = s /\ cache'[t][k] = e.obj)
    BY <2>2 DEF Receive, TypeOK, StorageTypeOK, Event
  <2>3. QED
    BY <2>1, <2>2
<1>3. QED
  BY <1>1, <1>2 DEF NamesInv, Live

\* NamesInv is inductive.
LEMMA NamesInvStep ==
  ASSUME TypeOK, NamesInv, [Next]_vars
  PROVE  NamesInv'
<1>1. CASE (UserNext /\ UNCHANGED <<controllerVars, faults>>) \/ OtherControllers
  <2>1. UNCHANGED <<cache, worker>>
    BY <1>1, OthersWrite
  <2>2. CASE NothingStored
    BY <2>1, <2>2 DEF NothingStored, NamesInv, Live
  <2>3. ASSUME NEW k \in CRDs, NEW obj \in CRD \cup {NoCRD}, Stores(k, obj), Keeps(k, obj)
        PROVE  NamesInv'
    <3>1. obj # NoCRD => NamesGiven(obj)
      BY <2>3 DEF Keeps, NamesInv, Live
    <3>2. QED
      BY <2>1, <2>3, <3>1, StoresNamesInv
  <2>4. QED
    BY <1>1, <2>2, <2>3, OthersWrite
<1>2. ASSUME NEW s \in Servers, NEW k \in CRDs, Sync(s, k)
      PROVE  NamesInv'
  <2>1. UNCHANGED storageVars
    BY <1>2 DEF Sync, SyncDeleted, SyncUpToDate, SyncUpdate
  <2>2. CASE SyncUpdate(s, k)
    <3>1. cache[s][k] \in CRD /\ NamesGiven(cache[s][k])
      BY <2>2 DEF SyncUpdate, TypeOK, StorageTypeOK, NamesInv
    <3>2. NamesGiven(WithStatus(s, cache[s][k]))
      BY <3>1, WithStatusNames
    <3>3. \A t \in Servers : worker'[t] \in {worker[t], WithStatus(s, cache[s][k])}
      BY <2>2 DEF SyncUpdate, TypeOK
    <3>4. QED
      BY <2>1, <3>2, <3>3 DEF storageVars, NamesInv, Live
  <2>3. CASE UNCHANGED worker
    BY <2>1, <2>3 DEF storageVars, NamesInv, Live
  <2>4. QED
    BY <1>2, <2>2, <2>3 DEF Sync, SyncDeleted, SyncUpToDate
<1>3. ASSUME NEW s \in Servers, UpdateAccepted(s) \/ ResponseLost(s)
      PROVE  NamesInv'
  <2> DEFINE k == worker[s].name
  <2>1. /\ worker[s] # NoCRD /\ k \in CRDs /\ Current(worker[s])
        /\ UNCHANGED cache
        /\ worker' = [worker EXCEPT ![s] = NoCRD]
        /\ \/ NothingStored
           \/ Stores(k, NoCRD)
           \/ \E new \in CRD : /\ Stores(k, new)
                               /\ new.names = store[k].names
                               /\ new.accepted = worker[s].accepted
                               /\ new.conditions = worker[s].conditions
    BY <1>3, WorkerWrites
  <2>2. \A t \in Servers : worker'[t] \in {worker[t], NoCRD}
    BY <2>1 DEF TypeOK
  <2>3. NamesGiven(worker[s]) /\ NamesGiven(store[k])
    BY <2>1 DEF NamesInv, Live, Current
  <2> HIDE DEF k
  <2>4. CASE NothingStored
    BY <2>1, <2>2, <2>4 DEF NothingStored, NamesInv, Live
  <2>5. CASE Stores(k, NoCRD)
    BY <2>1, <2>2, <2>5, StoresNamesInv
  <2>6. ASSUME NEW new \in CRD, Stores(k, new), new.names = store[k].names,
               new.accepted = worker[s].accepted, new.conditions = worker[s].conditions
        PROVE  NamesInv'
    <3>1. NamesGiven(new)
      BY <2>3, <2>6 DEF NamesGiven, Served, IsCRDConditionTrue, FindCRDCondition
    <3>2. QED
      BY <2>1, <2>2, <2>6, <3>1, StoresNamesInv
  <2>7. QED
    BY <2>1, <2>4, <2>5, <2>6
<1>4. ASSUME NEW s \in Servers, UpdateRefused(s) \/ UpdateFailed(s)
      PROVE  NamesInv'
  <2>1. UNCHANGED <<store, cache, watch>> /\ \A t \in Servers : worker'[t] \in {worker[t], NoCRD}
    BY <1>4 DEF UpdateRefused, UpdateFailed, Answered, TypeOK
  <2>2. QED
    BY <2>1 DEF NamesInv, Live
<1>5. ASSUME NEW s \in Servers, Deliver(s) \/ Relist(s) \/ Restart(s)
      PROVE  NamesInv'
  <2>1. (\E e \in watch[s] : Receive(s, e)) \/ List(s)
    BY <1>5 DEF Deliver, Relist, Restart
  <2>2. \A t \in Servers : worker'[t] \in {worker[t], NoCRD}
    BY <1>5 DEF Deliver, Relist, Restart, TypeOK
  <2>3. QED
    BY <2>1, <2>2, InformerNamesInv
<1>6. ASSUME (\E s \in Servers : Resync(s)) \/ UNCHANGED vars
      PROVE  NamesInv'
  <2>1. UNCHANGED <<store, cache, watch, worker>>
    BY <1>6 DEF Resync, vars, storageVars, controllerVars
  <2>2. QED
    BY <2>1 DEF NamesInv, Live
<1>7. QED
  BY <1>1, <1>2, <1>3, <1>4, <1>5, <1>6 DEF Next, Answer

\* A CRD that is served has every name its storages are built with, although
\* these may have been accepted by different syncs, on different servers.
THEOREM ServedNames == Spec => []ServedHasNames
<1>1. Init => NamesInv
  BY DEF Init, StorageInit, NamesInv, Live
<1>2. TypeOK /\ NamesInv /\ [Next]_vars => NamesInv'
  BY NamesInvStep
<1>3. NamesInv => ServedHasNames
  BY DEF NamesInv, NamesGiven, ServedHasNames
<1>4. QED
  BY <1>1, <1>2, <1>3, TypeCorrect, PTL DEF Spec

-----------------------------------------------------------------------------
(* What a worker sees of accepted names.                                   *)

\* The mutation cache does not hide an object that is as new as its own.
LEMMA NewerObject ==
  ASSUME NEW cached \in CRD \cup {NoCRD}, NEW mutated \in CRD \cup {NoCRD},
         mutated # NoCRD /\ cached # NoCRD => mutated.rv <= cached.rv
  PROVE  Newer(cached, mutated) = cached
  BY DEF Newer, CRD

\* A write of users or of other controllers is seen when its event arrives,
\* and shows the accepted names that were there.
LEMMA OthersViewInv ==
  ASSUME TypeOK, InformerInv, ViewInv, NEW k \in CRDs, NEW obj \in CRD \cup {NoCRD},
         Stores(k, obj), Keeps(k, obj), UNCHANGED <<cache, mutationCache>>
  PROVE  ViewInv'
<1> DEFINE event == [rv |-> rv + 1, name |-> k, obj |-> obj]
<1>1. /\ store'[k] = obj /\ (obj # NoCRD => obj.rv = rv + 1)
      /\ \A j \in CRDs \ {k} : store'[j] = store[j]
      /\ \A s \in Servers : watch'[s] = watch[s] \cup {event}
  BY StoresStore DEF TypeOK, Stores
<1>2. event.name = k /\ event.obj = obj
  OBVIOUS
<1> HIDE DEF event
<1>3. \A s \in Servers, j \in CRDs : View(s, j)' = View(s, j)
  BY DEF View
<1>4. \A s \in Servers : obj # NoCRD => Newer(obj, mutationCache[s][k]) = obj
  <2> SUFFICES ASSUME NEW s \in Servers, obj # NoCRD
               PROVE  Newer(obj, mutationCache[s][k]) = obj
    OBVIOUS
  <2>1. mutationCache[s][k] \in CRD \cup {NoCRD} /\ rv \in Nat
    BY DEF TypeOK, StorageTypeOK
  <2>2. mutationCache[s][k] # NoCRD => mutationCache[s][k].rv <= obj.rv
    BY <1>1, <2>1 DEF InformerInv, MutationInv, CRD
  <2>3. QED
    BY <2>1, <2>2, NewerObject
<1> SUFFICES ASSUME NEW s \in Servers, NEW j \in CRDs,
                    store'[j] # NoCRD, store'[j].accepted # EmptyNames
             PROVE  /\ cache[s][j] # NoCRD
                    /\ View(s, j).accepted = store'[j].accepted
                    /\ \A e \in watch'[s] :
                         e.name = j =>
                           /\ e.obj # NoCRD
                           /\ Newer(e.obj, mutationCache[s][j]).accepted = store'[j].accepted
  BY <1>3 DEF ViewInv
<1>5. store[j] # NoCRD /\ store[j].accepted = store'[j].accepted
  BY <1>1 DEF Keeps
<1>6. QED
  BY <1>1, <1>2, <1>4, <1>5 DEF ViewInv

\* The worker sees what it has written itself before any event arrives.
LEMMA WorkerViewInv ==
  ASSUME TypeOK, InformerInv, ViewInv, OneWorker, NEW s \in Servers, UpdateAccepted(s)
  PROVE  ViewInv'
<1> DEFINE k == worker[s].name
<1>1. /\ k \in CRDs /\ Current(worker[s]) /\ UNCHANGED cache /\ worker[s] # NoCRD
      /\ mutationCache' = [mutationCache EXCEPT ![s][k] = store'[k]]
      /\ NothingStored \/ \E obj \in CRD \cup {NoCRD} : Stores(k, obj)
  BY WorkerWrites DEF UpdateAccepted
<1>2. cache[s][k] = store[k] /\ store[k] # NoCRD
  BY <1>1 DEF InformerInv, WorkerInv, Current
<1>3. \A e \in watch[s] : e.name # k
  <2> SUFFICES ASSUME NEW e \in watch[s], e.name = k PROVE FALSE
    OBVIOUS
  <2>1. cache[s][k].rv < e.rv /\ e.rv <= store[k].rv
    BY <1>1, <1>2 DEF InformerInv, StoreInv, CacheInv
  <2>2. e.rv \in Nat /\ store[k].rv \in Nat
    BY <1>1, <1>2 DEF TypeOK, StorageTypeOK, Event, CRD
  <2>3. QED
    BY <1>2, <2>1, <2>2
<1>4. /\ mutationCache'[s][k] = store'[k]
      /\ \A j \in CRDs \ {k} : mutationCache'[s][j] = mutationCache[s][j]
  BY <1>1 DEF TypeOK
<1>5. StorageTypeOK
  BY DEF TypeOK
<1> HIDE DEF k
<1> SUFFICES ASSUME NEW j \in CRDs, store'[j] # NoCRD, store'[j].accepted # EmptyNames
             PROVE  /\ cache[s][j] # NoCRD
                    /\ Newer(cache[s][j], mutationCache'[s][j]).accepted = store'[j].accepted
                    /\ \A e \in watch'[s] :
                         e.name = j =>
                           /\ e.obj # NoCRD
                           /\ Newer(e.obj, mutationCache'[s][j]).accepted = store'[j].accepted
  BY <1>1 DEF ViewInv, OneWorker, View
<1>6. CASE j # k
  <2>1. store'[j] = store[j]
    BY <1>1, <1>5, <1>6, StoresStore DEF NothingStored
  <2>2. \A e \in watch'[s] : e.name = j => e \in watch[s]
    BY <1>1, <1>5, <1>6, StoresStore DEF NothingStored
  <2>3. QED
    BY <1>4, <1>6, <2>1, <2>2 DEF ViewInv, View
<1>7. CASE j = k
  <2>1. CASE NothingStored
    BY <1>2, <1>3, <1>4, <1>7, <2>1 DEF NothingStored, Newer
  <2>2. ASSUME NEW obj \in CRD \cup {NoCRD}, Stores(k, obj)
        PROVE  /\ cache[s][k] # NoCRD
               /\ Newer(cache[s][k], obj).accepted = obj.accepted
               /\ \A e \in watch'[s] :
                    e.name = k => e.obj # NoCRD /\ Newer(e.obj, obj).accepted = obj.accepted
    <3>1. store'[k] = obj /\ obj # NoCRD /\ obj.rv = rv + 1
      BY <1>1, <1>5, <1>7, <2>2, StoresStore DEF Stores
    <3>2. rv \in Nat /\ store[k].rv \in Nat /\ store[k].rv <= rv
      BY <1>1, <1>2 DEF TypeOK, StorageTypeOK, CRD, InformerInv, StoreInv, VersionInv, Live
    <3>3. Newer(cache[s][k], obj) = obj
      BY <1>2, <3>1, <3>2 DEF Newer
    <3>4. Newer(obj, obj) = obj
      BY DEF Newer
    <3>5. \A e \in watch'[s] : e.name = k => e.obj = obj
      BY <1>1, <1>3, <1>5, <2>2, StoresStore
    <3>6. QED
      BY <1>2, <3>1, <3>3, <3>4, <3>5
  <2>3. QED
    BY <1>1, <1>4, <1>5, <1>7, <2>1, <2>2, StoresStore
<1>8. QED
  BY <1>6, <1>7

\* Events, lists and restarts show it as well.
LEMMA InformerViewInv ==
  ASSUME TypeOK, InformerInv, ViewInv, NEW s \in Servers,
         Deliver(s) \/ Relist(s) \/ Restart(s)
  PROVE  ViewInv'
<1>1. UNCHANGED <<rv, store>>
  BY DEF Deliver, Relist, Restart, Receive, List
<1>2. \A t \in Servers \ {s} :
        /\ cache'[t] = cache[t] /\ watch'[t] = watch[t]
        /\ mutationCache'[t] = mutationCache[t]
  <2>1. Deliver(s) => cache' = [cache EXCEPT ![s] = cache'[s]]
    <3>1. \A e \in watch[s] : e.name \in CRDs
      BY DEF TypeOK, StorageTypeOK, Event
    <3>2. QED
      BY <3>1 DEF Deliver, Receive, TypeOK, StorageTypeOK
  <2>2. QED
    BY <2>1 DEF Deliver, Relist, Restart, Receive, List, TypeOK, StorageTypeOK
<1> SUFFICES ASSUME NEW k \in CRDs, store[k] # NoCRD, store[k].accepted # EmptyNames
             PROVE  /\ cache'[s][k] # NoCRD
                    /\ Newer(cache'[s][k], mutationCache'[s][k]).accepted = store[k].accepted
                    /\ \A e \in watch'[s] :
                         e.name = k =>
                           /\ e.obj # NoCRD
                           /\ Newer(e.obj, mutationCache'[s][k]).accepted = store[k].accepted
  BY <1>1, <1>2 DEF ViewInv, View
<1>3. CASE Deliver(s)
  <2>1. PICK e \in watch[s] : Receive(s, e) /\ UNCHANGED mutationCache
    BY <1>3 DEF Deliver
  <2>2. /\ watch'[s] \subseteq watch[s]
        /\ cache'[s][k] = IF k = e.name THEN e.obj ELSE cache[s][k]
    BY <2>1 DEF Receive, TypeOK, StorageTypeOK, Event
  <2>3. QED
    BY <2>1, <2>2 DEF ViewInv, View
<1>4. CASE Relist(s) \/ Restart(s)
  <2>1. cache'[s][k] = store[k] /\ watch'[s] = {}
    BY <1>4 DEF Relist, Restart, List, TypeOK, StorageTypeOK
  <2>2. mutationCache'[s][k] \in {mutationCache[s][k], NoCRD}
    BY <1>4 DEF Relist, Restart, TypeOK
  <2>3. Newer(store[k], mutationCache'[s][k]) = store[k]
    <3>1. store[k] \in CRD /\ mutationCache[s][k] \in CRD \cup {NoCRD}
      BY DEF TypeOK, StorageTypeOK
    <3>2. mutationCache[s][k] # NoCRD => mutationCache[s][k].rv <= store[k].rv
      BY DEF InformerInv, MutationInv
    <3>3. QED
      BY <2>2, <3>1, <3>2, NewerObject
  <2>4. QED
    BY <2>1, <2>3
<1>5. QED
  BY <1>3, <1>4

-----------------------------------------------------------------------------
(* Free names.                                                             *)

\* What a sync accepts is not accepted for another CRD of the group: a name
\* that is, is in use in the worker's view.
LEMMA SyncClaims ==
  ASSUME TypeOK, InformerInv, ViewInv, NamesUnique, NEW s \in Servers, NEW k \in CRDs,
         store[k] # NoCRD, cache[s][k] = store[k], NEW j \in Peers(k) \cap Live
  PROVE  Disjoint(AcceptableNames(s, store[k]), store[j].accepted)
<1> DEFINE accepted == AcceptableNames(s, store[k])
<1>1. store[k] \in CRD /\ store[k].name = k
  BY DEF TypeOK, StorageTypeOK, IsNamed
<1>2. store[j] \in CRD /\ store[j] # NoCRD /\ j \in CRDs /\ GroupOf[j] = GroupOf[k]
  BY DEF Peers, Live, TypeOK, StorageTypeOK
<1>3. k \in Live
  BY DEF Live
<1> SUFFICES ASSUME NEW space \in {ResourceFields, KindFields},
                    NEW f \in space, NEW g \in space,
                    NEW name \in accepted[f], name \in store[j].accepted[g]
             PROVE  FALSE
  BY DEF Disjoint, Claimed
<1>4. f \in NameFields /\ g \in NameFields /\ SpaceOf(f) = space
  BY DEF NameFields, SpaceOf, ResourceFields, KindFields
<1>5. CASE name \in store[k].accepted[f]
  <2>1. name \in Claimed(store[k].accepted, space) \cap Claimed(store[j].accepted, space)
    BY <1>5 DEF Claimed
  <2>2. QED
    BY <1>3, <2>1 DEF NamesUnique
<1>6. CASE name \notin store[k].accepted[f]
  <2>1. Conflicts(s, store[k], f) = {} /\ name \in store[k].names[f]
    BY <1>1, <1>4, <1>6, AcceptableNamesType
  <2>2. store[j].accepted # EmptyNames
    BY <1>4 DEF EmptyNames
  <2>3. cache[s][j] # NoCRD /\ View(s, j).accepted = store[j].accepted
    BY <1>2, <2>2 DEF ViewInv
  <2>4. name \in Claimed(View(s, j).accepted, space)
    BY <2>3 DEF Claimed
  <2>5. name \in AcceptedNamesForGroup(s, k, space)
    BY <1>2, <2>3, <2>4 DEF AcceptedNamesForGroup
  <2>6. QED
    BY <1>1, <1>4, <1>6, <2>1, <2>5 DEF Conflicts
<1>7. QED
  BY <1>5, <1>6

\* The empty names are free.
LEMMA EmptyNamesDisjoint ==
  ASSUME NEW names PROVE Disjoint(EmptyNames, names) /\ Disjoint(names, EmptyNames)
  BY DEF Disjoint, Claimed, EmptyNames, NameFields, ResourceFields, KindFields

\* A write of users or of other controllers takes no name.
LEMMA OthersClaimInv ==
  ASSUME TypeOK, InformerInv, ClaimInv, NamesUnique,
         NEW k \in CRDs, NEW obj \in CRD \cup {NoCRD}, Stores(k, obj), Keeps(k, obj),
         UNCHANGED worker
  PROVE  ClaimInv' /\ NamesUnique'
<1>1. /\ store'[k] = obj /\ (obj # NoCRD => obj.rv = rv + 1)
      /\ \A j \in CRDs \ {k} : store'[j] = store[j]
  BY StoresStore DEF TypeOK, Stores
<1>2. \A j \in CRDs : store'[j] # NoCRD =>
        \/ store'[j].accepted = EmptyNames
        \/ store[j] # NoCRD /\ store'[j].accepted = store[j].accepted
  BY <1>1 DEF Keeps
<1>3. ClaimInv'
  <2> SUFFICES ASSUME NEW s \in Servers, worker[s] # NoCRD, Current(worker[s])',
                      NEW j \in Peers(worker[s].name), store'[j] # NoCRD
               PROVE  Disjoint(worker[s].accepted, store'[j].accepted)
    BY DEF ClaimInv, Live, Peers
  <2>1. worker[s].name \in CRDs /\ worker[s].rv \in Nat /\ j \in CRDs /\ rv \in Nat
    BY DEF TypeOK, StorageTypeOK, CRD, Peers
  <2>2. worker[s].name # k
    BY <1>1, <2>1 DEF Current, InformerInv, WorkerInv
  <2>3. Current(worker[s])
    BY <1>1, <2>1, <2>2 DEF Current
  <2>4. QED
    BY <1>2, <2>1, <2>3, EmptyNamesDisjoint DEF ClaimInv, Live
<1>4. NamesUnique'
  <2> SUFFICES ASSUME NEW i \in CRDs, store'[i] # NoCRD, NEW j \in Peers(i), store'[j] # NoCRD
               PROVE  Disjoint(store'[i].accepted, store'[j].accepted)
    BY DEF NamesUnique, Disjoint, Live, Peers
  <2>1. j \in CRDs
    BY DEF Peers
  <2>2. store[i] # NoCRD /\ store[j] # NoCRD
          => Disjoint(store[i].accepted, store[j].accepted)
    BY <2>1 DEF NamesUnique, Disjoint, Live
  <2>3. QED
    BY <1>2, <2>1, <2>2, EmptyNamesDisjoint
<1>5. QED
  BY <1>3, <1>4

\* The worker takes the names it found free.
LEMMA WorkerNamesUnique ==
  ASSUME TypeOK, ClaimInv, NamesUnique, NEW s \in Servers, UpdateAccepted(s)
  PROVE  NamesUnique'
<1> DEFINE k == worker[s].name
<1>1. /\ k \in CRDs /\ Current(worker[s]) /\ worker[s] # NoCRD
      /\ \/ NothingStored
         \/ Stores(k, NoCRD)
         \/ \E new \in CRD : Stores(k, new) /\ new.accepted = worker[s].accepted
  BY WorkerWrites
<1>2. StorageTypeOK
  BY DEF TypeOK
<1>3. ASSUME NEW obj \in CRD \cup {NoCRD}, Stores(k, obj),
             obj # NoCRD => obj.accepted = worker[s].accepted
      PROVE  NamesUnique'
  <2>1. store'[k] = obj /\ \A j \in CRDs \ {k} : store'[j] = store[j]
    BY <1>1, <1>2, <1>3, StoresStore
  <2> SUFFICES ASSUME NEW i \in CRDs, store'[i] # NoCRD, NEW j \in Peers(i), store'[j] # NoCRD
               PROVE  Disjoint(store'[i].accepted, store'[j].accepted)
    BY DEF NamesUnique, Disjoint, Live, Peers
  <2>2. j \in CRDs /\ j # i /\ i \in Peers(j)
    BY DEF Peers
  <2>3. \A l \in Peers(k) : store[l] # NoCRD => Disjoint(worker[s].accepted, store[l].accepted)
    BY <1>1 DEF ClaimInv, Live, Peers
  <2>4. CASE i = k
    BY <1>3, <2>1, <2>2, <2>3, <2>4
  <2>5. CASE j = k
    <3>1. Disjoint(store'[j].accepted, store'[i].accepted)
      BY <1>3, <2>1, <2>2, <2>3, <2>5
    <3>2. QED
      BY <3>1 DEF Disjoint
  <2>6. CASE i # k /\ j # k
    BY <2>1, <2>2, <2>6 DEF NamesUnique, Disjoint, Live
  <2>7. QED
    BY <2>4, <2>5, <2>6
<1>4. CASE NothingStored
  BY <1>4 DEF NothingStored, NamesUnique, Live
<1>5. QED
  BY <1>1, <1>3, <1>4

-----------------------------------------------------------------------------
(* The theorems.                                                           *)

\* Steps that leave the store, or what this controller knows of it, alone.
LEMMA UnchangedViewInv ==
  ASSUME ViewInv, UNCHANGED <<store, cache, watch, mutationCache>>
  PROVE  ViewInv'
  BY DEF ViewInv, View

\* Forgetting an update in flight is harmless.
LEMMA UnchangedClaimInv ==
  ASSUME ClaimInv, NamesUnique, UNCHANGED store,
         \A s \in Servers : worker'[s] \in {worker[s], NoCRD}
  PROVE  ClaimInv' /\ NamesUnique'
  BY DEF ClaimInv, NamesUnique, Live, Current

\* ReservationInv is inductive when there is one worker.
LEMMA ReservationInvStep ==
  ASSUME OneWorker, TypeOK, ReservationInv, [Next]_vars
  PROVE  ReservationInv'
<1> USE DEF ReservationInv
<1>1. InformerInv'
  BY InformerInvStep
<1>2. ASSUME (UserNext /\ UNCHANGED <<controllerVars, faults>>) \/ OtherControllers
      PROVE  ViewInv' /\ ClaimInv' /\ NamesUnique'
  <2>1. UNCHANGED <<cache, mutationCache, worker>>
    BY <1>2, OthersWrite
  <2>2. CASE NothingStored
    BY <2>1, <2>2, UnchangedViewInv, UnchangedClaimInv DEF NothingStored
  <2>3. ASSUME NEW k \in CRDs, NEW obj \in CRD \cup {NoCRD}, Stores(k, obj), Keeps(k, obj)
        PROVE  ViewInv' /\ ClaimInv' /\ NamesUnique'
    BY <2>1, <2>3, OthersViewInv, OthersClaimInv
  <2>4. QED
    BY <1>2, <2>2, <2>3, OthersWrite
<1>3. ASSUME NEW s \in Servers, NEW k \in CRDs, Sync(s, k)
      PROVE  ViewInv' /\ ClaimInv' /\ NamesUnique'
  <2>1. UNCHANGED <<store, cache, watch, mutationCache>>
    BY <1>3 DEF Sync, SyncDeleted, SyncUpToDate, SyncUpdate, storageVars
  <2>2. ViewInv'
    BY <2>1, UnchangedViewInv
  <2>3. CASE UNCHANGED worker
    BY <2>1, <2>2, <2>3, UnchangedClaimInv
  <2>4. CASE SyncUpdate(s, k)
    <3> DEFINE in == cache[s][k]
    <3>1. in \in CRD /\ in # NoCRD /\ in.name = k
      BY <2>4 DEF SyncUpdate, TypeOK, StorageTypeOK, IsNamed
    <3>2. /\ WithStatus(s, in).name = k /\ WithStatus(s, in).rv = in.rv
          /\ WithStatus(s, in).accepted = AcceptableNames(s, in)
      BY <3>1, WithStatusType
    <3>3. worker'[s] = WithStatus(s, in)
      BY <2>4 DEF SyncUpdate, TypeOK
    <3>4. Current(WithStatus(s, in)) => store[k] # NoCRD /\ in = store[k]
      BY <3>1, <3>2 DEF Current, InformerInv, StoreInv, CacheInv
    <3> HIDE DEF in
    <3>5. Current(WithStatus(s, in)) =>
            \A j \in Peers(k) \cap Live : Disjoint(AcceptableNames(s, in), store[j].accepted)
      BY <3>4, SyncClaims DEF in
    <3>6. ClaimInv'
      BY <2>1, <3>2, <3>3, <3>5 DEF ClaimInv, OneWorker, Live, Current
    <3>7. QED
      BY <2>1, <2>2, <3>6 DEF NamesUnique, Live
  <2>5. QED
    BY <1>3, <2>3, <2>4 DEF Sync, SyncDeleted, SyncUpToDate
<1>4. ASSUME NEW s \in Servers, Answer(s)
      PROVE  ViewInv' /\ ClaimInv' /\ NamesUnique'
  <2>1. \A t \in Servers : worker'[t] = NoCRD
    BY <1>4 DEF Answer, UpdateAccepted, UpdateRefused, UpdateFailed, ResponseLost,
       Answered, OneWorker, TypeOK
  <2>2. CASE UpdateAccepted(s)
    <3>1. ViewInv' /\ NamesUnique'
      BY <2>2, WorkerViewInv, WorkerNamesUnique
    <3>2. QED
      BY <2>1, <3>1 DEF ClaimInv
  <2>3. CASE UpdateRefused(s) \/ UpdateFailed(s)
    <3>1. UNCHANGED <<store, cache, watch, mutationCache>>
      BY <2>3 DEF UpdateRefused, UpdateFailed, Answered
    <3>2. QED
      BY <2>1, <3>1, UnchangedViewInv, UnchangedClaimInv
  <2>4. ~ ResponseLost(s)
    BY DEF ResponseLost, OneWorker
  <2>5. QED
    BY <1>4, <2>2, <2>3, <2>4 DEF Answer
<1>5. ASSUME NEW s \in Servers, Deliver(s) \/ Relist(s) \/ Restart(s)
      PROVE  ViewInv' /\ ClaimInv' /\ NamesUnique'
  <2>1. UNCHANGED store
    BY <1>5 DEF Deliver, Relist, Restart, Receive, List
  <2>2. \A t \in Servers : worker'[t] \in {worker[t], NoCRD}
    BY <1>5 DEF Deliver, Relist, Restart, TypeOK
  <2>3. QED
    BY <1>5, <2>1, <2>2, InformerViewInv, UnchangedClaimInv
<1>6. ASSUME (\E s \in Servers : Resync(s)) \/ UNCHANGED vars
      PROVE  ViewInv' /\ ClaimInv' /\ NamesUnique'
  BY <1>6, UnchangedViewInv, UnchangedClaimInv DEF Resync, vars, storageVars, controllerVars
<1>7. QED
  BY <1>1, <1>2, <1>3, <1>4, <1>5, <1>6 DEF Next

\* Initially there are no names and no views.
LEMMA ReservationInvInit == Init => ReservationInv
  BY InformerInvInit DEF Init, StorageInit, ReservationInv, ViewInv, ClaimInv, NamesUnique, Live

\* The invariant behind uniqueness: the worker's view is exact about accepted
\* names and the names of an update in flight are free.
THEOREM ReservationInvariant == OneWorker => (Spec => []ReservationInv)
<1> SUFFICES ASSUME OneWorker PROVE Spec => []ReservationInv
  OBVIOUS
<1>1. TypeOK /\ ReservationInv /\ [Next]_vars => ReservationInv'
  BY ReservationInvStep
<1>2. QED
  BY <1>1, ReservationInvInit, TypeCorrect, PTL DEF Spec

\* No name is accepted for two CRDs of a group.
THEOREM UniqueNames == OneWorker => (Spec => []NamesUnique)
<1> SUFFICES ASSUME OneWorker PROVE Spec => []NamesUnique
  OBVIOUS
<1>1. ReservationInv => NamesUnique
  BY DEF ReservationInv
<1>2. QED
  BY <1>1, ReservationInvariant, PTL

\* Every step of the system is a step of the register of names or leaves it
\* alone.
THEOREM ReservationImplemented == OneWorker => (Spec => ReservesNames)
<1> SUFFICES ASSUME OneWorker PROVE Spec => ReservesNames
  OBVIOUS
<1>1. Init => Reservation!Init
  BY DEF Init, StorageInit, Reservation!Init, Reservation!Nothing, Reservation!Spaces, Held
<1>2. ASSUME TypeOK, TypeOK', NamesUnique', [Next]_vars
      PROVE  Reservation!Next \/ UNCHANGED Held
  <2>1. ASSUME NEW k \in CRDs, \A j \in CRDs \ {k} : store'[j] = store[j]
        PROVE  Reservation!Next
    <3>1. \A j \in CRDs \ {k} : Held'[j] = Held[j]
      BY <2>1 DEF Held
    <3>2. Held' = [Held EXCEPT ![k] = Held'[k]]
      <4>1. Held = [j \in CRDs |-> Held[j]] /\ Held' = [j \in CRDs |-> Held'[j]]
        BY DEF Held
      <4>2. QED
        BY <3>1, <4>1
    <3>3. Held'[k] \in [Reservation!Spaces -> SUBSET Names]
      <4>1. store'[k] # NoCRD => store'[k].accepted \in [NameFields -> SUBSET Names]
        BY <1>2 DEF TypeOK, StorageTypeOK, CRD, NameSet
      <4>2. \A space \in {ResourceFields, KindFields} :
              store'[k] # NoCRD => Claimed(store'[k].accepted, space) \subseteq Names
        BY <4>1 DEF Claimed, NameFields
      <4>3. QED
        BY <4>2 DEF Held, Reservation!Spaces
    <3>4. ASSUME NEW space \in Reservation!Spaces
          PROVE  Held'[k][space] \cap Reservation!HeldByOthers(k, space) = {}
      <4> SUFFICES ASSUME NEW j \in CRDs \ {k}, GroupOf[j] = GroupOf[k],
                          NEW name \in Held[j][space], name \in Held'[k][space]
                   PROVE  FALSE
        BY DEF Reservation!HeldByOthers
      <4>1. name \in Held'[j][space]
        BY <3>1
      <4>2. store'[j] # NoCRD /\ store'[k] # NoCRD
        <5>1. \A i \in CRDs : store'[i] = NoCRD => Held'[i] = [sp \in Reservation!Spaces |-> {}]
          BY DEF Held, Reservation!Spaces
        <5>2. QED
          BY <4>1, <5>1
      <4>3. \E fields \in {ResourceFields, KindFields} :
              name \in Claimed(store'[j].accepted, fields) \cap Claimed(store'[k].accepted, fields)
        BY <4>1, <4>2 DEF Held, Reservation!Spaces
      <4>4. QED
        BY <1>2, <4>2, <4>3 DEF NamesUnique, Peers, Live
    <3>5. QED
      BY <3>2, <3>3, <3>4 DEF Reservation!Next, Reservation!Reserve
  <2>2. CASE store' = store
    BY <2>2 DEF Held
  <2>3. ASSUME NEW k \in CRDs, NEW obj, Stores(k, obj)
        PROVE  Reservation!Next
    BY <1>2, <2>1, <2>3, StoresStore DEF TypeOK
  <2>4. ASSUME NEW s \in Servers, worker[s] # NoCRD
        PROVE  worker[s].name \in CRDs
    BY <1>2, <2>4 DEF TypeOK, CRD
  <2>5. QED
    BY <1>2, <2>2, <2>3, <2>4, StoreStep
<1>3. QED
  BY <1>1, <1>2, TypeCorrect, UniqueNames, PTL DEF Spec, ReservesNames, Reservation!Spec

=============================================================================
