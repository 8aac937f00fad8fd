-------------------- MODULE EstablishingController_proofs --------------------
(***************************************************************************)
(* Theorems about EstablishingController, for every number of CRDs, names, *)
(* servers and finalizers, and every bound on requests and faults: its     *)
(* types, that no established CRD has a webhook that cannot be called, and *)
(* that the system implements CRDLifecycle.                                *)
(***************************************************************************)
EXTENDS EstablishingController, CRDWriters_proofs

-----------------------------------------------------------------------------
(* The steps of the system, by what they do to the storage.                *)

\* Users and other controllers leave the webhook of an established CRD
\* callable, and take a step of its life.
LEMMA OthersWrite ==
  ASSUME TypeOK, (UserNext /\ UNCHANGED controllerVars) \/ OtherControllers
  PROVE  /\ UNCHANGED <<cache, controllerVars>>
         /\ StorageTypeOK'
         /\ [Lifecycle!Next]_Life
         /\ \/ NothingStored
            \/ \E k \in CRDs, obj \in CRD \cup {NoCRD} :
                 /\ Stores(k, obj)
                 /\ obj # NoCRD /\ (store[k] # NoCRD => BundleValid(store[k]))
                      => BundleValid(obj)
<1>1. StorageTypeOK
  BY DEF TypeOK
<1>2. CASE UserNext /\ UNCHANGED controllerVars
  <2>1. PICK k \in CRDs, obj \in CRD : Stores(k, obj) /\ Keeps(k, obj)
    BY <1>1, <1>2, UserNextStores
  <2>2. obj # NoCRD /\ (store[k] # NoCRD => BundleValid(store[k])) => BundleValid(obj)
    BY <2>1 DEF Keeps
  <2>3. QED
    BY <1>1, <1>2, <2>1, <2>2, UserNextType, UserNextLife
<1>3. CASE OtherControllers
  <2>1. PICK k \in CRDs : Name(k) \/ BeginFinalize(k) \/ Finalize(k) \/ RemoveFinalizer(k)
    BY <1>3 DEF OtherControllers
  <2>2. UNCHANGED <<cache, userWrites, controllerVars>>
    BY <1>3 DEF OtherControllers
  <2>3. \/ NothingStored
        \/ \E obj \in CRD \cup {NoCRD} :
             /\ Stores(k, obj)
             /\ obj # NoCRD /\ (store[k] # NoCRD => BundleValid(store[k]))
                  => BundleValid(obj)
    <3>1. CASE Name(k)
      <4>1. store[k] # NoCRD
        BY <3>1 DEF Name
      <4>2. QED
        BY <1>1, <3>1, <4>1, NameStores
    <3>2. CASE BeginFinalize(k) \/ Finalize(k) \/ RemoveFinalizer(k)
      BY <1>1, <3>2, WritersStore DEF Keeps
    <3>3. QED
      BY <2>1, <3>1, <3>2
  <2>4. StorageTypeOK'
    <3>1. userWrites' \in 0..MaxUserWrites
      BY <1>1, <2>2 DEF StorageTypeOK
    <3>2. CASE NothingStored
      BY <1>1, <2>2, <3>2 DEF NothingStored, StorageTypeOK, IsNamed
    <3>3. QED
      BY <1>1, <2>2, <2>3, <3>1, <3>2, StoresType
  <2>5. QED
    BY <1>1, <2>1, <2>2, <2>3, <2>4, WritersLife
<1>4. QED
  BY <1>2, <1>3

\* A request leaves the storage to the store, and its end frees the worker.
LEMMA AnswerWorker ==
  ASSUME TypeOK, NEW s \in Servers, Answer(s)
  PROVE  /\ worker[s] \in CRD /\ worker[s] # NoCRD /\ worker[s].name \in CRDs
         /\ UNCHANGED <<cache, userWrites>>
         /\ worker' = [worker EXCEPT ![s] = NoCRD]
         /\ \A t \in Servers : worker'[t] \in {worker[t], NoCRD}
         /\ \/ NothingStored
            \/ Current(worker[s]) /\ UpdateStatus(worker[s])
<1>1. /\ worker[s] \in CRD /\ worker[s] # NoCRD
      /\ UNCHANGED <<cache, userWrites>>
      /\ worker' = [worker EXCEPT ![s] = NoCRD]
      /\ worker \in [Servers -> CRD \cup {NoCRD}]
  BY DEF Answer, UpdateAccepted, UpdateRefused, UpdateFailed, ResponseLost, Answered, TypeOK
<1>2. worker[s].name \in CRDs
  BY <1>1 DEF CRD
<1>3. NothingStored \/ (Current(worker[s]) /\ UpdateStatus(worker[s]))
  BY DEF Answer, UpdateAccepted, UpdateRefused, UpdateFailed, ResponseLost, NothingStored
<1>4. QED
  BY <1>1, <1>2, <1>3

\* An accepted update establishes what is stored, if its webhook can be called.
LEMMA UpdateEstablishes ==
  ASSUME TypeOK, WorkerInv, EstablishedHasBundle,
         NEW s \in Servers, worker[s] # NoCRD, Current(worker[s]), UpdateStatus(worker[s])
  PROVE  /\ [Lifecycle!Next]_Life
         /\ \/ NothingStored
            \/ \E obj \in CRD \cup {NoCRD} :
                 Stores(worker[s].name, obj) /\ (obj # NoCRD => BundleValid(obj))
<1> DEFINE k == worker[s].name
           old == store[k]
<1>1. /\ worker[s] \in CRD /\ k \in CRDs
      /\ old \in CRD /\ old # NoCRD /\ old.name = k
      /\ ToEstablish(old) /\ worker[s] = WithEstablished(old)
  BY DEF TypeOK, StorageTypeOK, CRD, IsNamed, Current, WorkerInv
<1>2. /\ worker[s].deleting = old.deleting
      /\ IsCRDConditionTrue(worker[s], "Established") => ~ old.badBundle
      /\ LifeStep(LifeOf(old), LifeOf(worker[s]))
  BY <1>1, EstablishedLife
<1>3. StorageTypeOK
  BY DEF TypeOK
<1> HIDE DEF k, old
<1>4. [Lifecycle!Next]_Life
  BY <1>1, <1>2, <1>3, UpdateStatusLife DEF k, old
<1>5. \/ NothingStored
      \/ Stores(k, NoCRD)
      \/ \E obj \in CRD : /\ Stores(k, obj)
                          /\ obj.badBundle = old.badBundle
                          /\ obj.conditions = worker[s].conditions
  BY <1>1, <1>3, UpdateStatusStores DEF k, old
<1>6. QED
  BY <1>2, <1>4, <1>5 DEF k, BundleValid, IsCRDConditionTrue, FindCRDCondition

-----------------------------------------------------------------------------
(* Type correctness.                                                       *)

\* The types of the storage and the controller are an invariant.
LEMMA NextType ==
  ASSUME TypeOK, [Next]_vars
  PROVE  TypeOK'
<1>1. StorageTypeOK /\ MaxFaults \in Nat
  BY EstablishingAssumption DEF TypeOK
<1>2. CASE (UserNext /\ UNCHANGED controllerVars) \/ OtherControllers
  BY <1>2, OthersWrite DEF TypeOK, controllerVars
<1>3. ASSUME NEW s \in Servers, NEW k \in CRDs, Sync(s, k)
      PROVE  TypeOK'
  <2>1. StorageTypeOK'
    BY <1>1, <1>3 DEF Sync, storageVars, StorageTypeOK, IsNamed
  <2>2. worker' \in [Servers -> CRD \cup {NoCRD}]
    <3>1. cache[s][k] # NoCRD => cache[s][k] \in CRD
      BY <1>1 DEF StorageTypeOK
    <3>2. cache[s][k] # NoCRD /\ ToEstablish(cache[s][k])
            => WithEstablished(cache[s][k]) \in CRD
      BY <3>1, EstablishedLife
    <3>3. QED
      BY <1>3, <3>2 DEF Sync, TypeOK
  <2>3. QED
    BY <1>3, <2>1, <2>2 DEF Sync, TypeOK
<1>4. ASSUME NEW s \in Servers, Answer(s)
      PROVE  TypeOK'
  <2>1. StorageTypeOK'
    <3>1. CASE NothingStored
      BY <1>1, <1>4, <3>1, AnswerWorker DEF NothingStored, StorageTypeOK, IsNamed
    <3>2. CASE Current(worker[s]) /\ UpdateStatus(worker[s])
      BY <1>1, <1>4, <3>2, AnswerWorker, UpdateStatusType DEF Current
    <3>3. QED
      BY <1>4, <3>1, <3>2, AnswerWorker
  <2>2. worker' \in [Servers -> CRD \cup {NoCRD}] /\ worker[s].name \in CRDs
    BY <1>4, AnswerWorker DEF TypeOK
  <2>3. faults' \in 0..MaxFaults
    BY <1>1, <1>4 DEF Answer, UpdateAccepted, UpdateRefused, UpdateFailed, ResponseLost,
       Fault, TypeOK
  <2>4. queue' \in [Servers -> SUBSET CRDs]
    BY <1>4, <2>2 DEF Answer, UpdateAccepted, UpdateRefused, UpdateFailed, ResponseLost,
       Requeue, TypeOK
  <2>5. QED
    BY <2>1, <2>2, <2>3, <2>4 DEF TypeOK
<1>5. ASSUME NEW s \in Servers, Deliver(s) \/ Resync(s) \/ Relist(s) \/ Restart(s)
      PROVE  TypeOK'
  <2>1. StorageTypeOK'
    BY <1>1, <1>5, InformerType DEF Deliver, Resync, Relist, Restart, storageVars,
       StorageTypeOK, IsNamed
  <2>2. queue' \in [Servers -> SUBSET CRDs]
    <3>1. \A e \in watch[s] : e.name \in CRDs
      BY <1>1 DEF StorageTypeOK, Event
    <3>2. Changed(s) \subseteq CRDs
      BY DEF Changed
    <3>3. QED
      BY <1>5, <3>1, <3>2 DEF TypeOK, Deliver, Resync, Relist, Restart
  <2>3. worker' \in [Servers -> CRD \cup {NoCRD}] /\ faults' \in 0..MaxFaults
    BY <1>1, <1>5 DEF TypeOK, Deliver, Resync, Relist, Restart, Fault
  <2>4. QED
    BY <2>1, <2>2, <2>3 DEF TypeOK
<1>6. CASE UNCHANGED vars
  BY <1>6 DEF vars, storageVars, controllerVars, TypeOK, StorageTypeOK, IsNamed
<1>7. QED
  BY <1>2, <1>3, <1>4, <1>5, <1>6 DEF Next

\* They hold initially.
LEMMA InitType == Init => TypeOK
  BY StorageAssumption, EstablishingAssumption DEF Init, StorageInit, TypeOK,
     StorageTypeOK, IsNamed

\* The establishing controller's state has its types, whatever the other
\* writers of CRDs and the faults do.
THEOREM TypeCorrect == Spec => []TypeOK
<1>1. TypeOK /\ [Next]_vars => TypeOK'
  BY NextType
<1>2. QED
  BY <1>1, InitType, PTL DEF Spec

-----------------------------------------------------------------------------
(* The webhook of an established CRD can be called.                         *)

\* The versions of objects, the updates in flight and the webhooks.
BundleInv == StoreInv /\ WorkerInv /\ EstablishedHasBundle

\* A write makes every update in flight for its object obsolete.
LEMMA StoresWorkerInv ==
  ASSUME TypeOK, BundleInv, NEW k \in CRDs, NEW obj, Stores(k, obj), UNCHANGED cache,
         obj # NoCRD => BundleValid(obj),
         \A s \in Servers : worker'[s] \in {worker[s], NoCRD}
  PROVE  BundleInv'
<1> USE DEF BundleInv
<1>1. /\ StorageTypeOK /\ rv \in Nat /\ rv' = rv + 1
      /\ store'[k] = obj /\ (obj # NoCRD => obj.rv = rv + 1)
      /\ \A j \in CRDs \ {k} : store'[j] = store[j]
  BY StoresStore DEF TypeOK, StorageTypeOK, Stores
<1>2. \A s \in Servers :
        worker[s] # NoCRD => worker[s].rv \in Nat /\ worker[s].name \in CRDs
  BY DEF TypeOK, CRD
<1>3. WorkerInv'
  <2> SUFFICES ASSUME NEW s \in Servers, worker'[s] # NoCRD
               PROVE  /\ worker'[s] = worker[s]
                      /\ worker[s].rv <= rv'
                      /\ Current(worker[s])' =>
                           /\ Current(worker[s])
                           /\ store'[worker[s].name] = store[worker[s].name]
    BY DEF WorkerInv
  <2>1. worker'[s] = worker[s] /\ worker[s].rv <= rv
    BY DEF WorkerInv
  <2>2. Current(worker[s])' => worker[s].name # k
    BY <1>1, <1>2, <2>1 DEF Current
  <2>3. QED
    BY <1>1, <1>2, <2>1, <2>2 DEF Current
<1>4. EstablishedHasBundle'
  <2> SUFFICES ASSUME NEW j \in CRDs, store'[j] # NoCRD
               PROVE  BundleValid(store'[j])
    BY DEF EstablishedHasBundle, Live, BundleValid
  <2>1. CASE j = k
    BY <1>1, <2>1
  <2>2. CASE j # k
    BY <1>1, <2>2 DEF EstablishedHasBundle, Live
  <2>3. QED
    BY <2>1, <2>2
<1>5. QED
  BY <1>1, <1>3, <1>4, StoresStoreInv

\* The update of a sync is computed from the stored object or will be refused.
LEMMA SyncWorkerInv ==
  ASSUME TypeOK, StoreInv, WorkerInv, NEW s \in Servers, NEW k \in CRDs, Sync(s, k)
  PROVE  WorkerInv'
<1> DEFINE in  == cache[s][k]
           new == WithEstablished(in)
<1>1. worker \in [Servers -> CRD \cup {NoCRD}] /\ UNCHANGED <<rv, store>>
  BY DEF TypeOK, Sync, storageVars
<1>2. \A crd : Current(crd)' <=> Current(crd)
  BY <1>1 DEF Current
<1>3. CASE in # NoCRD /\ ToEstablish(in)
  <2>1. in \in CRD /\ in.name = k /\ in.rv <= rv
    BY <1>3 DEF TypeOK, StorageTypeOK, IsNamed, StoreInv, VersionInv
  <2>2. new.rv = in.rv /\ new.name = k
    BY <1>3, <2>1, EstablishedLife
  <2>3. Current(new) => in = store[k]
    BY <1>3, <2>1, <2>2 DEF Current, StoreInv, CacheInv
  <2>4. worker' = [worker EXCEPT ![s] = new]
    BY <1>3 DEF Sync
  <2> HIDE DEF new, in
  <2>5. \A t \in Servers : worker'[t] = IF t = s THEN new ELSE worker[t]
    BY <1>1, <2>4
  <2>6. new.rv <= rv /\ (Current(new) => ToEstablish(store[k]) /\ new = WithEstablished(store[k]))
    BY <1>3, <2>1, <2>2, <2>3 DEF new
  <2>7. QED
    BY <1>1, <1>2, <2>2, <2>5, <2>6 DEF WorkerInv
<1>4. CASE ~ (in # NoCRD /\ ToEstablish(in))
  <2>1. worker' = [worker EXCEPT ![s] = NoCRD]
    BY <1>4 DEF Sync
  <2>2. \A t \in Servers : worker'[t] \in {worker[t], NoCRD}
    BY <1>1, <2>1
  <2>3. QED
    BY <1>1, <1>2, <2>2 DEF WorkerInv
<1>5. QED
  BY <1>3, <1>4

\* BundleInv is inductive.
LEMMA NextBundleInv ==
  ASSUME TypeOK, BundleInv, [Next]_vars
  PROVE  BundleInv'
<1> USE DEF BundleInv
<1>1. StorageTypeOK /\ worker \in [Servers -> CRD \cup {NoCRD}]
  BY DEF TypeOK
<1>2. ASSUME UNCHANGED <<rv, store, watch, cache>>,
             \A s \in Servers : worker'[s] \in {worker[s], NoCRD}
      PROVE  BundleInv'
  <2>1. StoreInv' /\ EstablishedHasBundle'
    BY <1>2 DEF StoreInv, VersionInv, CacheInv, EventsDistinct, Live,
       EstablishedHasBundle, BundleValid
  <2>2. WorkerInv'
    BY <1>2 DEF WorkerInv, Current
  <2>3. QED
    BY <2>1, <2>2
<1>3. CASE (UserNext /\ UNCHANGED controllerVars) \/ OtherControllers
  <2>1. UNCHANGED cache /\ \A s \in Servers : worker'[s] \in {worker[s], NoCRD}
    BY <1>3, OthersWrite DEF controllerVars
  <2>2. CASE NothingStored
    BY <1>2, <2>1, <2>2 DEF NothingStored
  <2>3. CASE ~ NothingStored
    <3>1. PICK k \in CRDs, obj \in CRD \cup {NoCRD} :
            /\ Stores(k, obj)
            /\ obj # NoCRD /\ (store[k] # NoCRD => BundleValid(store[k])) => BundleValid(obj)
      BY <1>3, <2>3, OthersWrite
    <3>2. store[k] # NoCRD => BundleValid(store[k])
      BY DEF EstablishedHasBundle, Live
    <3>3. QED
      BY <2>1, <3>1, <3>2, StoresWorkerInv
  <2>4. QED
    BY <2>2, <2>3
<1>4. ASSUME NEW s \in Servers, NEW k \in CRDs, Sync(s, k)
      PROVE  BundleInv'
  <2>1. UNCHANGED <<rv, store, watch, cache>>
    BY <1>4 DEF Sync, storageVars
  <2>2. StoreInv' /\ EstablishedHasBundle'
    BY <2>1 DEF StoreInv, VersionInv, CacheInv, EventsDistinct, Live,
       EstablishedHasBundle, BundleValid
  <2>3. QED
    BY <1>4, <2>2, SyncWorkerInv
<1>5. ASSUME NEW s \in Servers, Answer(s)
      PROVE  BundleInv'
  <2>1. CASE NothingStored
    BY <1>2, <1>5, <2>1, AnswerWorker DEF NothingStored
  <2>2. CASE ~ NothingStored
    <3>1. PICK obj \in CRD \cup {NoCRD} :
            Stores(worker[s].name, obj) /\ (obj # NoCRD => BundleValid(obj))
      BY <1>5, <2>2, AnswerWorker, UpdateEstablishes
    <3>2. QED
      BY <1>5, <3>1, AnswerWorker, StoresWorkerInv
  <2>3. QED
    BY <2>1, <2>2
<1>6. ASSUME NEW s \in Servers, Deliver(s) \/ Relist(s) \/ Restart(s)
      PROVE  BundleInv'
  <2>1. (\E e \in watch[s] : Receive(s, e)) \/ List(s)
    BY <1>6 DEF Deliver, Relist, Restart
  <2>2. UNCHANGED <<rv, store>>
    BY <2>1 DEF Receive, List
  <2>3. \A t \in Servers : worker'[t] \in {worker[t], NoCRD}
    BY <1>1, <1>6 DEF Deliver, Relist, Restart
  <2>4. StoreInv'
    BY <1>1, <2>1, InformerStoreInv
  <2>5. WorkerInv'
    BY <2>2, <2>3 DEF WorkerInv, Current
  <2>6. EstablishedHasBundle'
    BY <2>2 DEF EstablishedHasBundle, Live, BundleValid
  <2>7. QED
    BY <2>4, <2>5, <2>6
<1>7. CASE UNCHANGED vars \/ \E s \in Servers : Resync(s)
  BY <1>2, <1>7 DEF vars, storageVars, controllerVars, Resync
<1>8. QED
  BY <1>3, <1>4, <1>5, <1>6, <1>7 DEF Next

\* It holds when nothing is stored.
LEMMA InitBundleInv == Init => BundleInv
  BY DEF Init, StorageInit, BundleInv, StoreInv, VersionInv, CacheInv, EventsDistinct,
     Live, WorkerInv, EstablishedHasBundle

\* No established CRD has a webhook that cannot be called, although the
\* controller looks at the webhook in a cached object, which users change
\* before its update is stored.
THEOREM BundlesCallable == Spec => []EstablishedHasBundle
<1>1. TypeOK /\ [Next]_vars => TypeOK'
  BY NextType
<1>2. TypeOK /\ BundleInv /\ [Next]_vars => BundleInv'
  BY NextBundleInv
<1>3. BundleInv => EstablishedHasBundle
  BY DEF BundleInv
<1>4. QED
  BY <1>1, <1>2, <1>3, InitType, InitBundleInv, PTL DEF Spec

-----------------------------------------------------------------------------
(* The abstract specification.                                             *)

\* Every step is a step of the life of a CRD, or none.
LEMMA NextLife ==
  ASSUME TypeOK, BundleInv, [Next]_vars
  PROVE  [Lifecycle!Next]_Life
<1>1. CASE UNCHANGED store
  BY <1>1 DEF Life
<1>2. CASE (UserNext /\ UNCHANGED controllerVars) \/ OtherControllers
  BY <1>2, OthersWrite
<1>3. ASSUME NEW s \in Servers, Answer(s)
      PROVE  [Lifecycle!Next]_Life
  <2>1. CASE NothingStored
    BY <1>1, <2>1 DEF NothingStored
  <2>2. CASE Current(worker[s]) /\ UpdateStatus(worker[s])
    BY <1>3, <2>2, AnswerWorker, UpdateEstablishes DEF BundleInv
  <2>3. QED
    BY <1>3, <2>1, <2>2, AnswerWorker
<1>4. ASSUME NEW s \in Servers,
             Deliver(s) \/ Resync(s) \/ Relist(s) \/ Restart(s) \/ \E k \in CRDs : Sync(s, k)
      PROVE  UNCHANGED store
  BY <1>4 DEF Deliver, Resync, Relist, Restart, Sync, Receive, List, storageVars
<1>5. CASE UNCHANGED vars
  BY <1>1, <1>5 DEF vars, storageVars
<1>6. QED
  BY <1>1, <1>2, <1>3, <1>4, <1>5 DEF Next

\* The system implements CRDLifecycle: whatever the controllers read, a CRD
\* is established only when the stored names are accepted, is removed only
\* when it was deleted, and does not lose what it was before.
THEOREM ImplementsLifecycle == Spec => FollowsLifecycle
<1>1. Init => Lifecycle!Init
  BY DEF Init, StorageInit, Lifecycle!Init, Life, LifeOf
<1>2. TypeOK /\ [Next]_vars => TypeOK'
  BY NextType
<1>3. TypeOK /\ BundleInv /\ [Next]_vars => BundleInv' /\ [Lifecycle!Next]_Life
  BY NextBundleInv, NextLife
<1>4. QED
  BY <1>1, <1>2, <1>3, InitType, InitBundleInv, PTL
     DEF Spec, FollowsLifecycle, Lifecycle!Spec

=============================================================================
