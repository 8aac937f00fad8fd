------------------------ MODULE CRDFinalizer_proofs ------------------------
(***************************************************************************)
(* Theorems about CRDFinalizer, for every number of servers, CRDs and      *)
(* namespaces, and every bound on creates and faults: its types; that the  *)
(* cleanup never touches the instances of a built-in resource; that it     *)
(* leaves none of those it is responsible for, under a CRD that stays      *)
(* marked; that the system implements CRDLifecycle; and that on one server *)
(* the instances of a CRD that is not deleted are left alone.              *)
(***************************************************************************)
EXTENDS CRDFinalizer, CRDWriters_proofs

\* The typed state and the tasks, which are proved together.
TypeInv == TypeOK /\ TaskInv

\* The initial state is typed and has no task.
LEMMA InitTypeInv == Init => TypeInv
<1> SUFFICES ASSUME Init PROVE TypeInv
  OBVIOUS
<1>1. StorageTypeOK
  BY StorageAssumption DEF Init, StorageInit, StorageTypeOK, IsNamed
<1>2. Idle \in Task /\ NoInstance \in Instance
  BY DEF Idle, At, Task, Steps, NoInstance, Instance
<1>3. TypeOK
  BY <1>1, <1>2, FinalizerAssumption DEF Init, TypeOK
<1>4. TaskInv
  BY DEF Init, TaskInv, Idle, At
<1>5. QED
  BY <1>3, <1>4 DEF TypeInv

\* What a task may be.
TaskOf(t, k) ==
  /\ t \in Task
  /\ t.step # "idle" => t.crd # NoCRD /\ t.crd.name = k
  /\ t.step \notin {"idle", "finish"} => ToFinalize(t.crd)

\* The state of the tasks is that of each.
LEMMA TasksOf ==
  TypeOK /\ TaskInv <=> /\ TypeOK
                        /\ \A s \in Servers, k \in CRDs : TaskOf(task[s][k], k)
  BY DEF TypeOK, TaskInv, TaskOf

\* Setting the Terminating condition leaves the rest of a CRD.
LEMMA WithTerminatingType ==
  ASSUME NEW crd \in CRD, NEW status \in {"True", "False"}, NEW reason \in Reasons
  PROVE  LET new == WithTerminating(crd, status, reason)
         IN  /\ new \in CRD /\ new.name = crd.name
             /\ new.deleting = crd.deleting /\ new.finalizers = crd.finalizers
  BY SetConditionType, ConditionType
     DEF WithTerminating, SetCRDCondition, ConditionTypes, CRD

\* The tasks that the operators build.
LEMMA AtTask ==
  ASSUME NEW crd \in CRD, NEW step \in Steps
  PROVE  /\ At(step, crd) \in Task
         /\ At(step, crd).step = step /\ At(step, crd).crd = crd
  BY DEF At, Task

LEMMA FinishingTask ==
  ASSUME NEW crd \in CRD, NEW reason \in Reasons
  PROVE  TaskOf(Finishing(crd, reason), crd.name) /\ Finishing(crd, reason).step = "finish"
<1> DEFINE new == WithTerminating(crd, "False", reason)
           released == CRDRemoveFinalizer(new, CleanupFinalizer)
<1>1. new \in CRD /\ new.name = crd.name
  BY WithTerminatingType
<1> HIDE DEF new
<1>2. released \in CRD /\ released.name = crd.name
  BY <1>1 DEF CRDRemoveFinalizer, CRD
<1>3. Finishing(crd, reason) = At("finish", released)
  BY DEF Finishing, new
<1> HIDE DEF released
<1>4. released # NoCRD
  BY <1>2, ConstantsAssumption
<1>5. QED
  BY <1>2, <1>3, <1>4, AtTask DEF TaskOf, Steps

LEMMA FailingTask ==
  ASSUME NEW crd \in CRD, ToFinalize(crd), NEW reason \in Reasons
  PROVE  TaskOf(Failing(crd, reason), crd.name) /\ Failing(crd, reason).step = "fail"
<1> DEFINE new == WithTerminating(crd, "True", reason)
<1>1. new \in CRD /\ new.name = crd.name /\ ToFinalize(new)
  BY WithTerminatingType DEF ToFinalize, CRDHasFinalizer
<1>2. Failing(crd, reason) = At("fail", new)
  BY DEF Failing
<1> HIDE DEF new
<1>3. QED
  BY <1>1, <1>2, AtTask, ConstantsAssumption DEF TaskOf, Steps

LEMMA AnnouncedTask ==
  ASSUME NEW crd \in CRD, ToFinalize(crd)
  PROVE  /\ TaskOf(Announced(crd), crd.name)
         /\ crd.name \in Overlapping => Announced(crd).step = "finish"
<1>1. TaskOf(At("list", crd), crd.name)
  BY AtTask, ConstantsAssumption DEF TaskOf, Steps
<1>2. QED
  BY <1>1, FinishingTask DEF Announced, Reasons

LEMMA DeletingTask ==
  ASSUME NEW crd \in CRD, ToFinalize(crd), NEW todo \in SUBSET Namespaces,
         NEW failed \in BOOLEAN
  PROVE  TaskOf(Deleting(crd, todo, failed), crd.name)
<1>1. TaskOf(At("poll", crd), crd.name)
  BY AtTask, ConstantsAssumption DEF TaskOf, Steps
<1>2. TaskOf([At("delete", crd) EXCEPT !.todo = todo, !.failed = failed], crd.name)
  BY ConstantsAssumption DEF At, TaskOf, Task, Steps
<1>3. QED
  BY <1>1, <1>2, FailingTask DEF Deleting, Reasons

LEMMA IdleTask ==
  ASSUME NEW k \in CRDs
  PROVE  TaskOf(Idle, k) /\ Idle.step = "idle"
  BY DEF Idle, At, TaskOf, Task, Steps

\* One task changes.
LEMMA SetTaskType ==
  ASSUME TypeInv, NEW s \in Servers, NEW k \in CRDs, NEW t, TaskOf(t, k), SetTask(s, k, t)
  PROVE  /\ task' \in [Servers -> [CRDs -> Task]]
         /\ TaskInv'
         /\ task'[s][k] = t
         /\ \A u \in Servers, j \in CRDs : u # s \/ j # k => task'[u][j] = task[u][j]
<1>1. /\ task' \in [Servers -> [CRDs -> Task]]
      /\ task'[s][k] = t
      /\ \A u \in Servers, j \in CRDs : u # s \/ j # k => task'[u][j] = task[u][j]
  BY DEF TypeInv, TypeOK, TaskOf, SetTask
<1>2. TaskInv'
  BY <1>1 DEF TypeInv, TaskInv, TaskOf
<1>3. QED
  BY <1>1, <1>2

LEMMA EnqueueType ==
  ASSUME TypeOK, NEW s \in Servers, NEW k \in CRDs, Enqueue(s, k)
  PROVE  queue' \in [Servers -> SUBSET CRDs]
  BY DEF TypeOK, Enqueue

LEMMA FaultType ==
  ASSUME TypeOK, Fault
  PROVE  faults' \in 0..MaxFaults
  BY FinalizerAssumption DEF TypeOK, Fault

\* The store still has a CRD to finalize after a status update of one.
LEMMA UpdateStatusKeeps ==
  ASSUME StorageTypeOK, NEW crd \in CRD, store[crd.name] # NoCRD, ToFinalize(crd),
         UpdateStatus(crd)
  PROVE  /\ store'[crd.name] \in CRD /\ store'[crd.name].name = crd.name
         /\ ToFinalize(store'[crd.name])
<1> DEFINE new == [crd EXCEPT !.names = store[crd.name].names,
                              !.badBundle = store[crd.name].badBundle]
<1>1. crd.name \in CRDs /\ store[crd.name] \in CRD
  BY DEF CRD, StorageTypeOK
<1>2. new \in CRD /\ new.name = crd.name /\ ToFinalize(new)
  BY <1>1 DEF CRD, ToFinalize, CRDHasFinalizer
<1>3. (new = store[crd.name] /\ UNCHANGED store) \/ Put(crd.name, new)
  BY <1>2 DEF UpdateStatus, ToFinalize, CRDHasFinalizer
<1> HIDE DEF new
<1>4. CASE new = store[crd.name] /\ UNCHANGED store
  BY <1>2, <1>4
<1>5. CASE Put(crd.name, new)
  <2> DEFINE stored == [new EXCEPT !.rv = rv + 1]
  <2>1. stored \in CRD /\ stored.name = crd.name /\ ToFinalize(stored)
    BY <1>2 DEF CRD, ToFinalize, CRDHasFinalizer, StorageTypeOK
  <2>2. store'[crd.name] = stored
    BY <1>1, <1>5 DEF Put, Write, StorageTypeOK
  <2>3. QED
    BY <2>1, <2>2
<1>6. QED
  BY <1>3, <1>4, <1>5

-----------------------------------------------------------------------------
(* Type correctness.                                                       *)

\* A sync keeps the types: one step for each of its actions.
LEMMA SyncType ==
  ASSUME TypeInv, NEW s \in Servers, NEW k \in CRDs, Sync(s, k)
  PROVE  TypeInv'
<1> DEFINE t == task[s][k]
<1>1. /\ TypeOK /\ TaskInv /\ StorageTypeOK /\ TaskOf(t, k)
      /\ cache[s][k] \in CRD \cup {NoCRD} /\ IsNamed(cache[s][k], k)
  BY TasksOf DEF TypeInv, TypeOK, StorageTypeOK
<1>2. t.step # "idle" => t.crd \in CRD /\ t.crd.name = k
  BY <1>1 DEF TaskOf, Task
<1>3. CASE Begin(s, k)
  <2> DEFINE crd == cache[s][k]
             new == WithTerminating(crd, "True", "InstanceDeletionInProgress")
  <2>1. ASSUME crd # NoCRD, ToFinalize(crd)
        PROVE  TaskOf(At("begin", new), k)
    <3>1. crd \in CRD /\ crd.name = k
      BY <1>1, <2>1 DEF IsNamed
    <3>2. new \in CRD /\ new.name = k /\ ToFinalize(new)
      BY <2>1, <3>1, WithTerminatingType DEF Reasons, ToFinalize, CRDHasFinalizer
    <3> HIDE DEF new
    <3>3. QED
      BY <3>2, AtTask, ConstantsAssumption DEF TaskOf, Steps
  <2>2. PICK u : TaskOf(u, k) /\ SetTask(s, k, u)
    BY <1>3, <2>1, IdleTask DEF Begin
  <2>3. queue' \in [Servers -> SUBSET CRDs]
    BY <1>1, <1>3 DEF Begin, TypeOK
  <2>4. QED
    BY <1>1, <1>3, <2>2, <2>3, SetTaskType DEF Begin, TypeInv, TypeOK, StorageTypeOK,
       storageVars, instanceVars
<1>4. CASE UpdateAccepted(s, k)
  <2>1. /\ t.crd \in CRD /\ t.crd.name = k /\ store[k] # NoCRD
        /\ UpdateStatus(t.crd) /\ t.step \in {"begin", "fail", "finish"}
        /\ UNCHANGED <<cache, userWrites, instanceVars, faults>>
    BY <1>2, <1>4 DEF UpdateAccepted, Updating, Current
  <2>2. StorageTypeOK'
    BY <1>1, <2>1, UpdateStatusType
  <2>3. t.step = "begin" => TaskOf(Announced(store'[k]), k)
    BY <1>1, <2>1, UpdateStatusKeeps, AnnouncedTask DEF TaskOf
  <2>4. PICK u : TaskOf(u, k) /\ SetTask(s, k, u)
    BY <1>4, <2>3, IdleTask DEF UpdateAccepted
  <2>5. queue' \in [Servers -> SUBSET CRDs]
    BY <1>1, <1>4, EnqueueType DEF UpdateAccepted, TypeOK
  <2>6. QED
    BY <1>1, <2>1, <2>2, <2>4, <2>5, SetTaskType DEF TypeInv, TypeOK, instanceVars
<1>5. CASE UpdateRefused(s, k)
  <2>1. queue' \in [Servers -> SUBSET CRDs]
    BY <1>1, <1>5, EnqueueType DEF UpdateRefused, TypeOK
  <2>2. QED
    BY <1>1, <1>5, <2>1, IdleTask, SetTaskType DEF UpdateRefused, Updating, TypeInv, TypeOK,
       StorageTypeOK, instanceVars
<1>6. CASE UpdateFailed(s, k)
  <2>1. /\ t.crd \in CRD /\ t.crd.name = k
        /\ UNCHANGED <<cache, userWrites>> /\ UNCHANGED instanceVars
    BY <1>2, <1>6 DEF UpdateFailed, Updating
  <2>2. ASSUME UNCHANGED <<rv, store, watch>>
        PROVE  StorageTypeOK'
    BY <1>1, <2>1, <2>2 DEF StorageTypeOK, IsNamed
  <2>3. ASSUME Current(t.crd), UpdateStatus(t.crd)
        PROVE  StorageTypeOK'
    BY <1>1, <2>1, <2>3, UpdateStatusType DEF Current
  <2>4. StorageTypeOK'
    BY <1>6, <2>2, <2>3 DEF UpdateFailed
  <2>5. QED
    BY <1>1, <1>6, <2>1, <2>4, IdleTask, SetTaskType, EnqueueType, FaultType
       DEF UpdateFailed, TypeInv, TypeOK, instanceVars
<1>7. ASSUME NEW step \in {"list", "delete", "poll"}, Cleaning(s, k, step),
             NEW u, TaskOf(u, k), SetTask(s, k, u),
             faults' \in 0..MaxFaults,
             instances' \in [CRDs -> [Namespaces -> Instance]]
      PROVE  TypeInv'
  BY <1>1, <1>7, SetTaskType DEF Cleaning, TypeInv, TypeOK, StorageTypeOK, storageVars
<1>8. ASSUME NEW step \in {"list", "delete", "poll"}, Cleaning(s, k, step)
      PROVE  /\ t.crd \in CRD /\ t.crd.name = k /\ ToFinalize(t.crd)
             /\ t.todo \in SUBSET Namespaces /\ t.failed \in BOOLEAN
  BY <1>1, <1>2, <1>8 DEF Cleaning, TaskOf, Task
<1>9. CASE ListInstances(s, k)
  <2>1. Cleaning(s, k, "list") /\ UNCHANGED instances
    BY <1>9 DEF ListInstances
  <2>2. /\ TaskOf(Deleting(t.crd, Present(k), FALSE), k)
        /\ TaskOf(Failing(t.crd, "InstanceDeletionFailed"), k)
    BY <1>8, <2>1, DeletingTask, FailingTask DEF Present, Reasons
  <2>3. PICK u : TaskOf(u, k) /\ SetTask(s, k, u)
    BY <1>9, <2>2 DEF ListInstances
  <2>4. faults' \in 0..MaxFaults
    BY <1>1, <1>9, FaultType DEF ListInstances, TypeOK
  <2>5. QED
    BY <1>1, <1>7, <2>1, <2>3, <2>4 DEF TypeOK
<1>10. ASSUME NEW n \in Namespaces, DeleteCollection(s, k, n)
       PROVE  TypeInv'
  <2>1. Cleaning(s, k, "delete")
    BY <1>10 DEF DeleteCollection
  <2>2. \A failed \in BOOLEAN : TaskOf(Deleting(t.crd, t.todo \ {n}, failed), k)
    BY <1>8, <2>1, DeletingTask
  <2>3. PICK u : TaskOf(u, k) /\ SetTask(s, k, u)
    BY <1>8, <1>10, <2>1, <2>2 DEF DeleteCollection
  <2>4. \A i \in Instance : Deleted(i) \in Instance
    BY DEF Deleted, Instance, NoInstance
  <2>5. instances' \in [CRDs -> [Namespaces -> Instance]]
    <3>1. instances \in [CRDs -> [Namespaces -> Instance]]
      BY <1>1 DEF TypeOK
    <3>2. \/ UNCHANGED instances
          \/ instances' = [instances EXCEPT ![k][n] = Deleted(@)]
      BY <1>10 DEF DeleteCollection
    <3>3. QED
      BY <2>4, <3>1, <3>2
  <2>6. faults' \in 0..MaxFaults
    BY <1>1, <1>10, FaultType DEF DeleteCollection, TypeOK
  <2>7. QED
    BY <1>7, <2>1, <2>3, <2>5, <2>6
<1>11. CASE Poll(s, k)
  <2>1. Cleaning(s, k, "poll") /\ UNCHANGED instances
    BY <1>11 DEF Poll
  <2>2. /\ TaskOf(Finishing(t.crd, "InstanceDeletionCompleted"), k)
        /\ TaskOf(Failing(t.crd, "InstanceDeletionCheck"), k)
    BY <1>8, <2>1, FinishingTask, FailingTask DEF Reasons
  <2>3. PICK u : TaskOf(u, k) /\ SetTask(s, k, u)
    BY <1>11, <2>2 DEF Poll
  <2>4. faults' \in 0..MaxFaults
    BY <1>1, <1>11, FaultType DEF Poll, TypeOK
  <2>5. QED
    BY <1>1, <1>7, <2>1, <2>3, <2>4 DEF TypeOK
<1>12. QED
  BY <1>3, <1>4, <1>5, <1>6, <1>9, <1>10, <1>11 DEF Sync

\* So does every step.
LEMMA NextType ==
  ASSUME TypeInv, [Next]_vars
  PROVE  TypeInv'
<1>1. TypeOK /\ TaskInv /\ StorageTypeOK
  BY DEF TypeInv, TypeOK
<1>2. CASE UNCHANGED vars
  BY <1>1, <1>2 DEF vars, storageVars, instanceVars, controllerVars, TypeInv, TypeOK, TaskInv,
     StorageTypeOK, IsNamed
<1>3. ASSUME StorageTypeOK', UNCHANGED <<instanceVars, controllerVars>>
      PROVE  TypeInv'
  BY <1>1, <1>3 DEF instanceVars, controllerVars, TypeInv, TypeOK, TaskInv
<1>4. CASE UserNext /\ UNCHANGED <<instanceVars, controllerVars>>
  BY <1>1, <1>3, <1>4, UserNextType
<1>5. CASE OtherControllers
  <2>1. PICK k \in CRDs : Name(k) \/ Establish(k) \/ RemoveFinalizer(k)
    BY <1>5 DEF OtherControllers
  <2>2. UNCHANGED <<cache, userWrites>> /\ UNCHANGED <<instanceVars, controllerVars>>
    BY <1>5 DEF OtherControllers
  <2>3. ASSUME Name(k) PROVE StorageTypeOK'
    BY <1>1, <2>2, <2>3, NameType
  <2>4. ASSUME Establish(k) \/ RemoveFinalizer(k) PROVE StorageTypeOK'
    <3>1. userWrites' \in 0..MaxUserWrites
      BY <1>1, <2>2 DEF StorageTypeOK
    <3>2. CASE NothingStored
      BY <1>1, <2>2, <3>2 DEF NothingStored, StorageTypeOK, IsNamed
    <3>3. QED
      BY <1>1, <2>2, <2>4, <3>1, <3>2, WritersStore, StoresType
  <2>5. QED
    BY <1>3, <2>1, <2>2, <2>3, <2>4
<1>6. CASE InstanceNext
  <2>1. UNCHANGED <<storageVars, controllerVars>>
    BY <1>6 DEF InstanceNext, AdmitCreate, Create, Release, controllerVars
  <2>2. ASSUME instances' \in [CRDs -> [Namespaces -> Instance]],
               requests' \in SUBSET Request, creates' \in 0..MaxCreates
        PROVE  TypeInv'
    BY <1>1, <2>1, <2>2 DEF storageVars, controllerVars, TypeInv, TypeOK, TaskInv,
       StorageTypeOK, IsNamed
  <2>3. ASSUME NEW s \in Servers, NEW k \in CRDs, AdmitCreate(s, k)
        PROVE  TypeInv'
    <3>1. cache[s][k].uid \in Nat
      BY <1>1, <2>3 DEF AdmitCreate, StorageTypeOK, CRD
    <3>2. [server |-> s, name |-> k, uid |-> cache[s][k].uid] \in Request
      BY <3>1 DEF Request
    <3>3. requests' \in SUBSET Request /\ creates' \in 0..MaxCreates /\ UNCHANGED instances
      BY <1>1, <2>3, <3>2, FinalizerAssumption DEF AdmitCreate, TypeOK
    <3>4. QED
      BY <1>1, <2>2, <3>3 DEF TypeOK
  <2>4. ASSUME NEW r \in requests, NEW n \in Namespaces, Create(r, n)
        PROVE  TypeInv'
    <3>1. r.name \in CRDs /\ r.uid \in Nat
      BY <1>1 DEF TypeOK, Request
    <3>2. PICK guarded \in BOOLEAN :
            instances' = [instances EXCEPT ![r.name][n] =
                            [uid |-> r.uid, guarded |-> guarded, deleting |-> FALSE,
                             owed |-> Takes(store[r.name], r.uid)]]
      BY <2>4 DEF Create
    <3>3. Takes(store[r.name], r.uid) \in BOOLEAN
      BY DEF Takes
    <3>4. [uid |-> r.uid, guarded |-> guarded, deleting |-> FALSE,
           owed |-> Takes(store[r.name], r.uid)] \in Instance
      BY <3>1, <3>3 DEF Instance
    <3>5. instances' \in [CRDs -> [Namespaces -> Instance]]
      BY <1>1, <3>2, <3>4 DEF TypeOK
    <3>6. requests' \in SUBSET Request /\ UNCHANGED creates
      BY <1>1, <2>4 DEF Create, TypeOK
    <3>7. QED
      BY <1>1, <2>2, <3>5, <3>6 DEF TypeOK
  <2>5. ASSUME NEW k \in CRDs, NEW n \in Namespaces, Release(k, n)
        PROVE  TypeInv'
    <3>1. NoInstance \in Instance
      BY DEF NoInstance, Instance
    <3>2. QED
      BY <1>1, <2>2, <2>5, <3>1 DEF Release, TypeOK
  <2>6. QED
    BY <1>6, <2>3, <2>4, <2>5 DEF InstanceNext
<1>7. ASSUME NEW s \in Servers, Deliver(s) \/ Resync(s) \/ Relist(s) \/ Restart(s)
      PROVE  TypeInv'
  <2>1. StorageTypeOK'
    BY <1>1, <1>7, InformerType DEF Deliver, Resync, Relist, Restart, StorageTypeOK, IsNamed,
       storageVars
  <2>2. queue' \in [Servers -> SUBSET CRDs]
    <3>1. \A e \in watch[s] : e.name \in CRDs
      BY <1>1 DEF StorageTypeOK, Event
    <3>2. Changed(s) \subseteq CRDs
      BY DEF Changed
    <3>3. QED
      BY <1>1, <1>7, <3>1, <3>2 DEF TypeOK, Deliver, Resync, Relist, Restart
  <2>3. /\ UNCHANGED task \/ task' = [task EXCEPT ![s] = [k \in CRDs |-> Idle]]
        /\ requests' \subseteq requests
        /\ UNCHANGED <<instances, creates>>
        /\ UNCHANGED faults \/ Fault
    BY <1>7 DEF Deliver, Resync, Relist, Restart, instanceVars
  <2>4. task' \in [Servers -> [CRDs -> Task]] /\ TaskInv'
    <3>1. CASE UNCHANGED task
      BY <1>1, <3>1 DEF TypeOK, TaskInv
    <3>2. CASE task' = [task EXCEPT ![s] = [k \in CRDs |-> Idle]]
      <4>1. Idle \in Task /\ Idle.step = "idle"
        BY DEF Idle, At, Task, Steps
      <4>2. QED
        BY <1>1, <3>2, <4>1 DEF TypeOK, TaskInv
    <3>3. QED
      BY <2>3, <3>1, <3>2
  <2>5. faults' \in 0..MaxFaults
    BY <1>1, <2>3, FaultType DEF TypeOK
  <2>6. QED
    BY <1>1, <2>1, <2>2, <2>3, <2>4, <2>5 DEF TypeInv, TypeOK
<1>8. QED
  BY <1>2, <1>4, <1>5, <1>6, <1>7, SyncType DEF Next

\* A finalizer's state has its types, whatever the other writers of CRDs, the
\* creates of instances and the faults do.
THEOREM TypeCorrect == Spec => []TypeOK
<1>1. TypeInv /\ [Next]_vars => TypeInv'
  BY NextType
<1>2. TypeInv => TypeOK
  BY DEF TypeInv
<1>3. QED
  BY <1>1, <1>2, InitTypeInv, PTL DEF Spec

-----------------------------------------------------------------------------
(* Built-in resources.                                                     *)

\* A sync of a built-in resource's CRD does not come to its instances.
LEMMA SyncBuiltIns ==
  ASSUME TypeInv, BuiltInInv, NEW s \in Servers, NEW k \in Overlapping, Sync(s, k)
  PROVE  /\ UNCHANGED instances
         /\ task'[s][k].step \notin {"list", "delete", "poll"}
         /\ \A u \in Servers, j \in CRDs : u # s \/ j # k => task'[u][j] = task[u][j]
<1> DEFINE t == task[s][k]
<1>1. /\ TypeOK /\ StorageTypeOK /\ TaskOf(t, k) /\ k \in CRDs
      /\ t.step \notin {"list", "delete", "poll"}
  BY TasksOf, WritersAssumption DEF TypeInv, TypeOK, BuiltInInv
<1>2. Begin(s, k) \/ UpdateAccepted(s, k) \/ UpdateRefused(s, k) \/ UpdateFailed(s, k)
  BY <1>1 DEF Sync, ListInstances, DeleteCollection, Poll, Cleaning
<1>3. UNCHANGED instances
  BY <1>2 DEF Begin, UpdateAccepted, UpdateRefused, UpdateFailed, Updating, instanceVars
<1>4. PICK u : SetTask(s, k, u) /\ u.step \notin {"list", "delete", "poll"}
  <2>1. Idle.step = "idle"
    BY DEF Idle, At
  <2>2. CASE Begin(s, k)
    <3>1. \A crd : At("begin", crd).step = "begin"
      BY DEF At
    <3>2. QED
      BY <2>1, <2>2, <3>1 DEF Begin
  <2>3. CASE UpdateAccepted(s, k)
    <3>1. t.step = "begin" => Announced(store'[k]).step = "finish"
      <4>1. t.step = "begin" =>
              /\ t.crd \in CRD /\ t.crd.name = k /\ ToFinalize(t.crd)
              /\ store[k] # NoCRD /\ UpdateStatus(t.crd)
        BY <1>1, <2>3 DEF UpdateAccepted, Current, TaskOf, Task
      <4>2. QED
        BY <1>1, <4>1, UpdateStatusKeeps, AnnouncedTask
    <3>2. QED
      BY <2>1, <2>3, <3>1 DEF UpdateAccepted
  <2>4. CASE UpdateRefused(s, k) \/ UpdateFailed(s, k)
    BY <2>1, <2>4 DEF UpdateRefused, UpdateFailed
  <2>5. QED
    BY <1>2, <2>2, <2>3, <2>4
<1>5. task \in [Servers -> [CRDs -> Task]]
  BY <1>1 DEF TypeOK
<1>6. QED
  BY <1>1, <1>3, <1>4, <1>5 DEF SetTask

\* A sync of another CRD has its own task and instances.
LEMMA SyncOthers ==
  ASSUME TypeInv, NEW s \in Servers, NEW k \in CRDs, Sync(s, k), NEW j \in CRDs, j # k
  PROVE  /\ instances'[j] = instances[j]
         /\ \A u \in Servers : task'[u][j] = task[u][j]
<1>1. /\ task \in [Servers -> [CRDs -> Task]]
      /\ instances \in [CRDs -> [Namespaces -> Instance]]
  BY DEF TypeInv, TypeOK
<1>2. \E u : SetTask(s, k, u)
  BY DEF Sync, Begin, UpdateAccepted, UpdateRefused, UpdateFailed, ListInstances,
     DeleteCollection, Poll
<1>3. \/ UNCHANGED instances
      \/ \E n \in Namespaces : instances' = [instances EXCEPT ![k][n] = Deleted(@)]
  BY DEF Sync, Begin, UpdateAccepted, UpdateRefused, UpdateFailed, Updating, ListInstances,
     DeleteCollection, Poll, instanceVars
<1>4. QED
  BY <1>1, <1>2, <1>3 DEF SetTask

\* No step deletes an instance of a built-in resource.
LEMMA NextBuiltIns ==
  ASSUME TypeInv, BuiltInInv, [Next]_vars
  PROVE  BuiltInInv' /\ KeepsBuiltIns
<1>1. /\ TypeOK /\ Overlapping \subseteq CRDs
      /\ task \in [Servers -> [CRDs -> Task]]
      /\ instances \in [CRDs -> [Namespaces -> Instance]]
  BY WritersAssumption DEF TypeInv, TypeOK
<1>2. CASE UNCHANGED <<task, instances>>
  BY <1>2 DEF BuiltInInv, KeepsBuiltIns
<1>3. CASE UNCHANGED vars \/ (UserNext /\ UNCHANGED <<instanceVars, controllerVars>>)
             \/ OtherControllers
  BY <1>2, <1>3 DEF OtherControllers, vars, instanceVars, controllerVars
<1>4. CASE InstanceNext
  <2>1. ASSUME NEW s \in Servers, NEW k \in CRDs, AdmitCreate(s, k)
        PROVE  UNCHANGED <<task, instances>>
    BY <2>1 DEF AdmitCreate, controllerVars
  <2>2. ASSUME NEW r \in requests, NEW n \in Namespaces, Create(r, n)
        PROVE  BuiltInInv' /\ KeepsBuiltIns
    <3>1. PICK guarded \in BOOLEAN :
            instances' = [instances EXCEPT ![r.name][n] =
                            [uid |-> r.uid, guarded |-> guarded, deleting |-> FALSE,
                             owed |-> Takes(store[r.name], r.uid)]]
      BY <2>2 DEF Create
    <3> DEFINE i == [uid |-> r.uid, guarded |-> guarded, deleting |-> FALSE,
                     owed |-> Takes(store[r.name], r.uid)]
    <3>2. /\ instances' = [instances EXCEPT ![r.name][n] = i] /\ ~ i.deleting
          /\ instances[r.name][n] = NoInstance /\ UNCHANGED task
      BY <2>2, <3>1 DEF Create, controllerVars
    <3> HIDE DEF i
    <3>3. QED
      BY <1>1, <3>2 DEF BuiltInInv, KeepsBuiltIns
  <2>3. ASSUME NEW k \in CRDs, NEW n \in Namespaces, Release(k, n)
        PROVE  BuiltInInv' /\ KeepsBuiltIns
    <3>1. /\ instances[k][n].deleting /\ UNCHANGED task
          /\ instances' = [instances EXCEPT ![k][n] = NoInstance]
      BY <2>3 DEF Release, controllerVars
    <3>2. k \notin Overlapping
      BY <3>1 DEF BuiltInInv
    <3>3. QED
      BY <1>1, <3>1, <3>2 DEF BuiltInInv, KeepsBuiltIns
  <2>4. QED
    BY <1>2, <1>4, <2>1, <2>2, <2>3 DEF InstanceNext
<1>5. ASSUME NEW s \in Servers, NEW k \in CRDs, Sync(s, k)
      PROVE  BuiltInInv' /\ KeepsBuiltIns
  <2>1. ASSUME NEW j \in Overlapping
        PROVE  /\ instances'[j] = instances[j]
               /\ \A u \in Servers : task'[u][j].step \notin {"list", "delete", "poll"}
    <3>1. CASE j # k
      BY <1>1, <1>5, <2>1, <3>1, SyncOthers DEF BuiltInInv
    <3>2. CASE j = k
      BY <1>1, <1>5, <2>1, <3>2, SyncBuiltIns DEF BuiltInInv
    <3>3. QED
      BY <3>1, <3>2
  <2>2. QED
    BY <2>1 DEF BuiltInInv, KeepsBuiltIns
<1>6. ASSUME NEW s \in Servers, Deliver(s) \/ Resync(s) \/ Relist(s) \/ Restart(s)
      PROVE  BuiltInInv' /\ KeepsBuiltIns
  <2>1. UNCHANGED instances
    BY <1>6 DEF Deliver, Resync, Relist, Restart, instanceVars
  <2>2. UNCHANGED task \/ task' = [task EXCEPT ![s] = [k \in CRDs |-> Idle]]
    BY <1>6 DEF Deliver, Resync, Relist, Restart
  <2>3. Idle.step = "idle"
    BY DEF Idle, At
  <2>4. QED
    BY <1>1, <2>1, <2>2, <2>3 DEF BuiltInInv, KeepsBuiltIns
<1>7. QED
  BY <1>3, <1>4, <1>5, <1>6 DEF Next

\* The cleanup of a CRD whose resource a built-in API also stores deletes none
\* of the instances: for any servers, failures, creates and other writers.
THEOREM BuiltInsUntouched == Spec => BuiltInsKept
<1>1. Init => BuiltInInv
  <2>1. Idle.step = "idle" /\ ~ NoInstance.deleting
    BY DEF Idle, At, NoInstance
  <2>2. SUFFICES ASSUME Init, NEW k \in Overlapping
                 PROVE  /\ \A s \in Servers : task[s][k] = Idle
                        /\ \A n \in Namespaces : instances[k][n] = NoInstance
    BY <2>1 DEF BuiltInInv
  <2>3. QED
    BY <2>2, WritersAssumption DEF Init
<1>2. TypeInv /\ [Next]_vars => TypeInv'
  BY NextType
<1>3. TypeInv /\ BuiltInInv /\ [Next]_vars => BuiltInInv' /\ KeepsBuiltIns
  BY NextBuiltIns
<1>4. QED
  BY <1>1, <1>2, <1>3, InitTypeInv, PTL DEF Spec, BuiltInsKept, vars, instanceVars

-----------------------------------------------------------------------------
(* The writes of the system, by what they keep of the stored object.       *)

\* An object takes the place of the stored one.  A new CRD is not deleted; a
\* stored one keeps its uid, its deletion, Established and its mark.
Replaces(k, obj) ==
  /\ Stores(k, obj)
  /\ obj # NoCRD =>
       /\ Marked(store[k]) => Marked(obj)
       /\ IF store[k] = NoCRD THEN ~ obj.deleting /\ obj.uid = rv + 1
          ELSE /\ obj.uid = store[k].uid
               /\ store[k].deleting => obj.deleting
               /\ IsCRDConditionTrue(store[k], "Established")
                    => IsCRDConditionTrue(obj, "Established")

\* The finalizer gives the stored object up.
Releases(k, obj) ==
  /\ store[k] # NoCRD
  /\ Held(store[k])
  /\ obj = NoCRD \/ ~ Held(obj)

\* A status update of a controller that sets other conditions replaces the
\* stored object, which the finalizer still holds.
LEMMA StatusReplaces ==
  ASSUME StorageTypeOK, NEW crd \in CRD, store[crd.name] # NoCRD, UpdateStatus(crd),
         crd.uid = store[crd.name].uid,
         crd.deleting = store[crd.name].deleting,
         crd.finalizers = store[crd.name].finalizers,
         IsCRDConditionTrue(crd, "Terminating")
           <=> IsCRDConditionTrue(store[crd.name], "Terminating"),
         IsCRDConditionTrue(store[crd.name], "Established")
           => IsCRDConditionTrue(crd, "Established")
  PROVE  \/ NothingStored
         \/ \E obj \in CRD \cup {NoCRD} :
              Replaces(crd.name, obj) /\ ~ Releases(crd.name, obj)
<1> DEFINE k == crd.name
<1>1. k \in CRDs /\ store[k] \in CRD
  BY DEF CRD, StorageTypeOK
<1>2. CASE Stores(k, NoCRD) /\ crd.deleting /\ crd.finalizers = {}
  <2>1. ~ Held(store[k])
    BY <1>1, <1>2 DEF Held, CRDHasFinalizer
  <2>2. QED
    BY <1>2, <2>1 DEF Replaces, Releases
<1>3. ASSUME NEW new \in CRD, Stores(k, new), new.conditions = crd.conditions,
             new.uid = crd.uid, new.deleting = crd.deleting,
             new.finalizers = crd.finalizers
      PROVE  Replaces(k, new) /\ ~ Releases(k, new)
  <2>1. new # NoCRD
    BY <1>3, ConstantsAssumption
  <2>2. Held(store[k]) => Held(new)
    BY <1>1, <1>3 DEF Held, CRDHasFinalizer
  <2>3. Marked(store[k]) => Marked(new)
    BY <1>1, <1>3 DEF Marked, ToFinalize, CRDHasFinalizer, IsCRDConditionTrue, FindCRDCondition
  <2>4. QED
    BY <1>1, <1>3, <2>1, <2>2, <2>3 DEF Replaces, Releases, IsCRDConditionTrue, FindCRDCondition
<1> HIDE DEF k
<1>4. \/ NothingStored
      \/ Stores(k, NoCRD) /\ crd.deleting /\ crd.finalizers = {}
      \/ \E new \in CRD : /\ Stores(k, new) /\ new.conditions = crd.conditions
                          /\ new.uid = crd.uid /\ new.deleting = crd.deleting
                          /\ new.finalizers = crd.finalizers
  BY UpdateStatusStores DEF k
<1>5. QED
  BY <1>2, <1>3, <1>4 DEF k

\* What a user or another controller puts in the store replaces the object.
LEMMA PutReplaces ==
  ASSUME StorageTypeOK, NEW k \in CRDs, NEW crd \in CRD, crd.name = k, Put(k, crd),
         Marked(store[k]) => Marked(crd),
         IF store[k] = NoCRD THEN ~ crd.deleting /\ crd.uid = rv + 1
         ELSE /\ crd.uid = store[k].uid
              /\ store[k].deleting => crd.deleting
              /\ Held(store[k]) => Held(crd)
              /\ IsCRDConditionTrue(store[k], "Established")
                   => IsCRDConditionTrue(crd, "Established")
  PROVE  \E obj \in CRD : Replaces(k, obj) /\ ~ Releases(k, obj)
<1>1. rv \in Nat
  BY DEF StorageTypeOK
<1>2. PICK new \in CRD : /\ Stores(k, new) /\ new.conditions = crd.conditions
                         /\ new.uid = crd.uid /\ new.deleting = crd.deleting
                         /\ new.finalizers = crd.finalizers
  BY <1>1, PutStores
<1>3. new # NoCRD /\ crd # NoCRD
  BY ConstantsAssumption
<1>4. (Marked(new) <=> Marked(crd)) /\ (Held(new) <=> Held(crd))
  BY <1>2, <1>3 DEF Marked, Held, ToFinalize, CRDHasFinalizer, IsCRDConditionTrue,
     FindCRDCondition
<1>5. QED
  BY <1>2, <1>3, <1>4 DEF Replaces, Releases, IsCRDConditionTrue, FindCRDCondition

\* A request to delete marks the CRD and makes the finalizer hold it.
LEMMA MarkDeletedMarks ==
  ASSUME NEW crd \in CRD
  PROVE  /\ MarkDeleted(crd).uid = crd.uid /\ MarkDeleted(crd).deleting
         /\ Held(MarkDeleted(crd)) /\ Marked(MarkDeleted(crd))
<1> DEFINE held == [crd EXCEPT !.deleting = TRUE, !.finalizers = @ \cup {CleanupFinalizer}]
           c    == Condition("True", "InstanceDeletionPending")
<1>1. /\ held \in CRD /\ held.uid = crd.uid /\ held.deleting = TRUE
      /\ CleanupFinalizer \in held.finalizers
  BY DEF CRD
<1>2. /\ c \in Conditions /\ c.status = "True" /\ "Terminating" \in ConditionTypes
      /\ MarkDeleted(crd) = SetCRDCondition(held, "Terminating", c)
  BY ConditionType DEF Reasons, Condition, ConditionTypes, MarkDeleted
<1> HIDE DEF held, c
<1>3. QED
  BY <1>1, <1>2, SetConditionLife DEF Held, Marked, CRDHasFinalizer

\* No write of a user or another controller takes the CRD from the finalizer.
LEMMA OthersReplace ==
  ASSUME StorageTypeOK, UserNext \/ OtherControllers
  PROVE  \/ NothingStored
         \/ \E k \in CRDs, obj \in CRD \cup {NoCRD} : Replaces(k, obj) /\ ~ Releases(k, obj)
<1>1. CASE UserNext
  <2>1. PICK k \in CRDs : CreateCRD(k) \/ UpdateSpec(k) \/ DeleteCRD(k)
    BY <1>1 DEF UserNext
  <2>2. CASE CreateCRD(k)
    <3>1. PICK names \in SpecNames[k], badBundle \in Bundles(k), finalizers \in SUBSET Finalizers :
            Put(k, NewCRD(k, names, badBundle, finalizers))
      BY <2>2 DEF CreateCRD
    <3> DEFINE crd == NewCRD(k, names, badBundle, finalizers)
    <3>2. crd \in CRD
      BY StorageAssumption, NewCRDType DEF Bundles, StorageTypeOK
    <3>3. crd.name = k /\ crd.uid = rv + 1 /\ crd.deleting = FALSE
      BY DEF NewCRD
    <3>4. Put(k, crd) /\ store[k] = NoCRD
      BY <2>2, <3>1 DEF CreateCRD
    <3> HIDE DEF crd
    <3>5. Marked(crd)
      BY <3>3 DEF Marked, ToFinalize
    <3>6. QED
      BY <3>2, <3>3, <3>4, <3>5, PutReplaces
  <2>3. CASE UpdateSpec(k)
    <3>1. PICK names \in SpecNames[k], badBundle \in Bundles(k) :
            Put(k, [store[k] EXCEPT !.names = names, !.badBundle = badBundle])
      BY <2>3 DEF UpdateSpec
    <3> DEFINE crd == [store[k] EXCEPT !.names = names, !.badBundle = badBundle]
    <3>2. store[k] \in CRD /\ store[k] # NoCRD /\ store[k].name = k /\ names \in NameSet
      BY <2>3, StorageAssumption DEF UpdateSpec, StorageTypeOK, IsNamed
    <3>3. /\ crd \in CRD /\ crd.name = k /\ crd.uid = store[k].uid
          /\ crd.deleting = store[k].deleting /\ crd.finalizers = store[k].finalizers
          /\ crd.conditions = store[k].conditions
      BY <3>2 DEF CRD, Bundles
    <3>4. Put(k, crd)
      BY <3>1
    <3> HIDE DEF crd
    <3>5. (Marked(store[k]) => Marked(crd)) /\ (Held(store[k]) => Held(crd))
      BY <3>2, <3>3 DEF Marked, Held, ToFinalize, CRDHasFinalizer, IsCRDConditionTrue,
         FindCRDCondition
    <3>6. QED
      BY <3>2, <3>3, <3>4, <3>5, PutReplaces DEF IsCRDConditionTrue, FindCRDCondition
  <2>4. CASE DeleteCRD(k)
    <3>1. /\ store[k] \in CRD /\ store[k] # NoCRD /\ store[k].name = k
          /\ Put(k, MarkDeleted(store[k]))
      BY <2>4 DEF DeleteCRD, StorageTypeOK, IsNamed
    <3>2. /\ MarkDeleted(store[k]) \in CRD /\ MarkDeleted(store[k]).name = k
          /\ IsCRDConditionTrue(store[k], "Established")
               => IsCRDConditionTrue(MarkDeleted(store[k]), "Established")
      BY <3>1, MarkDeletedType DEF IsCRDConditionTrue
    <3>3. /\ MarkDeleted(store[k]).uid = store[k].uid /\ MarkDeleted(store[k]).deleting
          /\ Held(MarkDeleted(store[k])) /\ Marked(MarkDeleted(store[k]))
      BY <3>1, MarkDeletedMarks
    <3>4. QED
      BY <3>1, <3>2, <3>3, PutReplaces
  <2>5. QED
    BY <2>1, <2>2, <2>3, <2>4
<1>2. CASE OtherControllers
  <2>1. PICK k \in CRDs : Name(k) \/ Establish(k) \/ RemoveFinalizer(k)
    BY <1>2 DEF OtherControllers
  <2>2. store[k] \in CRD /\ store[k].name = k /\ store[k] # NoCRD
    BY <2>1 DEF Name, Establish, RemoveFinalizer, StorageTypeOK, IsNamed
  <2>3. CASE Name(k)
    <3>1. PICK accepted \in NameSet, c \in Conditions :
            UpdateStatus(SetCRDCondition(
              SetCRDCondition([store[k] EXCEPT !.accepted = accepted], "NamesAccepted", c),
              "Established", EstablishedCondition(store[k], c)))
      BY <2>3, NameUpdates
    <3>2. QED
      BY <2>2, <3>1, NamedLife, StatusReplaces
  <2>4. CASE Establish(k)
    <3>1. ToEstablish(store[k]) /\ UpdateStatus(WithEstablished(store[k]))
      BY <2>4 DEF Establish
    <3>2. ~ IsCRDConditionTrue(store[k], "Established")
      BY <3>1 DEF ToEstablish
    <3>3. QED
      BY <2>2, <3>1, <3>2, EstablishedLife, StatusReplaces
  <2>5. CASE RemoveFinalizer(k)
    <3>1. PICK f \in Finalizers :
            LET crd == CRDRemoveFinalizer(store[k], f)
            IN  (crd.finalizers = {} /\ Write(k, NoCRD)) \/ Put(k, crd)
      BY <2>5 DEF RemoveFinalizer
    <3> DEFINE crd == CRDRemoveFinalizer(store[k], f)
    <3>2. /\ crd \in CRD /\ crd.name = k /\ crd.uid = store[k].uid
          /\ crd.deleting = store[k].deleting /\ crd.finalizers = store[k].finalizers \ {f}
          /\ crd.conditions = store[k].conditions
      BY <2>2, FinalizerLife
    <3>3. (crd.finalizers = {} /\ Write(k, NoCRD)) \/ Put(k, crd)
      BY <3>1
    <3> HIDE DEF crd
    <3>4. f # CleanupFinalizer /\ store[k].deleting
      BY <2>5, ConstantsAssumption DEF RemoveFinalizer
    <3>5. CASE crd.finalizers = {} /\ Write(k, NoCRD)
      <4>1. ~ Held(store[k])
        BY <3>2, <3>4, <3>5 DEF Held, CRDHasFinalizer
      <4>2. QED
        BY <3>5, <4>1 DEF Replaces, Releases, Stores
    <3>6. CASE Put(k, crd)
      <4>1. (Marked(store[k]) => Marked(crd)) /\ (Held(store[k]) => Held(crd))
        BY <2>2, <3>2, <3>4 DEF Marked, Held, ToFinalize, CRDHasFinalizer, IsCRDConditionTrue,
           FindCRDCondition
      <4>2. QED
        BY <2>2, <3>2, <3>6, <4>1, PutReplaces DEF IsCRDConditionTrue, FindCRDCondition
    <3>7. QED
      BY <3>3, <3>5, <3>6
  <2>6. QED
    BY <2>1, <2>3, <2>4, <2>5
<1>3. QED
  BY <1>1, <1>2

-----------------------------------------------------------------------------
(* The invariant of the cleanup.                                            *)

\* What SyncInv says of one task.
SyncOf(t, k) ==
  t.step # "idle" =>
    /\ t.crd.deleting /\ Marked(t.crd)
    /\ t.crd.rv <= rv
    /\ Current(t.crd) =>
         /\ t.crd.uid = store[k].uid
         /\ LifeOf(t.crd) = LifeOf(store[k])
         /\ t.step = "finish" => \A n \in Namespaces : ~ instances[k][n].owed

\* Versions, marks, tasks, instances and uids; and, on one server, that a sync
\* cleans up for the stored CRD.
CleanupInv ==
  /\ StoreInv /\ MarkedInv /\ SyncInv /\ OwedInv /\ UidInv
  /\ OneServer => SoleInv

\* SyncInv is about each task alone.
LEMMA SyncInvOf == SyncInv <=> \A s \in Servers, k \in CRDs : SyncOf(task[s][k], k)
  BY DEF SyncInv, SyncOf

\* What a task that the store would accept knows of the stored CRD.
LEMMA CurrentLife ==
  ASSUME TypeOK, NEW k \in CRDs, NEW t, TaskOf(t, k), SyncOf(t, k), t.step # "idle",
         Current(t.crd)
  PROVE  /\ t.crd \in CRD /\ t.crd.name = k
         /\ store[k] \in CRD /\ store[k] # NoCRD
         /\ store[k].deleting /\ t.crd.deleting /\ store[k].uid = t.crd.uid
         /\ IsCRDConditionTrue(t.crd, "Established")
              <=> IsCRDConditionTrue(store[k], "Established")
<1>1. /\ t.crd \in CRD /\ t.crd.name = k /\ t.crd # NoCRD
      /\ store[k] \in CRD /\ store[k] # NoCRD
  BY DEF TaskOf, Task, Current, TypeOK, StorageTypeOK
<1>2. /\ t.crd.deleting = TRUE /\ store[k].uid = t.crd.uid
      /\ LifeOf(t.crd) = LifeOf(store[k])
  BY <1>1 DEF SyncOf, CRD
<1>3. store[k].deleting = TRUE
  BY <1>1, <1>2, LifeOfFacts
<1>4. QED
  BY <1>1, <1>2, <1>3, LifeOfFacts

\* The store replaces its object by that of a sync, and the finalizer gives a
\* CRD up only at the end of one.
LEMMA SyncReplaces ==
  ASSUME TypeInv, NEW s \in Servers, NEW k \in CRDs, SyncOf(task[s][k], k),
         task[s][k].step \in {"begin", "fail", "finish"},
         Current(task[s][k].crd), UpdateStatus(task[s][k].crd)
  PROVE  \/ NothingStored
         \/ \E obj \in CRD \cup {NoCRD} :
              /\ Replaces(k, obj)
              /\ Releases(k, obj) => task[s][k].step = "finish"
<1> DEFINE t   == task[s][k]
           crd == t.crd
<1>1. /\ TypeOK /\ StorageTypeOK /\ TaskOf(t, k) /\ t.step # "idle"
  BY TasksOf DEF TypeInv, TypeOK
<1>2. /\ crd \in CRD /\ crd.name = k /\ crd # NoCRD
      /\ store[k] \in CRD /\ store[k] # NoCRD
      /\ store[k].deleting /\ crd.deleting /\ store[k].uid = crd.uid
      /\ IsCRDConditionTrue(crd, "Established") <=> IsCRDConditionTrue(store[k], "Established")
  BY <1>1, CurrentLife, ConstantsAssumption
<1>3. Marked(crd) /\ (t.step # "finish" => ToFinalize(crd))
  BY <1>1 DEF SyncOf, TaskOf
<1>4. UpdateStatus(crd) /\ t.step \in {"begin", "fail", "finish"}
  OBVIOUS
<1> HIDE DEF crd, t
<1>5. CASE Stores(k, NoCRD) /\ crd.deleting /\ crd.finalizers = {}
  <2>1. t.step = "finish"
    BY <1>2, <1>3, <1>5 DEF ToFinalize, CRDHasFinalizer
  <2>2. QED
    BY <1>5, <2>1 DEF Replaces, t
<1>6. ASSUME NEW new \in CRD, Stores(k, new), new.conditions = crd.conditions,
             new.uid = crd.uid, new.deleting = crd.deleting,
             new.finalizers = crd.finalizers
      PROVE  Replaces(k, new) /\ (Releases(k, new) => t.step = "finish")
  <2>1. new # NoCRD
    BY <1>6, ConstantsAssumption
  <2>2. Marked(new)
    BY <1>2, <1>3, <1>6 DEF Marked, ToFinalize, CRDHasFinalizer, IsCRDConditionTrue,
       FindCRDCondition
  <2>3. t.step # "finish" => Held(new)
    BY <1>3, <1>6 DEF Held, ToFinalize, CRDHasFinalizer
  <2>4. QED
    BY <1>2, <1>6, <2>1, <2>2, <2>3 DEF Replaces, Releases, IsCRDConditionTrue, FindCRDCondition
<1>7. \/ NothingStored
      \/ Stores(k, NoCRD) /\ crd.deleting /\ crd.finalizers = {}
      \/ \E new \in CRD : /\ Stores(k, new) /\ new.conditions = crd.conditions
                          /\ new.uid = crd.uid /\ new.deleting = crd.deleting
                          /\ new.finalizers = crd.finalizers
  BY <1>1, <1>2, <1>4, UpdateStatusStores
<1>8. QED
  BY <1>5, <1>6, <1>7 DEF t

\* A write makes obsolete what syncs hold of its object.
LEMMA StoresSyncOf ==
  ASSUME TypeOK, NEW k \in CRDs, NEW obj, Stores(k, obj), UNCHANGED instances,
         NEW j \in CRDs, NEW t, TaskOf(t, j), SyncOf(t, j)
  PROVE  SyncOf(t, j)'
<1>1. /\ rv \in Nat /\ rv' = rv + 1
      /\ store'[k] = obj /\ (obj # NoCRD => obj.rv = rv + 1)
      /\ \A i \in CRDs \ {k} : store'[i] = store[i]
  BY StoresStore DEF TypeOK, StorageTypeOK, Stores
<1>2. t.step # "idle" => t.crd.rv \in Nat /\ t.crd.name = j
  BY DEF TaskOf, Task, CRD
<1>3. t.step # "idle" /\ Current(t.crd)' => j # k
  BY <1>1, <1>2 DEF Current, SyncOf
<1>4. QED
  BY <1>1, <1>2, <1>3 DEF SyncOf, Current

\* A write keeps the rest of the invariant, if no instance is owed to a CRD
\* that the finalizer gives up.
LEMMA ReplacesCleanup ==
  ASSUME TypeOK, StoreInv, MarkedInv, OwedInv, UidInv,
         NEW k \in CRDs, NEW obj, Replaces(k, obj),
         Releases(k, obj) => \A n \in Namespaces : ~ instances[k][n].owed,
         UNCHANGED <<cache, instances, requests>>
  PROVE  StoreInv' /\ MarkedInv' /\ OwedInv' /\ UidInv'
<1> DEFINE event == [rv |-> rv + 1, name |-> k, obj |-> obj]
<1>1. /\ StorageTypeOK /\ Stores(k, obj) /\ rv \in Nat
      /\ obj \in CRD \cup {NoCRD}
  BY DEF TypeOK, StorageTypeOK, Replaces, Stores
<1>2. /\ rv' = rv + 1 /\ store'[k] = obj
      /\ \A j \in CRDs \ {k} : store'[j] = store[j]
      /\ \A s \in Servers : watch'[s] = watch[s] \cup {event}
      /\ event.obj = obj
  BY <1>1, StoresStore
<1> HIDE DEF event
<1>3. StoreInv'
  BY <1>1, StoresStoreInv
<1>4. MarkedInv'
  <2>1. Marked(obj)
    BY DEF Replaces, MarkedInv, Marked
  <2>2. QED
    BY <1>2, <2>1 DEF MarkedInv, Marked
<1>5. OwedInv'
  <2> SUFFICES ASSUME NEW j \in CRDs, NEW n \in Namespaces, instances[j][n].owed
               PROVE  /\ j \notin Overlapping /\ store'[j] # NoCRD
                      /\ store'[j].uid = instances[j][n].uid
                      /\ IsCRDConditionTrue(store'[j], "Established")
                      /\ Held(store'[j])
    BY DEF OwedInv, Live, IsCRDConditionTrue, FindCRDCondition, Held, CRDHasFinalizer
  <2>1. /\ j \notin Overlapping /\ store[j] # NoCRD
        /\ store[j].uid = instances[j][n].uid
        /\ IsCRDConditionTrue(store[j], "Established")
        /\ Held(store[j])
    BY DEF OwedInv, Live
  <2>2. CASE j # k
    BY <1>2, <2>1, <2>2
  <2>3. CASE j = k
    <3>1. ~ Releases(k, obj)
      BY <2>3
    <3>2. obj # NoCRD /\ Held(obj)
      BY <2>1, <2>3, <3>1 DEF Releases
    <3>3. QED
      BY <1>2, <2>1, <2>3, <3>2 DEF Replaces
  <2>4. QED
    BY <2>2, <2>3
<1>6. UidInv'
  <2>1. obj # NoCRD => obj.uid \in 1..(rv + 1)
    BY <1>1 DEF Replaces, UidInv, Live
  <2>2. /\ \A s \in Servers, j \in CRDs : cache[s][j] # NoCRD => cache[s][j].uid \in Nat
        /\ \A s \in Servers : \A e \in watch[s] : e.obj # NoCRD => e.obj.uid \in Nat
        /\ \A r \in requests : r.uid \in Nat
        /\ \A j \in CRDs, n \in Namespaces : instances[j][n].uid \in Nat
    BY DEF TypeOK, StorageTypeOK, Event, CRD, Request, Instance
  <2>3. \A j \in CRDs : store'[j] # NoCRD => store'[j].uid \in 1..rv'
    BY <1>1, <1>2, <2>1 DEF UidInv, Live
  <2>4. \A s \in Servers : \A e \in watch'[s] : e.obj # NoCRD => e.obj.uid <= rv'
    <3>1. \A s \in Servers : \A e \in watch[s] : e.obj # NoCRD => e.obj.uid <= rv + 1
      BY <1>1, <2>2 DEF UidInv
    <3>2. event.obj # NoCRD => event.obj.uid <= rv + 1
      BY <1>1, <1>2, <2>1
    <3>3. QED
      BY <1>2, <3>1, <3>2
  <2>5. QED
    BY <1>1, <1>2, <2>2, <2>3, <2>4 DEF UidInv, Live
<1>7. QED
  BY <1>3, <1>4, <1>5, <1>6

\* On one server it also keeps the claims of syncs on stored CRDs, if it keeps
\* that on its own.
LEMMA ReplacesSole ==
  ASSUME TypeOK, UidInv, SoleInv, NEW k \in CRDs, NEW obj, Replaces(k, obj),
         UNCHANGED instances,
         \A s \in Servers, j \in CRDs :
           task'[s][j].step \in {"list", "delete", "poll"} =>
             IF j = k THEN obj # NoCRD /\ ToFinalize(obj)
                      ELSE j \in Live /\ ToFinalize(store[j])
  PROVE  SoleInv'
<1>1. /\ StorageTypeOK /\ Stores(k, obj) /\ rv \in Nat
      /\ store'[k] = obj
      /\ \A j \in CRDs \ {k} : store'[j] = store[j]
  BY StoresStore DEF TypeOK, StorageTypeOK, Replaces
<1>2. ASSUME NEW s \in Servers, NEW j \in CRDs,
             task'[s][j].step \in {"list", "delete", "poll"}
      PROVE  store'[j] # NoCRD /\ ToFinalize(store'[j])
  BY <1>1, <1>2 DEF Live
<1>3. ASSUME NEW j \in CRDs, NEW n \in Namespaces, store'[j] # NoCRD,
             instances[j][n].deleting, instances[j][n].uid = store'[j].uid
      PROVE  store'[j].deleting
  <2>1. CASE j = k /\ store[k] = NoCRD
    <3>1. instances[j][n].uid <= rv /\ instances[j][n].uid \in Nat
      BY DEF UidInv, TypeOK, Instance
    <3>2. QED
      BY <1>1, <1>3, <2>1, <3>1 DEF Replaces
  <2>2. CASE j = k /\ store[k] # NoCRD
    BY <1>1, <1>3, <2>2 DEF Replaces, SoleInv, Live
  <2>3. CASE j # k
    BY <1>1, <1>3, <2>3 DEF SoleInv, Live
  <2>4. QED
    BY <2>1, <2>2, <2>3
<1>4. QED
  BY <1>2, <1>3 DEF SoleInv, Live, ToFinalize, CRDHasFinalizer

-----------------------------------------------------------------------------
(* The tasks of a sync, by what they keep of the object it holds.           *)

\* The next object that a sync holds is the same CRD, marked, in the same
\* version and with the same life.
Heir(t, crd) ==
  t.step # "idle" =>
    /\ t.crd.name = crd.name /\ t.crd.rv = crd.rv /\ t.crd.uid = crd.uid
    /\ t.crd.deleting = crd.deleting
    /\ LifeOf(t.crd) = LifeOf(crd)
    /\ Marked(t.crd)

\* The task that announces the cleanup, or its failure, has such an object.
LEMMA TerminatingHeir ==
  ASSUME NEW crd \in CRD, NEW reason \in Reasons, NEW step \in Steps
  PROVE  Heir(At(step, WithTerminating(crd, "True", reason)), crd)
<1> DEFINE new == WithTerminating(crd, "True", reason)
<1>1. /\ new \in CRD /\ new.name = crd.name /\ new.rv = crd.rv /\ new.uid = crd.uid
      /\ new.deleting = crd.deleting /\ IsCRDConditionTrue(new, "Terminating")
      /\ LifeOf(new) = LifeOf(crd)
  BY TerminatingLife
<1> HIDE DEF new
<1>2. At(step, new).crd = new
  BY DEF At
<1>3. QED
  BY <1>1, <1>2 DEF Heir, Marked, new

\* So has the last one, which need not be marked any more.
LEMMA FinishingHeir ==
  ASSUME NEW crd \in CRD, NEW reason \in Reasons
  PROVE  Heir(Finishing(crd, reason), crd)
<1> DEFINE new == WithTerminating(crd, "False", reason)
           released == CRDRemoveFinalizer(new, CleanupFinalizer)
<1>1. /\ new \in CRD /\ new.name = crd.name /\ new.rv = crd.rv /\ new.uid = crd.uid
      /\ new.deleting = crd.deleting /\ LifeOf(new) = LifeOf(crd)
  BY TerminatingLife
<1> HIDE DEF new
<1>2. /\ released \in CRD /\ released.name = crd.name /\ released.rv = crd.rv
      /\ released.uid = crd.uid /\ released.deleting = crd.deleting
      /\ released.finalizers = new.finalizers \ {CleanupFinalizer}
      /\ LifeOf(released) = LifeOf(crd)
  BY <1>1, FinalizerLife
<1>3. Finishing(crd, reason).crd = released
  BY DEF Finishing, At, new
<1> HIDE DEF released
<1>4. Marked(released)
  BY <1>2 DEF Marked, ToFinalize, CRDHasFinalizer
<1>5. QED
  BY <1>2, <1>3, <1>4 DEF Heir

\* The cleanup of an announced CRD; it finishes at once only without
\* instances of an established CRD of its own.
LEMMA AnnouncedHeir ==
  ASSUME NEW crd \in CRD, Marked(crd)
  PROVE  /\ Heir(Announced(crd), crd)
         /\ Announced(crd).step \in {"list", "finish"}
         /\ Announced(crd).step = "finish" =>
              crd.name \in Overlapping \/ ~ IsCRDConditionTrue(crd, "Established")
<1>1. /\ At("list", crd).step = "list" /\ At("list", crd).crd = crd
      /\ \A reason : Finishing(crd, reason).step = "finish"
  BY DEF At, Finishing
<1>2. Heir(At("list", crd), crd)
  BY <1>1 DEF Heir
<1>3. QED
  BY <1>1, <1>2, FinishingHeir DEF Announced, Reasons

\* The deletions.
LEMMA DeletingHeir ==
  ASSUME NEW crd \in CRD, Marked(crd), NEW todo, NEW failed
  PROVE  Heir(Deleting(crd, todo, failed), crd) /\ Deleting(crd, todo, failed).step # "finish"
<1>1. /\ At("poll", crd).step = "poll" /\ At("poll", crd).crd = crd
      /\ [At("delete", crd) EXCEPT !.todo = todo, !.failed = failed].step = "delete"
      /\ [At("delete", crd) EXCEPT !.todo = todo, !.failed = failed].crd = crd
      /\ Failing(crd, "InstanceDeletionFailed").step = "fail"
  BY DEF At, Failing
<1>2. Heir(Failing(crd, "InstanceDeletionFailed"), crd)
  BY TerminatingHeir DEF Failing, Reasons, Steps
<1>3. QED
  BY <1>1, <1>2 DEF Heir, Deleting

\* A task knows of the stored CRD what the object it comes from does.
LEMMA HeirSyncOf ==
  ASSUME NEW k \in CRDs, NEW crd, crd.name = k, crd.deleting, crd.rv <= rv,
         Current(crd) => crd.uid = store[k].uid /\ LifeOf(crd) = LifeOf(store[k]),
         NEW t, Heir(t, crd),
         t.step = "finish" => \A n \in Namespaces : ~ instances[k][n].owed
  PROVE  SyncOf(t, k)
  BY DEF Heir, SyncOf, Current

\* An idle task knows nothing.
LEMMA IdleSyncOf ==
  ASSUME NEW k
  PROVE  SyncOf(Idle, k) /\ SyncOf(Idle, k)'
  BY DEF SyncOf, Idle, At

\* After a step the tasks are what each is then.
LEMMA SyncInvNext ==
  ASSUME \A s \in Servers, k \in CRDs : \A t : t = task'[s][k] => SyncOf(t, k)'
  PROVE  SyncInv'
  BY DEF SyncInv, SyncOf, Current

-----------------------------------------------------------------------------
(* The steps of a sync.                                                    *)

\* A step that writes no CRD, and creates no instance, sets one task.
LEMMA TaskCleanup ==
  ASSUME TypeInv, CleanupInv, NEW s \in Servers, NEW k \in CRDs,
         NEW u, TaskOf(u, k), SetTask(s, k, u), SyncOf(u, k),
         UNCHANGED <<rv, store, watch, cache, requests>>,
         \A j \in CRDs, n \in Namespaces :
           \/ instances'[j][n] = instances[j][n]
           \/ j = k /\ instances'[j][n] = Deleted(instances[j][n]),
         OneServer =>
           /\ u.step \in {"list", "delete", "poll"} => k \in Live /\ ToFinalize(store[k])
           /\ instances' # instances => k \in Live /\ store[k].deleting
  PROVE  CleanupInv'
<1> USE DEF CleanupInv
<1>1. StoreInv' /\ MarkedInv'
  BY DEF StoreInv, VersionInv, CacheInv, EventsDistinct, Live, MarkedInv, Marked
<1>2. \A j \in CRDs, n \in Namespaces :
        /\ instances'[j][n].owed => /\ instances[j][n].owed
                                    /\ instances'[j][n].uid = instances[j][n].uid
        /\ instances'[j][n].uid \in {instances[j][n].uid, 0}
        /\ instances'[j][n].deleting =>
             \/ instances[j][n].deleting /\ instances'[j][n].uid = instances[j][n].uid
             \/ j = k /\ instances' # instances
  <2>1. \A i \in Instance :
          /\ Deleted(i).owed => i.owed /\ Deleted(i).uid = i.uid
          /\ Deleted(i).uid \in {i.uid, 0}
    BY DEF Deleted, Instance, NoInstance
  <2>2. instances \in [CRDs -> [Namespaces -> Instance]]
    BY DEF TypeInv, TypeOK
  <2>3. QED
    BY <2>1, <2>2
<1>3. OwedInv'
  BY <1>2 DEF OwedInv, Live, IsCRDConditionTrue, FindCRDCondition, Held, CRDHasFinalizer
<1>4. UidInv'
  <2>1. rv \in Nat
    BY DEF TypeInv, TypeOK, StorageTypeOK
  <2>2. QED
    BY <1>2, <2>1 DEF UidInv, Live
<1>5. task'[s][k] = u /\ \A t \in Servers, j \in CRDs : t # s \/ j # k => task'[t][j] = task[t][j]
  BY SetTaskType
<1>6. SyncInv'
  <2> SUFFICES ASSUME NEW t \in Servers, NEW j \in CRDs, NEW w, w = task'[t][j]
               PROVE  SyncOf(w, j)'
    BY SyncInvNext
  <2>1. SyncOf(w, j)
    BY <1>5, SyncInvOf
  <2>2. QED
    BY <1>2, <2>1 DEF SyncOf, Current
<1>7. OneServer => SoleInv'
  BY <1>2, <1>5 DEF SoleInv, Live, ToFinalize, CRDHasFinalizer
<1>8. QED
  BY <1>1, <1>3, <1>4, <1>6, <1>7 DEF OneServer

\* A status update ends the sync, or the cleanup of the stored object begins.
LEMMA UpdateCleanup ==
  ASSUME TypeInv, CleanupInv, NEW s \in Servers, NEW k \in CRDs,
         task[s][k].step \in {"begin", "fail", "finish"},
         UNCHANGED <<cache, instances, requests>>,
         Current(task[s][k].crd), UpdateStatus(task[s][k].crd),
         NEW u, TaskOf(u, k), SetTask(s, k, u),
         u = Idle \/ (task[s][k].step = "begin" /\ u = Announced(store'[k])),
         StorageTypeOK'
  PROVE  CleanupInv'
<1> USE DEF CleanupInv
<1> DEFINE t == task[s][k]
<1>1. TypeOK /\ StorageTypeOK /\ TaskOf(t, k) /\ SyncOf(t, k)
  BY TasksOf, SyncInvOf DEF TypeInv, TypeOK
<1>2. \/ NothingStored
      \/ \E obj \in CRD \cup {NoCRD} :
           Replaces(k, obj) /\ (Releases(k, obj) => t.step = "finish")
  BY <1>1, SyncReplaces
<1>3. t.step = "finish" => \A n \in Namespaces : ~ instances[k][n].owed
  BY <1>1 DEF SyncOf
<1>4. StoreInv' /\ MarkedInv' /\ OwedInv' /\ UidInv'
  <2>1. CASE NothingStored
    BY <2>1 DEF NothingStored, StoreInv, VersionInv, CacheInv, EventsDistinct, Live, MarkedInv,
       Marked, OwedInv, IsCRDConditionTrue, FindCRDCondition, Held, CRDHasFinalizer, UidInv
  <2>2. CASE ~ NothingStored
    BY <1>1, <1>2, <1>3, <2>2, ReplacesCleanup
  <2>3. QED
    BY <2>1, <2>2
<1>5. task'[s][k] = u /\ \A v \in Servers, j \in CRDs : v # s \/ j # k => task'[v][j] = task[v][j]
  BY SetTaskType
<1>6. u # Idle =>
        /\ store'[k] \in CRD /\ store'[k].name = k /\ ToFinalize(store'[k])
        /\ store'[k] # NoCRD
  <2>1. t.step = "begin" => /\ t.crd \in CRD /\ t.crd.name = k /\ ToFinalize(t.crd)
                            /\ store[k] # NoCRD
    BY <1>1 DEF TaskOf, Task, Current
  <2>2. QED
    BY <1>1, <2>1, UpdateStatusKeeps, ConstantsAssumption
<1>7. SyncOf(u, k)'
  <2>1. CASE u = Idle
    BY <2>1, IdleSyncOf
  <2>2. CASE u # Idle
    <3>1. /\ store'[k] \in CRD /\ store'[k].name = k /\ store'[k].deleting
          /\ store'[k].rv <= rv' /\ store'[k] # NoCRD /\ Marked(store'[k])
      BY <1>4, <1>6, <2>2 DEF ToFinalize, StoreInv, VersionInv, Live, MarkedInv, Marked
    <3>2. /\ u = Announced(store'[k])
          /\ Heir(u, store'[k])
          /\ u.step = "finish" =>
               k \in Overlapping \/ ~ IsCRDConditionTrue(store'[k], "Established")
      BY <2>2, <3>1, AnnouncedHeir
    <3>3. u.step = "finish" => \A n \in Namespaces : ~ instances'[k][n].owed
      BY <1>4, <3>2 DEF OwedInv, IsCRDConditionTrue, FindCRDCondition
    <3>4. QED
      BY <3>1, <3>2, <3>3 DEF SyncOf, Heir
  <2>3. QED
    BY <2>1, <2>2
<1>8. SyncInv'
  <2> SUFFICES ASSUME NEW v \in Servers, NEW j \in CRDs, NEW w, w = task'[v][j]
               PROVE  SyncOf(w, j)'
    BY SyncInvNext
  <2>1. CASE v = s /\ j = k
    BY <1>5, <1>7, <2>1
  <2>2. CASE ~ (v = s /\ j = k)
    <3>1. TaskOf(w, j) /\ SyncOf(w, j)
      BY <1>5, <2>2, TasksOf, SyncInvOf DEF TypeInv
    <3>2. CASE NothingStored
      BY <3>1, <3>2 DEF NothingStored, SyncOf, Current
    <3>3. CASE ~ NothingStored
      BY <1>1, <1>2, <3>1, <3>3, StoresSyncOf DEF Replaces
    <3>4. QED
      BY <3>2, <3>3
  <2>3. QED
    BY <2>1, <2>2
<1>9. OneServer => SoleInv'
  <2> SUFFICES ASSUME OneServer PROVE SoleInv'
    OBVIOUS
  <2>1. \A v \in Servers, j \in CRDs :
          task'[v][j].step \in {"list", "delete", "poll"} =>
            IF j = k THEN u # Idle ELSE j \in Live /\ ToFinalize(store[j])
    <3>1. Idle.step = "idle"
      BY DEF Idle, At
    <3>2. \A v \in Servers : task'[v][k] = u
      BY <1>5 DEF OneServer
    <3>3. QED
      BY <1>5, <3>1, <3>2 DEF SoleInv
  <2>2. CASE NothingStored
    <3>1. SoleInv /\ UNCHANGED <<store, instances>>
      BY <2>2 DEF NothingStored
    <3>2. QED
      BY <1>6, <2>1, <3>1 DEF SoleInv, Live, ToFinalize, CRDHasFinalizer
  <2>3. CASE ~ NothingStored
    <3>1. PICK obj : Replaces(k, obj)
      BY <1>2, <2>3
    <3>2. store'[k] = obj
      BY <1>1, <3>1, StoresStore DEF Replaces
    <3>3. QED
      BY <1>1, <1>6, <2>1, <3>1, <3>2, ReplacesSole
  <2>4. QED
    BY <2>2, <2>3
<1>10. QED
  BY <1>4, <1>8, <1>9 DEF OneServer


\* The object that a sync begins with is the stored one or obsolete.
LEMMA BeginSyncOf ==
  ASSUME TypeInv, CleanupInv, NEW s \in Servers, NEW k \in CRDs,
         cache[s][k] # NoCRD, ToFinalize(cache[s][k])
  PROVE  LET u == At("begin", WithTerminating(cache[s][k], "True", "InstanceDeletionInProgress"))
         IN  TaskOf(u, k) /\ SyncOf(u, k) /\ u.step = "begin"
<1> DEFINE crd == cache[s][k]
           new == WithTerminating(crd, "True", "InstanceDeletionInProgress")
           u   == At("begin", new)
<1>1. /\ crd \in CRD /\ crd.name = k /\ crd.rv <= rv /\ crd.deleting
      /\ Current(crd) => crd = store[k]
  BY DEF TypeInv, TypeOK, StorageTypeOK, IsNamed, CleanupInv, StoreInv, VersionInv, CacheInv,
     ToFinalize, Current
<1>2. /\ new \in CRD /\ new.name = k /\ ToFinalize(new)
  BY <1>1, WithTerminatingType DEF Reasons, ToFinalize, CRDHasFinalizer
<1>3. Heir(u, crd)
  BY <1>1, TerminatingHeir DEF Reasons, Steps
<1> HIDE DEF new
<1>4. TaskOf(u, k) /\ u.step = "begin"
  BY <1>2, AtTask, ConstantsAssumption DEF TaskOf, Steps
<1> HIDE DEF crd, u
<1>5. SyncOf(u, k)
  BY <1>1, <1>3, <1>4, HeirSyncOf
<1>6. QED
  BY <1>4, <1>5 DEF u, new, crd

\* Deleting and polling pass the object on.
LEMMA CleaningSyncOf ==
  ASSUME TypeInv, CleanupInv, NEW s \in Servers, NEW k \in CRDs,
         task[s][k].step \in {"list", "delete", "poll"},
         NEW u, Heir(u, task[s][k].crd),
         u.step = "finish" => Present(k) = {}
  PROVE  SyncOf(u, k)
<1> DEFINE t == task[s][k]
<1>1. /\ TypeOK /\ TaskOf(t, k) /\ SyncOf(t, k) /\ t.step # "idle"
  BY TasksOf, SyncInvOf DEF TypeInv, CleanupInv
<1>2. \A n \in Namespaces : Present(k) = {} => ~ instances[k][n].owed
  BY DEF Present, NoInstance
<1>3. QED
  BY <1>1, <1>2, HeirSyncOf DEF SyncOf, TaskOf

\* A step of a sync keeps the invariant.
LEMMA SyncCleanup ==
  ASSUME TypeInv, CleanupInv, NEW s \in Servers, NEW k \in CRDs, Sync(s, k)
  PROVE  CleanupInv'
<1> DEFINE t == task[s][k]
<1>1. /\ TypeOK /\ TaskOf(t, k) /\ SyncOf(t, k)
      /\ TaskOf(Idle, k) /\ SyncOf(Idle, k) /\ Idle.step = "idle"
  BY TasksOf, SyncInvOf, IdleTask, IdleSyncOf DEF TypeInv, CleanupInv
<1>2. ASSUME NEW u, TaskOf(u, k), SetTask(s, k, u), SyncOf(u, k),
             u.step \notin {"list", "delete", "poll"},
             NothingStored, UNCHANGED <<cache, instances, requests>>
      PROVE  CleanupInv'
  BY <1>2, TaskCleanup DEF NothingStored
<1>3. CASE Begin(s, k)
  <2>1. PICK u : /\ SetTask(s, k, u)
                 /\ TaskOf(u, k) /\ SyncOf(u, k) /\ u.step \in {"idle", "begin"}
    BY <1>1, <1>3, BeginSyncOf DEF Begin
  <2>2. QED
    BY <1>2, <1>3, <2>1 DEF Begin, storageVars, instanceVars, NothingStored
<1>4. ASSUME t.step \in {"begin", "fail", "finish"},
             UNCHANGED <<cache, instances, requests>>,
             Current(t.crd), UpdateStatus(t.crd),
             NEW u, SetTask(s, k, u),
             u = Idle \/ (t.step = "begin" /\ u = Announced(store'[k]))
      PROVE  CleanupInv'
  <2>1. TypeInv'
    BY SyncType
  <2>2. u = task'[s][k]
    BY <1>1, <1>4 DEF TypeOK, SetTask
  <2>3. TaskOf(u, k) /\ StorageTypeOK'
    BY <2>1, <2>2 DEF TypeInv, TypeOK, TaskInv, TaskOf
  <2>4. QED
    BY <1>4, <2>3, UpdateCleanup
<1>5. CASE UpdateAccepted(s, k)
  BY <1>4, <1>5 DEF UpdateAccepted, Updating, instanceVars
<1>6. CASE UpdateRefused(s, k)
  BY <1>1, <1>2, <1>6 DEF UpdateRefused, Updating, instanceVars, NothingStored
<1>7. CASE UpdateFailed(s, k)
  BY <1>1, <1>2, <1>4, <1>7 DEF UpdateFailed, Updating, instanceVars, NothingStored
<1>8. ASSUME NEW step \in {"list", "delete", "poll"}, Cleaning(s, k, step)
      PROVE  /\ t.crd \in CRD /\ t.crd.name = k /\ ToFinalize(t.crd) /\ Marked(t.crd)
             /\ t.step \in {"list", "delete", "poll"}
             /\ t.todo \in SUBSET Namespaces
             /\ UNCHANGED <<rv, store, watch, cache, requests>>
             /\ OneServer => k \in Live /\ ToFinalize(store[k]) /\ store[k].deleting
  BY <1>1, <1>8 DEF Cleaning, TaskOf, Task, SyncOf, storageVars, CleanupInv, SoleInv, ToFinalize
<1>9. ASSUME NEW step \in {"list", "delete", "poll"}, Cleaning(s, k, step),
             NEW u, TaskOf(u, k), SetTask(s, k, u), Heir(u, t.crd),
             u.step = "finish" => Present(k) = {},
             \A j \in CRDs, n \in Namespaces :
               \/ instances'[j][n] = instances[j][n]
               \/ j = k /\ instances'[j][n] = Deleted(instances[j][n])
      PROVE  CleanupInv'
  <2>1. SyncOf(u, k)
    BY <1>8, <1>9, CleaningSyncOf
  <2>2. QED
    BY <1>8, <1>9, <2>1, TaskCleanup
<1>10. ASSUME NEW step \in {"list", "delete", "poll"}, Cleaning(s, k, step)
       PROVE  /\ \A todo \in SUBSET Namespaces, failed \in BOOLEAN :
                   LET u == Deleting(t.crd, todo, failed)
                   IN  TaskOf(u, k) /\ Heir(u, t.crd) /\ u.step # "finish"
              /\ \A reason \in Reasons :
                   LET u == Failing(t.crd, reason)
                   IN  TaskOf(u, k) /\ Heir(u, t.crd) /\ u.step # "finish"
              /\ \A reason \in Reasons :
                   TaskOf(Finishing(t.crd, reason), k) /\ Heir(Finishing(t.crd, reason), t.crd)
  <2>1. /\ t.crd \in CRD /\ t.crd.name = k /\ ToFinalize(t.crd) /\ Marked(t.crd)
    BY <1>8, <1>10
  <2>2. \A reason \in Reasons : Heir(Failing(t.crd, reason), t.crd)
    BY <2>1, TerminatingHeir DEF Failing, Steps
  <2>3. \A reason \in Reasons : TaskOf(Failing(t.crd, reason), k) /\ Failing(t.crd, reason).step = "fail"
    BY <2>1, FailingTask
  <2>4. \A reason \in Reasons :
          TaskOf(Finishing(t.crd, reason), k) /\ Heir(Finishing(t.crd, reason), t.crd)
    BY <2>1, FinishingTask, FinishingHeir
  <2>5. \A todo \in SUBSET Namespaces, failed \in BOOLEAN :
          TaskOf(Deleting(t.crd, todo, failed), k)
    BY <2>1, DeletingTask
  <2>6. \A todo \in SUBSET Namespaces, failed \in BOOLEAN :
          /\ Heir(Deleting(t.crd, todo, failed), t.crd)
          /\ Deleting(t.crd, todo, failed).step # "finish"
    BY <2>1, DeletingHeir
  <2>7. QED
    BY <2>2, <2>3, <2>4, <2>5, <2>6
<1>11. CASE ListInstances(s, k)
  <2>1. Cleaning(s, k, "list") /\ UNCHANGED instances /\ Present(k) \in SUBSET Namespaces
    BY <1>11 DEF ListInstances, Present
  <2>2. \/ SetTask(s, k, Deleting(t.crd, Present(k), FALSE))
        \/ SetTask(s, k, Failing(t.crd, "InstanceDeletionFailed"))
    BY <1>11 DEF ListInstances
  <2>3. "InstanceDeletionFailed" \in Reasons
    BY DEF Reasons
  <2>4. \A todo \in SUBSET Namespaces :
          LET u == Deleting(t.crd, todo, FALSE)
          IN  TaskOf(u, k) /\ Heir(u, t.crd) /\ u.step # "finish"
    BY <1>10, <2>1
  <2>5. LET u == Failing(t.crd, "InstanceDeletionFailed")
        IN  TaskOf(u, k) /\ Heir(u, t.crd) /\ u.step # "finish"
    BY <1>10, <2>1, <2>3
  <2>6. PICK u : SetTask(s, k, u) /\ TaskOf(u, k) /\ Heir(u, t.crd) /\ u.step # "finish"
    <3>1. CASE SetTask(s, k, Deleting(t.crd, Present(k), FALSE))
      <4> DEFINE u == Deleting(t.crd, Present(k), FALSE)
      <4>1. SetTask(s, k, u) /\ TaskOf(u, k) /\ Heir(u, t.crd) /\ u.step # "finish"
        BY <2>1, <2>4, <3>1
      <4> HIDE DEF u
      <4>2. QED
        BY <4>1
    <3>2. CASE SetTask(s, k, Failing(t.crd, "InstanceDeletionFailed"))
      BY <2>5, <3>2
    <3>3. QED
      BY <2>2, <3>1, <3>2
  <2>7. QED
    BY <1>9, <2>1, <2>6
<1>12. ASSUME NEW n \in Namespaces, DeleteCollection(s, k, n)
       PROVE  CleanupInv'
  <2>1. Cleaning(s, k, "delete")
    BY <1>12 DEF DeleteCollection
  <2>2. t.todo \ {n} \in SUBSET Namespaces /\ t.failed \in BOOLEAN
    BY <1>1, <1>8, <2>1 DEF TaskOf, Task
  <2>3. PICK u : SetTask(s, k, u) /\ TaskOf(u, k) /\ Heir(u, t.crd) /\ u.step # "finish"
    BY <1>10, <1>12, <2>1, <2>2 DEF DeleteCollection
  <2>4. \A j \in CRDs, m \in Namespaces :
          \/ instances'[j][m] = instances[j][m]
          \/ j = k /\ instances'[j][m] = Deleted(instances[j][m])
    <3>1. \/ UNCHANGED instances
          \/ instances' = [instances EXCEPT ![k][n] = Deleted(@)]
      BY <1>12 DEF DeleteCollection
    <3>2. QED
      BY <1>1, <3>1 DEF TypeOK
  <2>5. QED
    BY <1>9, <2>1, <2>3, <2>4
<1>13. CASE Poll(s, k)
  <2>1. Cleaning(s, k, "poll") /\ UNCHANGED instances
    BY <1>13 DEF Poll
  <2>2. PICK u : /\ SetTask(s, k, u) /\ TaskOf(u, k) /\ Heir(u, t.crd)
                 /\ u.step = "finish" => Present(k) = {}
    BY <1>10, <1>13, <2>1 DEF Poll, Reasons
  <2>3. QED
    BY <1>9, <2>1, <2>2
<1>14. QED
  BY <1>3, <1>5, <1>6, <1>7, <1>11, <1>12, <1>13 DEF Sync

-----------------------------------------------------------------------------
(* The steps of the informer, the instances and the other writers.         *)

\* What arrives in a cache is marked and of the past.
LEMMA InformerCleanup ==
  ASSUME TypeInv, CleanupInv, NEW s \in Servers,
         (\E e \in watch[s] : Receive(s, e)) \/ List(s),
         UNCHANGED <<instances>>, requests' \subseteq requests,
         UNCHANGED task \/ task' = [task EXCEPT ![s] = [k \in CRDs |-> Idle]]
  PROVE  CleanupInv'
<1> USE DEF CleanupInv
<1>1. TypeOK /\ StorageTypeOK /\ UNCHANGED <<rv, store>> /\ rv \in Nat
  BY DEF TypeInv, TypeOK, StorageTypeOK, Receive, List
<1>2. StoreInv'
  BY <1>1, InformerStoreInv
<1>3. /\ \A u \in Servers : watch'[u] \subseteq watch[u]
      /\ \A u \in Servers, k \in CRDs :
           \/ cache'[u][k] = cache[u][k]
           \/ cache'[u][k] = store[k]
           \/ \E e \in watch[u] : cache'[u][k] = e.obj
  <2>1. CASE List(s)
    BY <1>1, <2>1 DEF List, StorageTypeOK
  <2>2. ASSUME NEW e \in watch[s], Receive(s, e)
        PROVE  /\ \A u \in Servers : watch'[u] \subseteq watch[u]
               /\ \A u \in Servers, k \in CRDs :
                    cache'[u][k] = cache[u][k] \/ (u = s /\ cache'[u][k] = e.obj)
    BY <1>1, <2>2 DEF Receive, StorageTypeOK
  <2>3. QED
    BY <2>1, <2>2
<1>4. MarkedInv'
  BY <1>1, <1>3 DEF MarkedInv, Marked
<1>5. UidInv'
  BY <1>1, <1>3 DEF UidInv, Live
<1>6. OwedInv'
  BY <1>1 DEF OwedInv, Live, IsCRDConditionTrue, FindCRDCondition, Held, CRDHasFinalizer
<1>7. \A u \in Servers, k \in CRDs : task'[u][k] \in {task[u][k], Idle}
  BY <1>1 DEF TypeOK
<1>8. SyncInv'
  <2> SUFFICES ASSUME NEW u \in Servers, NEW k \in CRDs, NEW t, t = task'[u][k]
               PROVE  SyncOf(t, k)'
    BY SyncInvNext
  <2>1. SyncOf(t, k)
    BY <1>7, SyncInvOf, IdleSyncOf
  <2>2. QED
    BY <1>1, <2>1 DEF SyncOf, Current
<1>9. OneServer => SoleInv'
  <2>1. Idle.step = "idle"
    BY DEF Idle, At
  <2>2. QED
    BY <1>1, <1>7, <2>1 DEF SoleInv, Live, ToFinalize, CRDHasFinalizer
<1>10. QED
  BY <1>2, <1>4, <1>5, <1>6, <1>8, <1>9 DEF OneServer

\* An instance is created, or removed after it was deleted.
LEMMA InstanceCleanup ==
  ASSUME TypeInv, CleanupInv, InstanceNext
  PROVE  CleanupInv'
<1> USE DEF CleanupInv
<1>1. TypeOK /\ StorageTypeOK /\ rv \in Nat
  BY DEF TypeInv, TypeOK, StorageTypeOK
<1>2. UNCHANGED <<rv, store, cache, watch, task>>
  BY DEF InstanceNext, AdmitCreate, Create, Release, storageVars, controllerVars
<1>3. StoreInv' /\ MarkedInv'
  BY <1>2 DEF StoreInv, VersionInv, CacheInv, EventsDistinct, Live, MarkedInv, Marked
<1>4. ASSUME OwedInv', UidInv',
             \A k \in CRDs, n \in Namespaces :
               instances'[k][n].owed =>
                 instances[k][n].owed \/ (store[k] # NoCRD /\ ~ store[k].deleting),
             \A k \in CRDs, n \in Namespaces :
               instances'[k][n].deleting => instances'[k][n] = instances[k][n]
      PROVE  CleanupInv'
  <2>1. SyncInv'
    <3> SUFFICES ASSUME NEW u \in Servers, NEW k \in CRDs, NEW t, t = task'[u][k]
                 PROVE  SyncOf(t, k)'
      BY SyncInvNext
    <3>1. TaskOf(t, k) /\ SyncOf(t, k)
      BY <1>2, TasksOf, SyncInvOf DEF TypeInv
    <3>2. t.step # "idle" /\ Current(t.crd) => store[k].deleting
      BY <1>1, <3>1, CurrentLife
    <3>3. QED
      BY <1>2, <1>4, <3>1, <3>2 DEF SyncOf, Current
  <2>2. OneServer => SoleInv'
    BY <1>2, <1>4 DEF SoleInv, Live, ToFinalize, CRDHasFinalizer
  <2>3. QED
    BY <1>3, <1>4, <2>1, <2>2 DEF OneServer
<1>5. ASSUME NEW s \in Servers, NEW k \in CRDs, AdmitCreate(s, k)
      PROVE  CleanupInv'
  <2>1. OwedInv'
    BY <1>2, <1>5 DEF AdmitCreate, OwedInv, Live, IsCRDConditionTrue, FindCRDCondition, Held,
       CRDHasFinalizer
  <2>2. UidInv'
    BY <1>2, <1>5 DEF AdmitCreate, UidInv, Live
  <2>3. QED
    BY <1>4, <1>5, <2>1, <2>2 DEF AdmitCreate
<1>6. ASSUME NEW r \in requests, NEW n \in Namespaces, Create(r, n)
      PROVE  CleanupInv'
  <2> DEFINE k == r.name
  <2>1. k \in CRDs /\ r.uid <= rv
    BY <1>1 DEF TypeOK, Request, UidInv
  <2>2. PICK guarded \in BOOLEAN :
          instances' = [instances EXCEPT ![k][n] =
                          [uid |-> r.uid, guarded |-> guarded, deleting |-> FALSE,
                           owed |-> Takes(store[k], r.uid)]]
    BY <1>6 DEF Create
  <2> DEFINE i == [uid |-> r.uid, guarded |-> guarded, deleting |-> FALSE,
                   owed |-> Takes(store[k], r.uid)]
  <2>3. i.uid = r.uid /\ i.deleting = FALSE /\ i.owed = Takes(store[k], r.uid)
    OBVIOUS
  <2> HIDE DEF i
  <2>4. /\ instances'[k][n] = i
        /\ \A j \in CRDs, m \in Namespaces : j # k \/ m # n => instances'[j][m] = instances[j][m]
    BY <1>1, <2>1, <2>2 DEF TypeOK, i
  <2>5. i.owed => /\ store[k] # NoCRD /\ k \notin Overlapping
                  /\ store[k].uid = i.uid /\ ~ store[k].deleting
                  /\ IsCRDConditionTrue(store[k], "Established")
    BY <1>1, <2>1, <2>3 DEF Takes, StorageTypeOK, IsNamed
  <2> HIDE DEF k
  <2>6. OwedInv'
    BY <1>2, <2>1, <2>4, <2>5 DEF OwedInv, Live, IsCRDConditionTrue, FindCRDCondition, Held,
       CRDHasFinalizer
  <2>7. UidInv'
    BY <1>2, <1>6, <2>1, <2>3, <2>4 DEF Create, UidInv, Live
  <2>8. QED
    BY <1>4, <2>1, <2>3, <2>4, <2>5, <2>6, <2>7
<1>7. ASSUME NEW k \in CRDs, NEW n \in Namespaces, Release(k, n)
      PROVE  CleanupInv'
  <2>1. \A j \in CRDs, m \in Namespaces :
          \/ instances'[j][m] = instances[j][m]
          \/ /\ instances'[j][m].uid = 0
             /\ ~ instances'[j][m].owed /\ ~ instances'[j][m].deleting
    BY <1>1, <1>7 DEF TypeOK, Release, NoInstance
  <2>2. OwedInv'
    BY <1>2, <2>1 DEF OwedInv, Live, IsCRDConditionTrue, FindCRDCondition, Held,
       CRDHasFinalizer
  <2>3. UidInv'
    BY <1>1, <1>2, <1>7, <2>1 DEF Release, UidInv, Live
  <2>4. QED
    BY <1>4, <2>1, <2>2, <2>3
<1>8. QED
  BY <1>5, <1>6, <1>7 DEF InstanceNext

\* Users and other controllers write.
LEMMA OthersCleanup ==
  ASSUME TypeInv, CleanupInv,
         (UserNext /\ UNCHANGED <<instanceVars, controllerVars>>) \/ OtherControllers
  PROVE  CleanupInv'
<1> USE DEF CleanupInv
<1>1. TypeOK /\ StorageTypeOK
  BY DEF TypeInv, TypeOK
<1>2. UNCHANGED <<cache, instances, requests, task>>
  BY DEF UserNext, CreateCRD, UpdateSpec, DeleteCRD, UserWrite, OtherControllers, instanceVars,
     controllerVars
<1>3. CASE NothingStored
  <2>1. StoreInv' /\ MarkedInv' /\ OwedInv' /\ UidInv'
    BY <1>2, <1>3 DEF NothingStored, StoreInv, VersionInv, CacheInv, EventsDistinct, Live,
       MarkedInv, Marked, OwedInv, IsCRDConditionTrue, FindCRDCondition, Held, CRDHasFinalizer,
       UidInv
  <2>2. SyncInv' /\ (OneServer => SoleInv')
    BY <1>2, <1>3 DEF NothingStored, SyncInv, Current, SoleInv, Live, ToFinalize, CRDHasFinalizer
  <2>3. QED
    BY <2>1, <2>2 DEF OneServer
<1>4. ASSUME NEW k \in CRDs, NEW obj \in CRD \cup {NoCRD}, Replaces(k, obj), ~ Releases(k, obj)
      PROVE  CleanupInv'
  <2>1. StoreInv' /\ MarkedInv' /\ OwedInv' /\ UidInv'
    BY <1>1, <1>2, <1>4, ReplacesCleanup
  <2>2. SyncInv'
    <3> SUFFICES ASSUME NEW u \in Servers, NEW j \in CRDs, NEW t, t = task'[u][j]
                 PROVE  SyncOf(t, j)'
      BY SyncInvNext
    <3>1. TaskOf(t, j) /\ SyncOf(t, j)
      BY <1>2, TasksOf, SyncInvOf DEF TypeInv
    <3>2. QED
      BY <1>1, <1>2, <1>4, <3>1, StoresSyncOf DEF Replaces
  <2>3. ASSUME OneServer PROVE SoleInv'
    <3>1. store[k] # NoCRD /\ ToFinalize(store[k]) => obj # NoCRD /\ ToFinalize(obj)
      BY <1>4 DEF Releases, Replaces, Held, ToFinalize
    <3>2. \A s \in Servers, j \in CRDs :
            task'[s][j].step \in {"list", "delete", "poll"} =>
              IF j = k THEN obj # NoCRD /\ ToFinalize(obj)
                       ELSE j \in Live /\ ToFinalize(store[j])
      BY <1>2, <2>3, <3>1 DEF SoleInv, Live
    <3>3. QED
      BY <1>1, <1>2, <1>4, <2>3, <3>2, ReplacesSole
  <2>4. QED
    BY <2>1, <2>2, <2>3 DEF OneServer
<1>5. QED
  BY <1>1, <1>3, <1>4, OthersReplace

\* CleanupInv is inductive.
LEMMA NextCleanup ==
  ASSUME TypeInv, CleanupInv, [Next]_vars
  PROVE  CleanupInv'
<1>1. ASSUME UNCHANGED <<storageVars, instanceVars, task>>
      PROVE  CleanupInv'
  <2> USE DEF CleanupInv
  <2>1. StoreInv' /\ MarkedInv' /\ OwedInv' /\ UidInv'
    BY <1>1 DEF storageVars, instanceVars, StoreInv, VersionInv, CacheInv, EventsDistinct, Live,
       MarkedInv, Marked, OwedInv, IsCRDConditionTrue, FindCRDCondition, Held, CRDHasFinalizer,
       UidInv
  <2>2. SyncInv' /\ (OneServer => SoleInv')
    BY <1>1 DEF storageVars, instanceVars, SyncInv, Current, SoleInv, Live, ToFinalize,
       CRDHasFinalizer
  <2>3. QED
    BY <2>1, <2>2 DEF OneServer
<1>2. CASE UNCHANGED vars
  BY <1>1, <1>2 DEF vars, controllerVars
<1>3. ASSUME NEW s \in Servers, Resync(s)
      PROVE  CleanupInv'
  BY <1>1, <1>3 DEF Resync
<1>4. ASSUME NEW s \in Servers, Deliver(s) \/ Relist(s) \/ Restart(s)
      PROVE  CleanupInv'
  BY <1>4, InformerCleanup DEF Deliver, Relist, Restart, instanceVars
<1>5. QED
  BY <1>2, <1>3, <1>4, SyncCleanup, InstanceCleanup, OthersCleanup DEF Next

\* It holds when nothing is stored.
LEMMA InitCleanup == Init => CleanupInv
  BY DEF Init, StorageInit, CleanupInv, StoreInv, VersionInv, CacheInv, EventsDistinct, Live,
     MarkedInv, Marked, SyncInv, Idle, At, OwedInv, UidInv, NoInstance, SoleInv

-----------------------------------------------------------------------------
(* What follows from the invariant.                                        *)

\* The invariant holds in every state.
LEMMA CleanupInvariant == Spec => [](TypeInv /\ CleanupInv)
<1>1. TypeInv /\ [Next]_vars => TypeInv'
  BY NextType
<1>2. TypeInv /\ CleanupInv /\ [Next]_vars => CleanupInv'
  BY NextCleanup
<1>3. QED
  BY <1>1, <1>2, InitTypeInv, InitCleanup, PTL DEF Spec

\* A CRD whose instances are to be cleaned up is marked terminating in the
\* store and in every cache, so that the handler refuses to create more: no
\* overlap of deletions, finalizing servers and old reads takes the mark away.
THEOREM CleanupMarked == Spec => []CleanupIsTerminating
<1>1. CleanupInv => CleanupIsTerminating
  BY DEF CleanupInv, MarkedInv, Marked, CleanupIsTerminating
<1>2. QED
  BY <1>1, CleanupInvariant, PTL

\* No instance that was stored while its CRD was established and not deleted
\* outlives the CRD, whatever the number of servers, and whatever fails.
THEOREM NothingOutlives == Spec => []CleanupComplete
<1>1. CleanupInv => CleanupComplete
  BY DEF CleanupInv, OwedInv, CleanupComplete, Live
<1>2. QED
  BY <1>1, CleanupInvariant, PTL

\* A step of the finalizer is none of the life of a CRD but, at the end, its
\* removal.
LEMMA SyncLife ==
  ASSUME TypeInv, CleanupInv, NEW s \in Servers, NEW k \in CRDs, Sync(s, k)
  PROVE  [Lifecycle!Next]_Life
<1> DEFINE t == task[s][k]
<1>1. /\ TypeOK /\ StorageTypeOK /\ TaskOf(t, k) /\ SyncOf(t, k)
  BY TasksOf, SyncInvOf DEF TypeInv, TypeOK, CleanupInv
<1>2. CASE UNCHANGED store
  BY <1>2 DEF Life
<1>3. CASE t.step \in {"begin", "fail", "finish"} /\ Current(t.crd) /\ UpdateStatus(t.crd)
  <2>1. /\ t.crd \in CRD /\ t.crd.name = k /\ store[k] # NoCRD /\ store[k].deleting
        /\ LifeOf(t.crd) = LifeOf(store[k])
    BY <1>1, <1>3, CurrentLife DEF SyncOf
  <2>2. QED
    BY <1>1, <1>3, <2>1, UpdateStatusLife DEF LifeStep
<1>4. QED
  BY <1>2, <1>3 DEF Sync, Begin, UpdateAccepted, UpdateRefused, UpdateFailed, Updating,
     ListInstances, DeleteCollection, Poll, Cleaning, storageVars

\* Every step is a step of the life of a CRD, or none.
LEMMA NextLife ==
  ASSUME TypeInv, CleanupInv, [Next]_vars
  PROVE  [Lifecycle!Next]_Life
<1>1. StorageTypeOK
  BY DEF TypeInv, TypeOK
<1>2. CASE UNCHANGED store
  BY <1>2 DEF Life
<1>3. CASE UNCHANGED vars \/ InstanceNext
  BY <1>2, <1>3 DEF vars, storageVars, InstanceNext, AdmitCreate, Create, Release
<1>4. CASE UserNext
  BY <1>1, <1>4, UserNextLife
<1>5. CASE OtherControllers
  BY <1>1, <1>5, WritersLife DEF OtherControllers
<1>6. ASSUME NEW s \in Servers, Deliver(s) \/ Resync(s) \/ Relist(s) \/ Restart(s)
      PROVE  UNCHANGED store
  BY <1>6 DEF Deliver, Resync, Relist, Restart, Receive, List, storageVars
<1>7. QED
  BY <1>2, <1>3, <1>4, <1>5, <1>6, SyncLife DEF Next

\* The finalizer, with the other writers, implements CRDLifecycle: a CRD is
\* removed only when it was deleted, and the finalizer's updates, computed from
\* old reads, take neither its names nor Established from it.
THEOREM ImplementsLifecycle == Spec => FollowsLifecycle
<1>1. Init => Lifecycle!Init
  BY DEF Init, StorageInit, Lifecycle!Init, Life, LifeOf
<1>2. TypeInv /\ CleanupInv /\ [Next]_vars => [Lifecycle!Next]_Life
  BY NextLife
<1>3. QED
  BY <1>1, <1>2, CleanupInvariant, PTL DEF Spec, FollowsLifecycle, Lifecycle!Spec

\* On one server no step touches the instances of a CRD that is not deleted.
LEMMA NextKeeps ==
  ASSUME TypeInv, CleanupInv, OneServer, [Next]_vars
  PROVE  KeepsInstances
<1>1. /\ TypeOK /\ SoleInv /\ UidInv
      /\ instances \in [CRDs -> [Namespaces -> Instance]]
      /\ task \in [Servers -> [CRDs -> Task]]
  BY DEF TypeInv, TypeOK, CleanupInv
<1>2. CASE UNCHANGED instances
  BY <1>2 DEF KeepsInstances
<1>3. CASE UNCHANGED vars \/ (UserNext /\ UNCHANGED <<instanceVars, controllerVars>>)
             \/ OtherControllers
  BY <1>2, <1>3 DEF OtherControllers, vars, instanceVars
<1>4. ASSUME NEW s \in Servers, Deliver(s) \/ Resync(s) \/ Relist(s) \/ Restart(s)
      PROVE  UNCHANGED instances
  BY <1>4 DEF Deliver, Resync, Relist, Restart, instanceVars
<1>5. ASSUME NEW s \in Servers, NEW k \in CRDs, Sync(s, k)
      PROVE  KeepsInstances
  <2>1. ASSUME NEW n \in Namespaces, DeleteCollection(s, k, n)
        PROVE  KeepsInstances
    <3>1. store[k] # NoCRD /\ store[k].deleting
      BY <1>1, <2>1 DEF DeleteCollection, Cleaning, SoleInv, Live, ToFinalize
    <3>2. \A j \in CRDs \ {k} : instances'[j] = instances[j]
      BY <1>1, <2>1 DEF DeleteCollection
    <3>3. QED
      BY <3>1, <3>2 DEF KeepsInstances, Live
  <2>2. ASSUME ~ \E n \in Namespaces : DeleteCollection(s, k, n)
        PROVE  UNCHANGED instances
    BY <1>5, <2>2 DEF Sync, Begin, UpdateAccepted, UpdateRefused, UpdateFailed, Updating,
       ListInstances, Poll, instanceVars
  <2>3. QED
    BY <1>2, <2>1, <2>2
<1>6. CASE InstanceNext
  <2>1. ASSUME NEW s \in Servers, NEW k \in CRDs, AdmitCreate(s, k)
        PROVE  UNCHANGED instances
    BY <2>1 DEF AdmitCreate
  <2>2. ASSUME NEW r \in requests, NEW n \in Namespaces, Create(r, n)
        PROVE  KeepsInstances
    <3>1. r.name \in CRDs /\ instances[r.name][n].uid = 0
      BY <1>1, <2>2 DEF Create, NoInstance, TypeOK, Request
    <3>2. \A j \in CRDs, m \in Namespaces :
            j # r.name \/ m # n => instances'[j][m] = instances[j][m]
      BY <1>1, <2>2 DEF Create
    <3>3. \A j \in Live : store[j].uid # 0
      BY <1>1 DEF UidInv, TypeOK, StorageTypeOK
    <3>4. QED
      BY <3>1, <3>2, <3>3 DEF KeepsInstances, Live
  <2>3. ASSUME NEW k \in CRDs, NEW n \in Namespaces, Release(k, n)
        PROVE  KeepsInstances
    <3>1. instances[k][n].deleting
      BY <2>3 DEF Release
    <3>2. \A j \in CRDs, m \in Namespaces :
            j # k \/ m # n => instances'[j][m] = instances[j][m]
      BY <1>1, <2>3 DEF Release
    <3>3. QED
      BY <1>1, <3>1, <3>2 DEF KeepsInstances, SoleInv, Live
  <2>4. QED
    BY <1>2, <1>6, <2>1, <2>2, <2>3 DEF InstanceNext
<1>7. QED
  BY <1>2, <1>3, <1>4, <1>5, <1>6 DEF Next

\* On one server the instances of a CRD that is not deleted are left alone: a
\* sync that began for an earlier CRD of the same name has ended before this
\* one is created.
THEOREM OneServerKeepsInstances == OneServer => (Spec => LiveInstancesKept)
<1>1. TypeInv /\ CleanupInv /\ OneServer /\ [Next]_vars => KeepsInstances
  BY NextKeeps
<1>2. SUFFICES ASSUME OneServer PROVE Spec => LiveInstancesKept
  OBVIOUS
<1>3. QED
  BY <1>1, <1>2, CleanupInvariant, PTL DEF Spec, LiveInstancesKept, vars, instanceVars

=============================================================================
