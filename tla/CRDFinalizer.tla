---------------------------- MODULE CRDFinalizer ----------------------------
(***************************************************************************)
(* CRDFinalizer of pkg/controller/finalizer, with the create requests that *)
(* the handler of custom resources admits meanwhile.                       *)
(*                                                                         *)
(* Every server runs several workers, so it finalizes different CRDs at    *)
(* once and each CRD once at a time.  A task reads the cache, announces    *)
(* the cleanup, lists the instances, deletes them namespace by namespace,  *)
(* polls until they are gone and removes the finalizer; the three status   *)
(* updates can each be refused or fail.  The instances are stored under    *)
(* the name of the CRD, not its uid.                                       *)
(***************************************************************************)
EXTENDS CRDWriters

CONSTANTS
  Namespaces,  \* the namespaces that instances live in
  MaxCreates,  \* bound on create requests for instances
  MaxFaults,   \* bound on lost watches, restarts, failed and lost requests
  Resyncs      \* does the informer's periodic resync happen?

VARIABLES
  queue,      \* [Servers -> SUBSET CRDs], the work queue
  task,       \* [Servers -> [CRDs -> Task]], the syncs under way
  instances,  \* [CRDs -> [Namespaces -> Instance]], one to a namespace
  requests,   \* SUBSET Request, the admitted creates not yet carried out
  creates,    \* how many creates have been admitted
  faults      \* how many faults have happened

instanceVars == <<instances, requests, creates>>
controllerVars == <<queue, task, faults>>
vars == <<storageVars, instanceVars, controllerVars>>

ASSUME FinalizerAssumption ==
  /\ MaxCreates \in Nat
  /\ MaxFaults \in Nat
  /\ Resyncs \in BOOLEAN

\* A sync holds the object as the store last returned it, with the changes it
\* is about to send.
Steps == {"idle", "begin", "list", "delete", "poll", "fail", "finish"}

Task == [step : Steps, crd : CRD \cup {NoCRD}, todo : SUBSET Namespaces, failed : BOOLEAN]

At(step, crd) == [step |-> step, crd |-> crd, todo |-> {}, failed |-> FALSE]

Idle == At("idle", NoCRD)

\* An instance is created under a CRD; a guarded one has a finalizer, and so
\* remains for a time after it is deleted.  "owed" is history: the instance
\* was stored when the CRD was established and not deleted.
Instance == [uid : Nat, guarded : BOOLEAN, deleting : BOOLEAN, owed : BOOLEAN]

NoInstance == [uid |-> 0, guarded |-> FALSE, deleting |-> FALSE, owed |-> FALSE]

Request == [server : Servers, name : CRDs, uid : Nat]

TypeOK ==
  /\ StorageTypeOK
  /\ queue \in [Servers -> SUBSET CRDs]
  /\ task \in [Servers -> [CRDs -> Task]]
  /\ instances \in [CRDs -> [Namespaces -> Instance]]
  /\ requests \in SUBSET Request
  /\ creates \in 0..MaxCreates
  /\ faults \in 0..MaxFaults

Init ==
  /\ StorageInit
  /\ queue = [s \in Servers |-> {}]
  /\ task = [s \in Servers |-> [k \in CRDs |-> Idle]]
  /\ instances = [k \in CRDs |-> [n \in Namespaces |-> NoInstance]]
  /\ requests = {}
  /\ creates = 0
  /\ faults = 0

Present(k) == {n \in Namespaces : instances[k][n] # NoInstance}

Fault == faults < MaxFaults /\ faults' = faults + 1

-----------------------------------------------------------------------------
(* The informer's handlers.                                                *)

WithoutTerminating(crd) == RemoveCRDCondition([crd EXCEPT !.rv = 0], "Terminating")

\* The finalizer's own updates change nothing but the Terminating condition.
OnlyTerminatingDiffers(old, new) == WithoutTerminating(old) = WithoutTerminating(new)

\* As if resyncs were filtered like other updates.
ToQueueChanges(old, new) ==
  /\ new # NoCRD
  /\ ToFinalize(new)
  /\ old = NoCRD \/ ~ OnlyTerminatingDiffers(old, new)

\* Deleted CRDs that it has not finalized are queued when they are added, and
\* when they are resynced or change in more than the Terminating condition.
ToQueue(old, new) ==
  /\ new # NoCRD
  /\ ToFinalize(new)
  /\ old = NoCRD \/ old = new \/ ~ OnlyTerminatingDiffers(old, new)

Deliver(s) ==
  \E e \in watch[s] :
    /\ Receive(s, e)
    /\ queue' = [queue EXCEPT ![s] =
                   @ \cup {k \in {e.name} : ToQueue(cache[s][k], e.obj)}]
    /\ UNCHANGED <<instanceVars, task, faults>>

Relist(s) ==
  /\ Fault
  /\ List(s)
  /\ queue' = [queue EXCEPT ![s] =
                 @ \cup {k \in Changed(s) : ToQueue(cache[s][k], store[k])}]
  /\ UNCHANGED <<instanceVars, task>>

\* The resync updates every cached CRD to itself.
Resync(s) ==
  /\ Resyncs
  /\ queue' = [queue EXCEPT ![s] =
                 @ \cup {k \in CRDs : ToQueue(cache[s][k], cache[s][k])}]
  /\ UNCHANGED <<storageVars, instanceVars, task, faults>>

\* The server restarts: its requests and syncs end, and every CRD is added.
Restart(s) ==
  /\ Fault
  /\ List(s)
  /\ queue' = [queue EXCEPT ![s] = {k \in CRDs : ToQueue(NoCRD, store[k])}]
  /\ task' = [task EXCEPT ![s] = [k \in CRDs |-> Idle]]
  /\ requests' = {r \in requests : r.server # s}
  /\ UNCHANGED <<instances, creates>>

-----------------------------------------------------------------------------
(* The workers.                                                            *)

SetTask(s, k, t) == task' = [task EXCEPT ![s][k] = t]

Enqueue(s, k) == queue' = [queue EXCEPT ![s] = @ \cup {k}]

\* The next update after the cleanup ended for a reason.
Finishing(crd, reason) ==
  At("finish", CRDRemoveFinalizer(WithTerminating(crd, "False", reason), CleanupFinalizer))

\* The next update after it failed for a reason.
Failing(crd, reason) == At("fail", WithTerminating(crd, "True", reason))

\* The cleanup is announced; only an established CRD has its instances
\* deleted, unless a built-in resource shares them.
Announced(crd) ==
  IF crd.name \in Overlapping THEN Finishing(crd, "OverlappingBuiltInResource")
  ELSE IF IsCRDConditionTrue(crd, "Established") THEN At("list", crd)
  ELSE Finishing(crd, "NeverEstablished")

\* The deletions yet to issue, and what follows the last.
Deleting(crd, todo, failed) ==
  IF todo # {} THEN [At("delete", crd) EXCEPT !.todo = todo, !.failed = failed]
  ELSE IF failed THEN Failing(crd, "InstanceDeletionFailed") ELSE At("poll", crd)

\* As if the cleanup were not announced but began at once.
BeginUnannounced(s, k) ==
  /\ task[s][k] = Idle
  /\ k \in queue[s]
  /\ queue' = [queue EXCEPT ![s] = @ \ {k}]
  /\ SetTask(s, k, IF cache[s][k] # NoCRD /\ ToFinalize(cache[s][k])
                   THEN Announced(cache[s][k]) ELSE Idle)
  /\ UNCHANGED <<storageVars, instanceVars, faults>>

Begin(s, k) ==
  /\ task[s][k] = Idle
  /\ k \in queue[s]
  /\ queue' = [queue EXCEPT ![s] = @ \ {k}]
  /\ SetTask(s, k, IF cache[s][k] # NoCRD /\ ToFinalize(cache[s][k])
                   THEN At("begin", WithTerminating(cache[s][k], "True",
                                                    "InstanceDeletionInProgress"))
                   ELSE Idle)
  /\ UNCHANGED <<storageVars, instanceVars, faults>>

\* A status update is on its way.
Updating(s, k) ==
  /\ task[s][k].step \in {"begin", "fail", "finish"}
  /\ UNCHANGED <<cache, userWrites, instanceVars>>

\* It is stored: the first one is followed by the cleanup, and that of a
\* failure by another attempt.
UpdateAccepted(s, k) ==
  LET t == task[s][k]
  IN  /\ Updating(s, k)
      /\ Current(t.crd)
      /\ UpdateStatus(t.crd)
      /\ SetTask(s, k, IF t.step = "begin" THEN Announced(store'[k]) ELSE Idle)
      /\ IF t.step = "fail" THEN Enqueue(s, k) ELSE UNCHANGED queue
      /\ UNCHANGED faults

\* NotFound or Conflict ends the sync without an error, except that the error
\* of the cleanup remains.
UpdateRefused(s, k) ==
  LET t == task[s][k]
  IN  /\ Updating(s, k)
      /\ ~ Current(t.crd)
      /\ SetTask(s, k, Idle)
      /\ IF t.step = "fail" THEN Enqueue(s, k) ELSE UNCHANGED queue
      /\ UNCHANGED <<rv, store, watch, faults>>

\* Any other error queues the key again; the update may have been stored.
UpdateFailed(s, k) ==
  /\ Updating(s, k)
  /\ Fault
  /\ SetTask(s, k, Idle)
  /\ Enqueue(s, k)
  /\ \/ UNCHANGED <<rv, store, watch>>
     \/ Current(task[s][k].crd) /\ UpdateStatus(task[s][k].crd)

\* The cleanup reads and deletes instances only.
Cleaning(s, k, step) ==
  /\ task[s][k].step = step
  /\ UNCHANGED <<storageVars, queue, requests, creates>>

\* The storage of the instances is found by uid or built from the cached CRD
\* of the name, whatever its uid.
ListInstances(s, k) ==
  LET crd == task[s][k].crd
  IN  /\ Cleaning(s, k, "list")
      /\ UNCHANGED instances
      /\ \/ SetTask(s, k, Deleting(crd, Present(k), FALSE)) /\ UNCHANGED faults
         \/ /\ IF cache[s][k] = NoCRD THEN UNCHANGED faults ELSE Fault
            /\ SetTask(s, k, Failing(crd, "InstanceDeletionFailed"))

\* What becomes of an instance that is deleted.
Deleted(i) == IF i.guarded THEN [i EXCEPT !.deleting = TRUE] ELSE NoInstance

DeleteCollection(s, k, n) ==
  LET t == task[s][k]
  IN  /\ Cleaning(s, k, "delete")
      /\ n \in t.todo
      /\ \/ /\ instances' = [instances EXCEPT ![k][n] = Deleted(@)]
            /\ SetTask(s, k, Deleting(t.crd, t.todo \ {n}, t.failed))
            /\ UNCHANGED faults
         \/ /\ Fault
            /\ SetTask(s, k, Deleting(t.crd, t.todo \ {n}, TRUE))
            /\ UNCHANGED instances

\* As if a poll trusted the deletions that the sync issued.
PollTrusting(s, k) ==
  /\ Cleaning(s, k, "poll")
  /\ UNCHANGED <<instances, faults>>
  /\ SetTask(s, k, Finishing(task[s][k].crd, "InstanceDeletionCompleted"))

\* Polling ends when no instance is left, or after an error or a minute; the
\* minute passes, at the latest, when an instance is left that nobody deletes.
Poll(s, k) ==
  /\ Cleaning(s, k, "poll")
  /\ UNCHANGED instances
  /\ \/ /\ Present(k) = {}
        /\ SetTask(s, k, Finishing(task[s][k].crd, "InstanceDeletionCompleted"))
        /\ UNCHANGED faults
     \/ /\ IF \E n \in Present(k) : ~ instances[k][n].deleting
           THEN UNCHANGED faults ELSE Fault
        /\ SetTask(s, k, Failing(task[s][k].crd, "InstanceDeletionCheck"))

Sync(s, k) ==
  \/ Begin(s, k)
  \/ UpdateAccepted(s, k) \/ UpdateRefused(s, k) \/ UpdateFailed(s, k)
  \/ ListInstances(s, k)
  \/ \E n \in Namespaces : DeleteCollection(s, k, n)
  \/ Poll(s, k)

-----------------------------------------------------------------------------
(* The instances.                                                          *)

\* The handler reads the cache once and forbids creation while it says that
\* the CRD is terminating.
AdmitCreate(s, k) ==
  /\ creates < MaxCreates
  /\ cache[s][k] # NoCRD
  /\ Served(cache[s][k])
  /\ ~ IsCRDConditionTrue(cache[s][k], "Terminating")
  /\ requests' = requests \cup {[server |-> s, name |-> k, uid |-> cache[s][k].uid]}
  /\ creates' = creates + 1
  /\ UNCHANGED <<storageVars, instances, controllerVars>>

\* A CRD for whose instances the cleanup is responsible.
Takes(crd, uid) ==
  /\ crd # NoCRD
  /\ crd.uid = uid
  /\ ~ crd.deleting
  /\ IsCRDConditionTrue(crd, "Established")
  /\ crd.name \notin Overlapping

\* An admitted create is carried out later, if at all.
Create(r, n) ==
  /\ r \in requests
  /\ instances[r.name][n] = NoInstance
  /\ \E guarded \in BOOLEAN :
       instances' = [instances EXCEPT ![r.name][n] =
                       [uid |-> r.uid, guarded |-> guarded, deleting |-> FALSE,
                        owed |-> Takes(store[r.name], r.uid)]]
  /\ requests' = requests \ {r}
  /\ UNCHANGED <<storageVars, creates, controllerVars>>

\* The finalizer of a deleted instance is removed by its owner.
Release(k, n) ==
  /\ instances[k][n].deleting
  /\ instances' = [instances EXCEPT ![k][n] = NoInstance]
  /\ UNCHANGED <<storageVars, requests, creates, controllerVars>>

InstanceNext ==
  \/ \E s \in Servers, k \in CRDs : AdmitCreate(s, k)
  \/ \E r \in requests, n \in Namespaces : Create(r, n)
  \/ \E k \in CRDs, n \in Namespaces : Release(k, n)

-----------------------------------------------------------------------------
OtherControllers ==
  /\ \E k \in CRDs : Name(k) \/ Establish(k) \/ RemoveFinalizer(k)
  /\ UNCHANGED <<cache, userWrites, instanceVars, controllerVars>>

Next ==
  \/ UserNext /\ UNCHANGED <<instanceVars, controllerVars>>
  \/ OtherControllers
  \/ InstanceNext
  \/ \E s \in Servers, k \in CRDs : Sync(s, k)
  \/ \E s \in Servers : Deliver(s) \/ Resync(s) \/ Relist(s) \/ Restart(s)

Spec == Init /\ [][Next]_vars

\* Events are delivered, caches resynced, queued keys taken, syncs continued,
\* and finalizers of deleted instances removed.
Fairness ==
  /\ \A s \in Servers : WF_vars(Deliver(s)) /\ WF_vars(Resync(s))
  /\ \A s \in Servers, k \in CRDs : WF_vars(Sync(s, k))
  /\ \A k \in CRDs, n \in Namespaces : WF_vars(Release(k, n))

FairSpec == Spec /\ Fairness

-----------------------------------------------------------------------------
(* Invariants.                                                             *)

\* A sync is about the CRD of its key, which it still holds by the finalizer
\* until it sends the update that removes it.
TaskInv ==
  \A s \in Servers, k \in CRDs :
    LET t == task[s][k]
    IN  /\ t.step # "idle" => t.crd # NoCRD /\ t.crd.name = k
        /\ t.step \notin {"idle", "finish"} => ToFinalize(t.crd)

\* No sync cleans up the instances of a built-in resource, and none of them
\* has been deleted.
BuiltInInv ==
  \A k \in Overlapping :
    /\ \A s \in Servers : task[s][k].step \notin {"list", "delete", "poll"}
    /\ \A n \in Namespaces : ~ instances[k][n].deleting

\* A CRD whose instances are to be cleaned up is marked terminating.
Marked(crd) == crd # NoCRD /\ ToFinalize(crd) => IsCRDConditionTrue(crd, "Terminating")

\* So is every object in the store, in a cache or on its way to one.
MarkedInv ==
  /\ \A k \in CRDs : Marked(store[k])
  /\ \A s \in Servers : /\ \A k \in CRDs : Marked(cache[s][k])
                        /\ \A e \in watch[s] : Marked(e.obj)

\* A sync holds a deleted, marked object no newer than the last write; when the
\* store would accept it, it is the stored CRD and says of its life what is
\* stored.  Once it has found no instances none is owed to that CRD.
SyncInv ==
  \A s \in Servers, k \in CRDs :
    LET t == task[s][k]
    IN  t.step # "idle" =>
          /\ t.crd.deleting /\ Marked(t.crd)
          /\ t.crd.rv <= rv
          /\ Current(t.crd) =>
               /\ t.crd.uid = store[k].uid
               /\ LifeOf(t.crd) = LifeOf(store[k])
               /\ t.step = "finish" => \A n \in Namespaces : ~ instances[k][n].owed

\* The finalizer still has the instances of a deleted CRD to clean up.
Held(crd) == crd.deleting => CRDHasFinalizer(crd, CleanupFinalizer)

\* An instance is owed to the stored CRD, which is established.
OwedInv ==
  \A k \in CRDs, n \in Namespaces :
    instances[k][n].owed =>
      /\ k \in Live \ Overlapping
      /\ store[k].uid = instances[k][n].uid
      /\ IsCRDConditionTrue(store[k], "Established")
      /\ Held(store[k])

\* The uids of CRDs, and those that instances are created under, are versions
\* of the past.
UidInv ==
  /\ \A k \in Live : store[k].uid \in 1..rv
  /\ \A s \in Servers :
       /\ \A k \in CRDs : cache[s][k] # NoCRD => cache[s][k].uid <= rv
       /\ \A e \in watch[s] : e.obj # NoCRD => e.obj.uid <= rv
  /\ \A r \in requests : r.uid <= rv
  /\ \A k \in CRDs, n \in Namespaces : instances[k][n].uid <= rv

OneServer == \A s, t \in Servers : s = t

\* On one server a sync that cleans up does so for the stored CRD, which waits
\* for it; a deleted instance is not one of a CRD that is not deleted.
SoleInv ==
  /\ \A s \in Servers, k \in CRDs :
       task[s][k].step \in {"list", "delete", "poll"} =>
         k \in Live /\ ToFinalize(store[k])
  /\ \A k \in Live, n \in Namespaces :
       instances[k][n].deleting /\ instances[k][n].uid = store[k].uid => store[k].deleting

-----------------------------------------------------------------------------
(* Properties.                                                             *)

\* As long as its instances are to be cleaned up a CRD is marked terminating,
\* for the handler to see, in the store and in every cache: no overlap of
\* deletions, finalizing servers and other updates takes the mark away.
CleanupIsTerminating ==
  \A k \in CRDs :
    \A crd \in {store[k]} \cup {cache[s][k] : s \in Servers} :
      crd # NoCRD /\ ToFinalize(crd) => IsCRDConditionTrue(crd, "Terminating")

\* The instances of a CRD that is not deleted are left alone, even by a sync
\* that began for an earlier CRD of the same name.
KeepsInstances ==
  \A k \in Live, n \in Namespaces :
    instances[k][n].uid = store[k].uid /\ ~ store[k].deleting
      => instances'[k][n] = instances[k][n]

LiveInstancesKept == [][KeepsInstances]_instances

\* The instances of a resource that a built-in API also stores are left alone:
\* the cleanup of the CRD, begun by whatever event or failure, deletes none.
KeepsBuiltIns ==
  \A k \in Overlapping, n \in Namespaces :
    instances[k][n] # NoInstance => instances'[k][n] = instances[k][n]

BuiltInsKept == [][KeepsBuiltIns]_instances

\* No instance that was stored while its CRD was established and not deleted
\* outlives the CRD, although its own finalizer may delay its removal, syncs
\* fail half way and other servers finalize too.
CleanupComplete ==
  \A k \in CRDs, n \in Namespaces :
    instances[k][n].owed => k \in Live /\ store[k].uid = instances[k][n].uid

\* Whatever fails, a deleted CRD that only this controller holds is removed.
DeletedIsRemoved ==
  \A k \in CRDs :
    k \in Live /\ store[k].deleting /\ store[k].finalizers = {CleanupFinalizer}
      ~> k \notin Live \/ ~ store[k].deleting

=============================================================================
