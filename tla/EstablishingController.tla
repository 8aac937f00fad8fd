----------------------- MODULE EstablishingController -----------------------
(***************************************************************************)
(* EstablishingController of pkg/controller/establish, and the part of the *)
(* handler of custom resources that queues CRDs for it.                    *)
(*                                                                         *)
(* It has no informer handlers of its own: the handler of custom resources *)
(* queues a CRD when it sees it updated (or resynced), not when it sees it *)
(* added.  One worker reads the cache and sends a status update; other     *)
(* writers may act, and events arrive, before the store answers.           *)
(***************************************************************************)
EXTENDS CRDWriters

CONSTANTS
  MaxFaults,  \* bound on lost watches, restarts, failed and lost requests
  Resyncs     \* does the informer's periodic resync happen?

VARIABLES
  queue,   \* [Servers -> SUBSET CRDs], the work queue
  worker,  \* [Servers -> CRD \cup {NoCRD}], the status update in flight
  faults   \* how many faults have happened

controllerVars == <<queue, worker, faults>>
vars == <<storageVars, controllerVars>>

ASSUME EstablishingAssumption == MaxFaults \in Nat /\ Resyncs \in BOOLEAN

TypeOK ==
  /\ StorageTypeOK
  /\ queue \in [Servers -> SUBSET CRDs]
  /\ worker \in [Servers -> CRD \cup {NoCRD}]
  /\ faults \in 0..MaxFaults

Init ==
  /\ StorageInit
  /\ queue = [s \in Servers |-> {}]
  /\ worker = [s \in Servers |-> NoCRD]
  /\ faults = 0

-----------------------------------------------------------------------------
(* updateCustomResourceDefinition of the handler.  On several servers the   *)
(* key waits five seconds on its way to the queue.                         *)

\* As if only the change of the names' condition queued the CRD.
ToQueueOnce(old, new) ==
  /\ old # NoCRD
  /\ new # NoCRD
  /\ ToEstablish(new)
  /\ ~ IsCRDConditionTrue(old, "NamesAccepted")

ToQueue(old, new) == old # NoCRD /\ new # NoCRD /\ ToEstablish(new)

Fault == faults < MaxFaults /\ faults' = faults + 1

Deliver(s) ==
  \E e \in watch[s] :
    /\ Receive(s, e)
    /\ queue' = [queue EXCEPT ![s] =
                   @ \cup {k \in {e.name} : ToQueue(cache[s][k], e.obj)}]
    /\ UNCHANGED <<worker, faults>>

Relist(s) ==
  /\ Fault
  /\ List(s)
  /\ queue' = [queue EXCEPT ![s] =
                 @ \cup {k \in Changed(s) : ToQueue(cache[s][k], store[k])}]
  /\ UNCHANGED worker

\* The resync updates every cached CRD to itself.
Resync(s) ==
  /\ Resyncs
  /\ queue' = [queue EXCEPT ![s] =
                 @ \cup {k \in CRDs : ToQueue(cache[s][k], cache[s][k])}]
  /\ UNCHANGED <<storageVars, worker, faults>>

\* The server restarts: its first list adds every CRD, which queues none.
Restart(s) ==
  /\ Fault
  /\ List(s)
  /\ queue' = [queue EXCEPT ![s] = {}]
  /\ worker' = [worker EXCEPT ![s] = NoCRD]

-----------------------------------------------------------------------------
(* The worker.                                                             *)

Sync(s, k) ==
  /\ worker[s] = NoCRD
  /\ k \in queue[s]
  /\ queue' = [queue EXCEPT ![s] = @ \ {k}]
  /\ worker' = [worker EXCEPT ![s] =
                  IF cache[s][k] # NoCRD /\ ToEstablish(cache[s][k])
                  THEN WithEstablished(cache[s][k]) ELSE NoCRD]
  /\ UNCHANGED <<storageVars, faults>>

Answered(s) ==
  /\ worker[s] # NoCRD
  /\ worker' = [worker EXCEPT ![s] = NoCRD]
  /\ UNCHANGED <<cache, userWrites>>

UpdateAccepted(s) ==
  /\ Answered(s)
  /\ Current(worker[s])
  /\ UpdateStatus(worker[s])
  /\ UNCHANGED <<queue, faults>>

\* NotFound or Conflict: the update that got in between is to queue the CRD.
UpdateRefused(s) ==
  /\ Answered(s)
  /\ ~ Current(worker[s])
  /\ UNCHANGED <<rv, store, watch, queue, faults>>

Requeue(s) == queue' = [queue EXCEPT ![s] = @ \cup {worker[s].name}]

UpdateFailed(s) ==
  /\ Answered(s)
  /\ Fault
  /\ Requeue(s)
  /\ UNCHANGED <<rv, store, watch>>

\* The store commits the update, yet the worker sees an error.
ResponseLost(s) ==
  /\ Answered(s)
  /\ Current(worker[s])
  /\ Fault
  /\ UpdateStatus(worker[s])
  /\ Requeue(s)

Answer(s) ==
  UpdateAccepted(s) \/ UpdateRefused(s) \/ UpdateFailed(s) \/ ResponseLost(s)

-----------------------------------------------------------------------------
OtherControllers ==
  /\ \E k \in CRDs : Name(k) \/ BeginFinalize(k) \/ Finalize(k) \/ RemoveFinalizer(k)
  /\ UNCHANGED <<cache, userWrites, controllerVars>>

Next ==
  \/ UserNext /\ UNCHANGED controllerVars
  \/ OtherControllers
  \/ \E s \in Servers, k \in CRDs : Sync(s, k)
  \/ \E s \in Servers : Answer(s) \/ Deliver(s) \/ Resync(s) \/ Relist(s) \/ Restart(s)

Spec == Init /\ [][Next]_vars

\* Events are delivered, requests answered, and caches resynced every five
\* minutes; the queue is first in, first out.
Fairness ==
  /\ \A s \in Servers : WF_vars(Deliver(s)) /\ WF_vars(Answer(s)) /\ WF_vars(Resync(s))
  /\ \A s \in Servers, k \in CRDs : SF_vars(Sync(s, k))

FairSpec == Spec /\ Fairness

-----------------------------------------------------------------------------
(* Invariants.                                                             *)

\* An update in flight is no newer than the last write, and one that the store
\* would accept is what the stored object asks for.
WorkerInv ==
  \A s \in Servers :
    worker[s] # NoCRD =>
      /\ worker[s].rv <= rv
      /\ Current(worker[s]) =>
           LET old == store[worker[s].name]
           IN  ToEstablish(old) /\ worker[s] = WithEstablished(old)

-----------------------------------------------------------------------------
(* Properties.                                                             *)

\* A CRD is validated before its webhook is needed and afterwards not allowed
\* to break it; the controller looks at the webhook in between, in a cached
\* object.  No established CRD has a webhook that cannot be called.
EstablishedHasBundle == \A k \in Live : BundleValid(store[k])

\* A CRD whose names are accepted does not wait for ever, whatever update the
\* handler did not see: it is established, or there is a reason not to be.
AcceptedIsEstablished ==
  \A k \in CRDs :
    k \in Live /\ ToEstablish(store[k]) /\ ~ store[k].badBundle
      ~> k \notin Live \/ ~ ToEstablish(store[k]) \/ store[k].badBundle

\* A webhook that cannot be called is reported, and the controller, which its
\* own report queues again, comes to rest.
Unestablishable(k) == k \in Live /\ ToEstablish(store[k]) /\ store[k].badBundle

Reported(k) ==
  /\ k \in Live
  /\ FindCRDCondition(store[k], "Established") = Condition("False", "InvalidCABundle")

BadBundleReported ==
  \A k \in CRDs : <>[]Unestablishable(k) => <>[]Reported(k)

=============================================================================
