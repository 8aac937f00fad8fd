-------------------------- MODULE NamingController --------------------------
(***************************************************************************)
(* NamingConditionController of pkg/controller/status: it reserves the     *)
(* names of CRDs within their group by copying spec.names, name by name,   *)
(* to status.acceptedNames.                                                *)
(*                                                                         *)
(* Every server runs one worker.  A sync reads the informer's cache,       *)
(* overlaid with the mutation cache of the objects the worker has itself   *)
(* written, computes a new status and sends it as a status update; other   *)
(* writers may act, and events arrive, between the computation and the     *)
(* store's answer.                                                         *)
(***************************************************************************)
EXTENDS CRDWriters

CONSTANTS
  MaxFaults,      \* bound on lost watches, restarts and failed requests
  LosesResponses, \* may a committed status update be reported as failed?
  Resyncs         \* does the informer's periodic resync happen?

VARIABLES
  queue,          \* [Servers -> SUBSET CRDs], the work queue
  mutationCache,  \* [Servers -> [CRDs -> CRD \cup {NoCRD}]]
  worker,         \* [Servers -> CRD \cup {NoCRD}], the status update in flight
  faults          \* how many faults have happened

controllerVars == <<queue, mutationCache, worker>>
vars == <<storageVars, controllerVars, faults>>

ASSUME NamingAssumption ==
  /\ MaxFaults \in Nat
  /\ LosesResponses \in BOOLEAN
  /\ Resyncs \in BOOLEAN

TypeOK ==
  /\ StorageTypeOK
  /\ queue \in [Servers -> SUBSET CRDs]
  /\ mutationCache \in [Servers -> [CRDs -> CRD \cup {NoCRD}]]
  /\ worker \in [Servers -> CRD \cup {NoCRD}]
  /\ faults \in 0..MaxFaults

Init ==
  /\ StorageInit
  /\ queue = [s \in Servers |-> {}]
  /\ mutationCache = [s \in Servers |-> [k \in CRDs |-> NoCRD]]
  /\ worker = [s \in Servers |-> NoCRD]
  /\ faults = 0

Peers(k) == {j \in CRDs \ {k} : GroupOf[j] = GroupOf[k]}

-----------------------------------------------------------------------------
(* The computation.                                                        *)

\* The mutation cache answers with its own object only when that is newer
\* than the cached one, and with nothing when there is no cached one.
Newer(cached, mutated) ==
  IF cached # NoCRD /\ mutated # NoCRD /\ cached.rv < mutated.rv
  THEN mutated ELSE cached

\* As if the lister were read without the mutation cache.
ViewOfListerAlone(s, k) == cache[s][k]

View(s, k) == Newer(cache[s][k], mutationCache[s][k])

SpaceOf(f) == IF f \in ResourceFields THEN ResourceFields ELSE KindFields

\* The names of one space that are accepted for some CRD of k's group, k's
\* own included.
AcceptedNamesForGroup(s, k, space) ==
  UNION {Claimed(View(s, j).accepted, space) :
           j \in {i \in CRDs : cache[s][i] # NoCRD /\ GroupOf[i] = GroupOf[k]}}

\* The requested names of field f that are in use and not accepted already.
Conflicts(s, in, f) ==
  (in.names[f] \ in.accepted[f]) \cap AcceptedNamesForGroup(s, in.name, SpaceOf(f))

\* As if a field in conflict were cleared and not kept.
NamesWithoutConflicts(s, in) ==
  [f \in {g \in NameFields : Conflicts(s, in, g) = {}} |-> in.names[f]]

\* Each field is accepted or kept on its own.
AcceptableNames(s, in) ==
  [f \in NameFields |-> IF Conflicts(s, in, f) = {} THEN in.names[f]
                                                    ELSE in.accepted[f]]

\* Every conflict overwrites the reason and message of the one before it.
CheckOrder == <<"plural", "singular", "shortNames", "kind", "listKind">>

\* As if only a conflict of the plural counted.
PluralAcceptedCondition(s, in) ==
  IF Conflicts(s, in, "plural") = {} THEN Condition("True", "NoConflicts")
                                     ELSE Condition("False", "plural")

NamesAcceptedCondition(s, in) ==
  LET failed == {i \in 1..5 : Conflicts(s, in, CheckOrder[i]) # {}}
      last   == CHOOSE i \in failed : \A j \in failed : j <= i
  IN  IF failed = {}
      THEN Condition("True", "NoConflicts")
      ELSE [status |-> "False", reason |-> CheckOrder[last],
            names |-> Conflicts(s, in, CheckOrder[last])]

\* As if sync left the Established condition to others.
WithNamesAcceptedOnly(s, in) ==
  SetCRDCondition([in EXCEPT !.accepted = AcceptableNames(s, in)],
                  "NamesAccepted", NamesAcceptedCondition(s, in))

\* The object that sync sends as a status update.
WithStatus(s, in) ==
  LET namesAccepted == NamesAcceptedCondition(s, in)
  IN  SetCRDCondition(
        SetCRDCondition([in EXCEPT !.accepted = AcceptableNames(s, in)],
                        "NamesAccepted", namesAccepted),
        "Established", EstablishedCondition(in, namesAccepted))

\* sync has nothing to write: either the names in spec and status are equal,
\* or neither the accepted names nor the NamesAccepted condition change.
UpToDate(s, in) ==
  \/ in.names = in.accepted
  \/ /\ AcceptableNames(s, in) = in.accepted
     /\ NamesAcceptedCondition(s, in) = FindCRDCondition(in, "NamesAccepted")

-----------------------------------------------------------------------------
(* The worker.                                                             *)

\* As if a sync that frees names woke nobody.
NoPeers(s, k) == {}

\* requeueAllOtherGroupCRDs, which lists the cache.
CachedPeers(s, k) == {j \in Peers(k) : cache[s][j] # NoCRD}

Fault == faults < MaxFaults /\ faults' = faults + 1

Take(s, k) == worker[s] = NoCRD /\ k \in queue[s]

\* A CRD that is gone has freed its names.
SyncDeleted(s, k) ==
  /\ Take(s, k)
  /\ cache[s][k] = NoCRD
  /\ queue' = [queue EXCEPT ![s] = (@ \ {k}) \cup CachedPeers(s, k)]
  /\ UNCHANGED <<storageVars, mutationCache, worker, faults>>

SyncUpToDate(s, k) ==
  /\ Take(s, k)
  /\ cache[s][k] # NoCRD
  /\ UpToDate(s, cache[s][k])
  /\ queue' = [queue EXCEPT ![s] = @ \ {k}]
  /\ UNCHANGED <<storageVars, mutationCache, worker, faults>>

SyncUpdate(s, k) ==
  /\ Take(s, k)
  /\ cache[s][k] # NoCRD
  /\ ~ UpToDate(s, cache[s][k])
  /\ queue' = [queue EXCEPT ![s] = @ \ {k}]
  /\ worker' = [worker EXCEPT ![s] = WithStatus(s, cache[s][k])]
  /\ UNCHANGED <<storageVars, mutationCache, faults>>

Answered(s) ==
  /\ worker[s] # NoCRD
  /\ worker' = [worker EXCEPT ![s] = NoCRD]
  /\ UNCHANGED <<cache, userWrites>>

\* The update is stored and answered: it is remembered in the mutation cache,
\* and as it may have released a name the rest of the group is queued.
UpdateAccepted(s) ==
  LET k == worker[s].name
  IN  /\ Answered(s)
      /\ Current(worker[s])
      /\ UpdateStatus(worker[s])
      /\ mutationCache' = [mutationCache EXCEPT ![s][k] = store'[k]]
      /\ queue' = [queue EXCEPT ![s] = @ \cup CachedPeers(s, k)]
      /\ UNCHANGED faults

\* NotFound or Conflict ends the sync: a further event is on its way.
UpdateRefused(s) ==
  /\ Answered(s)
  /\ ~ Current(worker[s])
  /\ UNCHANGED <<rv, store, watch, queue, mutationCache, faults>>

\* Any other error queues the key again.
UpdateFailed(s) ==
  /\ Answered(s)
  /\ Fault
  /\ queue' = [queue EXCEPT ![s] = @ \cup {worker[s].name}]
  /\ UNCHANGED <<rv, store, watch, mutationCache>>

\* The store commits the update but the worker sees an error, such as a
\* timeout: nothing is remembered.
ResponseLost(s) ==
  /\ LosesResponses
  /\ Answered(s)
  /\ Current(worker[s])
  /\ Fault
  /\ UpdateStatus(worker[s])
  /\ queue' = [queue EXCEPT ![s] = @ \cup {worker[s].name}]
  /\ UNCHANGED mutationCache

Sync(s, k) == SyncDeleted(s, k) \/ SyncUpToDate(s, k) \/ SyncUpdate(s, k)

Answer(s) ==
  UpdateAccepted(s) \/ UpdateRefused(s) \/ UpdateFailed(s) \/ ResponseLost(s)

-----------------------------------------------------------------------------
(* The informer's handlers: additions, updates and deletions alike queue    *)
(* the key.                                                                *)

Deliver(s) ==
  \E e \in watch[s] :
    /\ Receive(s, e)
    /\ queue' = [queue EXCEPT ![s] = @ \cup {e.name}]
    /\ UNCHANGED <<mutationCache, worker, faults>>

Relist(s) ==
  /\ Fault
  /\ List(s)
  /\ queue' = [queue EXCEPT ![s] = @ \cup Changed(s)]
  /\ UNCHANGED <<mutationCache, worker>>

\* The resync updates every cached CRD to itself.
Resync(s) ==
  /\ Resyncs
  /\ queue' = [queue EXCEPT ![s] = @ \cup {k \in CRDs : cache[s][k] # NoCRD}]
  /\ UNCHANGED <<storageVars, mutationCache, worker, faults>>

\* The server restarts: its first list adds every CRD.
Restart(s) ==
  /\ Fault
  /\ List(s)
  /\ queue' = [queue EXCEPT ![s] = Live]
  /\ mutationCache' = [mutationCache EXCEPT ![s] = [k \in CRDs |-> NoCRD]]
  /\ worker' = [worker EXCEPT ![s] = NoCRD]

-----------------------------------------------------------------------------
(* The other writers of CRDs.                                              *)

OtherControllers ==
  /\ \E k \in CRDs :
       Establish(k) \/ BeginFinalize(k) \/ Finalize(k) \/ RemoveFinalizer(k)
  /\ UNCHANGED <<cache, userWrites, controllerVars, faults>>

-----------------------------------------------------------------------------
Next ==
  \/ UserNext /\ UNCHANGED <<controllerVars, faults>>
  \/ OtherControllers
  \/ \E s \in Servers, k \in CRDs : Sync(s, k)
  \/ \E s \in Servers : Answer(s) \/ Deliver(s) \/ Resync(s) \/ Relist(s) \/ Restart(s)

Spec == Init /\ [][Next]_vars

\* Every event is delivered and every request answered; the queue is first
\* in, first out, so no key waits in it for ever.
Fairness ==
  /\ \A s \in Servers : WF_vars(Deliver(s)) /\ WF_vars(Answer(s))
  /\ \A s \in Servers, k \in CRDs : SF_vars(Sync(s, k))

FairSpec == Spec /\ Fairness

-----------------------------------------------------------------------------
(* Properties.                                                             *)

\* The worker reserves names: no name is accepted for two CRDs of a group,
\* whatever the informer has still to deliver when a sync computes.
NamesUnique ==
  \A k \in Live : \A j \in Peers(k) \cap Live :
    \A space \in {ResourceFields, KindFields} :
      Claimed(store[k].accepted, space) \cap Claimed(store[j].accepted, space) = {}

\* A status update is computed from an old read, yet it only ever accepts
\* what the spec asks for when it is stored: each accepted name is left as it
\* was or becomes the requested one.
AcceptsRequested ==
  \A k \in CRDs :
    store[k] # NoCRD /\ store'[k] # NoCRD
      => \A f \in NameFields :
           store'[k].accepted[f] \in {store[k].accepted[f], store[k].names[f]}

AcceptsOnlyRequested == [][AcceptsRequested]_store

\* Established is true until the CRD is deleted, whichever writers overlap.
KeepsEstablished ==
  \A k \in CRDs :
    store[k] # NoCRD /\ store'[k] # NoCRD /\ IsCRDConditionTrue(store[k], "Established")
      => IsCRDConditionTrue(store'[k], "Established")

EstablishedStays == [][KeepsEstablished]_store

\* A CRD is served as soon as NamesAccepted is true, and a create then reads
\* the Established condition: it is there, true or not.
ServedHasEstablishedCondition ==
  \A k \in Live : IsCRDConditionTrue(store[k], "NamesAccepted")
                    => FindCRDCondition(store[k], "Established") # NoCondition

\* Every name that a storage for the CRD is built with has then been accepted,
\* each perhaps in another sync.
ServedHasNames ==
  \A k \in Live : Served(store[k])
    => \A f \in RequiredNames : store[k].accepted[f] # {}

\* A requested name that has not been accepted is in use in the group.
Blocked(k, f) ==
  \E j \in Live : /\ GroupOf[j] = GroupOf[k]
                  /\ (store[k].names[f] \ store[k].accepted[f])
                       \cap Claimed(store[j].accepted, SpaceOf(f)) # {}

\* Names freed by a deletion or an update reach whoever asked for them: in
\* the end every name is accepted or taken, and NamesAccepted says which.
NamesSettle ==
  <>[](\A k \in Live :
         store[k].names # store[k].accepted
           => /\ \A f \in NameFields :
                   store[k].names[f] # store[k].accepted[f] => Blocked(k, f)
              /\ FindCRDCondition(store[k], "NamesAccepted").status = "False")

\* NamesAccepted is true when the names were accepted, also after the spec goes
\* back to names that had been accepted before.
AcceptedIsTrue ==
  \A k \in CRDs :
    <>[](k \in Live /\ store[k].names = store[k].accepted)
      => <>[](k \in Live /\ IsCRDConditionTrue(store[k], "NamesAccepted"))

\* The register of names that the accepted names of all CRDs make up: every
\* step of the system takes or frees names of one CRD, and takes free ones.
Held ==
  [k \in CRDs |->
     [space \in {"resources", "kinds"} |->
        IF store[k] = NoCRD THEN {}
        ELSE Claimed(store[k].accepted,
                     IF space = "resources" THEN ResourceFields ELSE KindFields)]]

Reservation == INSTANCE NameReservation WITH held <- Held

ReservesNames == Reservation!Spec

-----------------------------------------------------------------------------
(* The inductive invariants.  InformerInv, ServedInv and NamesInv hold     *)
(* whatever the number of servers and the faults; ReservationInv only when *)
(* one worker writes accepted names and every status update it makes is    *)
(* answered.                                                               *)

\* The mutation cache is never ahead of the store.
MutationInv ==
  \A s \in Servers, k \in CRDs :
    mutationCache[s][k] # NoCRD
      => /\ mutationCache[s][k].rv <= rv
         /\ store[k] # NoCRD => mutationCache[s][k].rv <= store[k].rv

\* An update in flight is no newer than the last write, and one that the store
\* would accept was computed from the stored object, which no event is about
\* to replace in the cache.
WorkerInv ==
  \A s \in Servers :
    worker[s] # NoCRD =>
      /\ worker[s].rv <= rv
      /\ Current(worker[s]) =>
           LET old == store[worker[s].name]
           IN  /\ cache[s][worker[s].name] = old
               /\ \A f \in NameFields :
                    worker[s].accepted[f] \in {old.accepted[f], old.names[f]}
               /\ IsCRDConditionTrue(old, "Established")
                    => IsCRDConditionTrue(worker[s], "Established")

InformerInv == StoreInv /\ MutationInv /\ WorkerInv

\* Every status update brings an Established condition.
ServedInv ==
  /\ ServedHasEstablishedCondition
  /\ \A s \in Servers : worker[s] # NoCRD
                         => FindCRDCondition(worker[s], "Established") # NoCondition

\* Every copy of an object has its names, accepted when it is served.
NamesInv ==
  /\ \A k \in Live : NamesGiven(store[k])
  /\ \A s \in Servers :
       /\ \A k \in CRDs : cache[s][k] # NoCRD => NamesGiven(cache[s][k])
       /\ \A e \in watch[s] : e.obj # NoCRD => NamesGiven(e.obj)
       /\ worker[s] # NoCRD => NamesGiven(worker[s])

\* What ReservationInv assumes of the deployment.
OneWorker ==
  /\ \A s, t \in Servers : s = t
  /\ LosesResponses = FALSE

\* Whatever the informer still has to deliver, the view of a CRD with
\* accepted names shows exactly these.
ViewInv ==
  \A s \in Servers, k \in CRDs :
    store[k] # NoCRD /\ store[k].accepted # EmptyNames
      => /\ cache[s][k] # NoCRD
         /\ View(s, k).accepted = store[k].accepted
         /\ \A e \in watch[s] :
              e.name = k =>
                /\ e.obj # NoCRD
                /\ Newer(e.obj, mutationCache[s][k]).accepted = store[k].accepted

Disjoint(names, others) ==
  \A space \in {ResourceFields, KindFields} :
    Claimed(names, space) \cap Claimed(others, space) = {}

\* The names an update in flight would accept are still free.
ClaimInv ==
  \A s \in Servers :
    worker[s] # NoCRD /\ Current(worker[s])
      => \A j \in Peers(worker[s].name) \cap Live :
           Disjoint(worker[s].accepted, store[j].accepted)

ReservationInv == InformerInv /\ ViewInv /\ ClaimInv /\ NamesUnique

=============================================================================
