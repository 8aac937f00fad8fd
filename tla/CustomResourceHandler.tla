----------------------- MODULE CustomResourceHandler -----------------------
(***************************************************************************)
(* The crdHandler of pkg/apiserver/customresource_handler.go on one        *)
(* server: it serves custom resources from storages that it builds on      *)
(* demand, one for each uid of a CRD, and tears down when they are stale.  *)
(*                                                                         *)
(* The informer changes its cache first and notifies the handler later, in *)
(* order.  Requests look a CRD up in the cache, find or build the storage, *)
(* register with it and are then served; a storage that leaves the map is  *)
(* destroyed after a grace second and the end of the requests registered   *)
(* with it.  customStorageLock makes each change of the map one step.      *)
(***************************************************************************)
EXTENDS Naturals, Sequences

CONSTANTS
  CRDs,         \* the keys under which CRDs are stored
  Versions,     \* what a CRD has as spec and accepted names
  Unnamed,      \* the versions without accepted names
  Requests,     \* the requests served at a time
  NoCRD,        \* "not found": no object under a key
  Idle,         \* no request
  MaxChanges,   \* bound on changes of the cache
  MaxStorages   \* bound on storages built

VARIABLES
  cached,         \* [CRDs -> CRD \cup {NoCRD}], the informer's cache
  changes,        \* how often the cache has changed
  notifications,  \* Seq(Notification), sent by the informer and not handled
  listed,         \* {} or {the uids that removeDeadStorage has listed}
  storages,       \* Seq(Storage), every storage built
  customStorage,  \* the storages in the map, by their index
  request         \* [Requests -> Request]

informerVars == <<cached, changes, notifications>>
storageVars == <<listed, storages, customStorage>>
vars == <<informerVars, storageVars, request>>

\* "served": one of the conditions NamesAccepted and Established is true.
CRD == {crd \in [uid : Nat, version : Versions, served : BOOLEAN] :
          crd.served => crd.version \notin Unnamed}

Notification == [old : CRD \cup {NoCRD}, new : CRD \cup {NoCRD}]

\* "draining" is the grace second, in which requests still register; then the
\* storage is "closed" to them.
Storage == [ uid : Nat, version : Versions,
             state : {"serving", "draining", "closed", "destroyed"} ]

\* A request holds the CRD it looked up and, from "found" on, a storage.  It
\* has overrun when its storage was torn down twice the request timeout ago.
Request == [ step : {"resolve", "build", "found", "served", "overrun"},
             name : CRDs, uid : Nat, storage : Nat ]

ASSUME HandlerAssumption ==
  /\ Unnamed \subseteq Versions
  /\ NoCRD \notin CRD
  /\ Idle \notin Request
  /\ MaxChanges \in Nat
  /\ MaxStorages \in Nat

TypeOK ==
  /\ cached \in [CRDs -> CRD \cup {NoCRD}]
  /\ changes \in 0..MaxChanges
  /\ notifications \in Seq(Notification)
  /\ \A uids \in listed : uids \in SUBSET Nat /\ listed = {uids}
  /\ storages \in Seq(Storage)
  /\ Len(storages) <= MaxStorages
  /\ customStorage \subseteq DOMAIN storages
  /\ request \in [Requests -> Request \cup {Idle}]

Init ==
  /\ cached = [k \in CRDs |-> NoCRD]
  /\ changes = 0
  /\ notifications = <<>>
  /\ listed = {}
  /\ storages = <<>>
  /\ customStorage = {}
  /\ request = [r \in Requests |-> Idle]

-----------------------------------------------------------------------------
(* The informer: its cache changes from any CRD of a name to any other, as  *)
(* a list may skip what came between, and the handler is notified of both.  *)

Change(k, new) ==
  /\ changes < MaxChanges
  /\ changes' = changes + 1
  /\ new # cached[k]
  /\ cached' = [cached EXCEPT ![k] = new]
  /\ notifications' = Append(notifications, [old |-> cached[k], new |-> new])
  /\ UNCHANGED <<storageVars, request>>

\* A CRD is created with a new uid, and an update keeps it.
Uids(k) ==
  {changes + 1} \cup (IF cached[k] = NoCRD THEN {} ELSE {cached[k].uid})

Informer ==
  \E k \in CRDs :
    \/ Change(k, NoCRD)
    \/ \E uid \in Uids(k), version \in Versions, served \in BOOLEAN :
         /\ served => version \notin Unnamed
         /\ Change(k, [uid |-> uid, version |-> version, served |-> served])

-----------------------------------------------------------------------------
(* The storage map.                                                        *)

\* removeStorage_locked, of each of a set of storages.
RemoveStorages(stale) ==
  /\ customStorage' = customStorage \ stale
  /\ storages' = [i \in DOMAIN storages |->
                    IF i \in stale THEN [storages[i] EXCEPT !.state = "draining"]
                                   ELSE storages[i]]

\* Only the spec and the accepted names of a CRD make a difference.
Matches(i, crd) == storages[i].uid = crd.uid /\ storages[i].version = crd.version

\* As if an update were always one of the same CRD.
StaleOfSameUID(i, old, new) == storages[i].uid = new.uid /\ ~ Matches(i, new)

\* What an added or updated CRD makes stale.
Stale(i, old, new) ==
  \/ storages[i].uid = new.uid /\ ~ Matches(i, new)
  \/ old # NoCRD /\ old.uid # new.uid /\ storages[i].uid = old.uid

Notified ==
  /\ notifications # <<>>
  /\ listed = {}
  /\ notifications' = Tail(notifications)
  /\ UNCHANGED <<cached, changes, request>>

HandleUpdate ==
  LET n == Head(notifications)
  IN  /\ Notified
      /\ n.new # NoCRD
      /\ RemoveStorages({i \in customStorage : Stale(i, n.old, n.new)})
      /\ UNCHANGED listed

\* A CRD is gone.  removeDeadStorage first lists the CRDs that remain.
HandleDelete ==
  /\ Notified
  /\ Head(notifications).new = NoCRD
  /\ listed' = {{cached[k].uid : k \in {j \in CRDs : cached[j] # NoCRD}}}
  /\ UNCHANGED <<storages, customStorage>>

\* It then takes the lock and drops the storages of all others.
RemoveDeadStorage ==
  \E uids \in listed :
    /\ listed' = {}
    /\ RemoveStorages({i \in customStorage : storages[i].uid \notin uids})
    /\ UNCHANGED <<informerVars, request>>

-----------------------------------------------------------------------------
(* tearDown.                                                               *)

SetState(i, state) ==
  /\ storages' = [storages EXCEPT ![i].state = state]
  /\ UNCHANGED <<informerVars, listed, customStorage, request>>

At(r, step) == request[r] # Idle /\ request[r].step = step

Users(i) == {r \in Requests : At(r, "served") /\ request[r].storage = i}

Close(i) == storages[i].state = "draining" /\ SetState(i, "closed")

\* As if the requests were given the second and no more.
DestroyClosed(i) == storages[i].state = "closed" /\ SetState(i, "destroyed")

\* As if only an overrun ended the wait.
DestroyOverrun(i) ==
  /\ storages[i].state = "closed"
  /\ \E r \in Requests : At(r, "overrun") /\ request[r].storage = i
  /\ SetState(i, "destroyed")

\* Every request has ended or overrun.
Destroy(i) ==
  /\ storages[i].state = "closed"
  /\ Users(i) = {}
  /\ SetState(i, "destroyed")

-----------------------------------------------------------------------------
(* A request.                                                              *)

Advance(r, step) == request' = [request EXCEPT ![r].step = step]

Find(r, i) == request' = [request EXCEPT ![r].step = "found", ![r].storage = i]

Respond(r) == request' = [request EXCEPT ![r] = Idle]

Lookup(r, k) ==
  /\ request[r] = Idle
  /\ cached[k] # NoCRD
  /\ cached[k].served
  /\ request' = [request EXCEPT ![r] = [step |-> "resolve", name |-> k,
                                        uid |-> cached[k].uid, storage |-> 0]]
  /\ UNCHANGED <<informerVars, storageVars>>

StorageOf(uid) == {i \in customStorage : storages[i].uid = uid}

\* The map is read without the lock.
Resolve(r) ==
  /\ At(r, "resolve")
  /\ \/ StorageOf(request[r].uid) = {} /\ Advance(r, "build")
     \/ \E i \in StorageOf(request[r].uid) : Find(r, i)
  /\ UNCHANGED <<informerVars, storageVars>>

\* As if the storage went to the map under the number of the next.
AddAhead(crd) ==
  /\ Len(storages) < MaxStorages
  /\ storages' = Append(storages, [uid |-> crd.uid, version |-> crd.version,
                                   state |-> "serving"])
  /\ customStorage' = (customStorage \ StorageOf(crd.uid)) \cup {Len(storages) + 2}

\* The new storage replaces one that the map has for the uid.
Add(crd) ==
  /\ Len(storages) < MaxStorages
  /\ storages' = Append(storages, [uid |-> crd.uid, version |-> crd.version,
                                   state |-> "serving"])
  /\ customStorage' = (customStorage \ StorageOf(crd.uid)) \cup {Len(storages) + 1}

\* Under the lock the CRD of the name is read again: it may be gone, without
\* names, or another one.
Building(r, crd) ==
  /\ At(r, "build")
  /\ crd = cached[request[r].name]
  /\ UNCHANGED <<informerVars, listed>>

BuildFailed(r) ==
  \E crd \in {NoCRD} \cup {cached[k] : k \in CRDs} :
    /\ Building(r, crd)
    /\ crd # NoCRD => crd.version \in Unnamed /\ StorageOf(crd.uid) = {}
    /\ Respond(r)
    /\ UNCHANGED <<storages, customStorage>>

\* As if the map were not read again.
BuildUnchecked(r) ==
  \E crd \in {cached[k] : k \in CRDs} \ {NoCRD} :
    /\ Building(r, crd)
    /\ crd.version \notin Unnamed
    /\ Add(crd)
    /\ Find(r, Len(storages) + 1)

\* So is the map: another request may have built the storage.
Build(r) ==
  \E crd \in {cached[k] : k \in CRDs} \ {NoCRD} :
    /\ Building(r, crd)
    /\ \/ /\ \E i \in StorageOf(crd.uid) : Find(r, i)
          /\ UNCHANGED <<storages, customStorage>>
       \/ /\ StorageOf(crd.uid) = {}
          /\ crd.version \notin Unnamed
          /\ Add(crd)
          /\ Find(r, Len(storages) + 1)

\* A request registers with the storage, unless that is closed: it is then
\* told to try again.
Register(r) ==
  /\ At(r, "found")
  /\ IF storages[request[r].storage].state \in {"serving", "draining"}
     THEN Advance(r, "served") ELSE Respond(r)
  /\ UNCHANGED <<informerVars, storageVars>>

Finish(r) ==
  /\ At(r, "served") \/ At(r, "overrun")
  /\ Respond(r)
  /\ UNCHANGED <<informerVars, storageVars>>

Overrun(r) ==
  /\ At(r, "served")
  /\ storages[request[r].storage].state = "closed"
  /\ Advance(r, "overrun")
  /\ UNCHANGED <<informerVars, storageVars>>

Serve(r) ==
  \/ Resolve(r) \/ BuildFailed(r) \/ Build(r)
  \/ Register(r) \/ Finish(r) \/ Overrun(r)

-----------------------------------------------------------------------------
Handle == HandleUpdate \/ HandleDelete \/ RemoveDeadStorage

TearDown(i) == Close(i) \/ Destroy(i)

Next ==
  \/ Informer
  \/ Handle
  \/ \E i \in DOMAIN storages : TearDown(i)
  \/ \E r \in Requests, k \in CRDs : Lookup(r, k)
  \/ \E r \in Requests : Serve(r)

Spec == Init /\ [][Next]_vars

\* Time passes and the goroutine that tears a storage down runs.
Fairness ==
  /\ \A r \in Requests : WF_vars(Overrun(r))
  /\ \A i \in 1..MaxStorages : WF_vars(i \in DOMAIN storages /\ TearDown(i))

FairSpec == Spec /\ Fairness

-----------------------------------------------------------------------------
(* Properties.                                                             *)

\* A storage in the map that is stale is on its way out: a notification that
\* removes it is yet to be handled.  After that every storage is the one of the
\* cached CRD, however lookups, builds and notifications overlapped.
ToBeHandled(i) ==
  \/ \E n \in DOMAIN notifications :
       \E crd \in {notifications[n].old, notifications[n].new} \ {NoCRD} :
         crd.uid = storages[i].uid
  \/ \E uids \in listed : storages[i].uid \notin uids

StaleIsHandled ==
  \A i \in customStorage :
    \/ ToBeHandled(i)
    \/ \E k \in CRDs : cached[k] # NoCRD /\ Matches(i, cached[k])

\* No storage is forgotten: one that still serves is in the map, where a
\* change of its CRD finds it, and the map has one for each uid.
NoneForgotten ==
  /\ \A i \in DOMAIN storages : storages[i].state = "serving" <=> i \in customStorage
  /\ \A i, j \in customStorage : storages[i].uid = storages[j].uid => i = j

\* A request that does not overrun is never served by a storage that has been
\* destroyed, although it finds the storage before it registers with it.
ServedByLiveStorage ==
  \A r \in Requests :
    At(r, "served") => storages[request[r].storage].state # "destroyed"

\* A storage that left the map is destroyed in the end, also when requests that
\* use it never end.
DrainedIsDestroyed ==
  \A i \in 1..MaxStorages :
    i \in DOMAIN storages /\ storages[i].state = "draining"
      ~> i \in DOMAIN storages /\ storages[i].state = "destroyed"

-----------------------------------------------------------------------------
(* What the first three rest on.                                           *)

\* No two CRDs in the cache have a uid, and the next to be given is new.
UidInv ==
  /\ \A k \in CRDs : cached[k] # NoCRD => cached[k].uid <= changes
  /\ \A j, k \in CRDs :
       cached[j] # NoCRD /\ cached[k] # NoCRD /\ cached[j].uid = cached[k].uid => j = k
  /\ \A n \in DOMAIN notifications :
       notifications[n].old # NoCRD => notifications[n].old.uid <= changes

\* Notifications are the history of the cache: what one brings is cached, or is
\* what a later one takes away; and the CRD that one deletes does not return.
NotificationInv ==
  \A n \in DOMAIN notifications :
    /\ notifications[n].old # notifications[n].new
    /\ notifications[n].new # NoCRD =>
         \/ \E k \in CRDs : cached[k] = notifications[n].new
         \/ \E m \in DOMAIN notifications : m > n /\ notifications[m].old = notifications[n].new
    /\ notifications[n].new = NoCRD =>
         \A k \in CRDs : cached[k] # NoCRD => cached[k].uid # notifications[n].old.uid

\* A request that has found its storage holds one that was built.
RequestInv ==
  \A r \in Requests :
    request[r] # Idle /\ request[r].step \in {"found", "served", "overrun"}
      => request[r].storage \in DOMAIN storages

HandlerInv ==
  /\ UidInv
  /\ NotificationInv
  /\ RequestInv
  /\ StaleIsHandled
  /\ NoneForgotten
  /\ ServedByLiveStorage

=============================================================================
