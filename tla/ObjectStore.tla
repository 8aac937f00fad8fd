---------------------------- MODULE ObjectStore ----------------------------
(***************************************************************************)
(* The object store behind a registry and the shared informer through      *)
(* which the controllers of each API server read it: libraries, modelled   *)
(* from the use that pkg/apiserver and the controllers make of them.       *)
(*                                                                         *)
(* The store gives every write the next resource version and refuses an    *)
(* update made from any but the current version.  Each server has a cache  *)
(* (the informer's indexer) and the set of watch events it has not yet     *)
(* received.  An object is a record with fields name, uid and rv.          *)
(***************************************************************************)
EXTENDS Naturals

CONSTANTS
  CRDs,          \* the keys "<plural>.<group>" under which CRDs are stored
  NoCRD,         \* "not found": no object under a key
  Servers,       \* the API servers, each with an informer of its own
  MaxUserWrites  \* bound on create, update and delete requests

VARIABLES
  rv,         \* the resource version of the last write
  store,      \* [CRDs -> CRD \cup {NoCRD}]
  cache,      \* [Servers -> [CRDs -> CRD \cup {NoCRD}]]
  watch,      \* [Servers -> SUBSET Event], the events not yet received
  userWrites  \* how many user requests have been served

storageVars == <<rv, store, cache, watch, userWrites>>

StorageInit ==
  /\ rv = 0
  /\ store = [k \in CRDs |-> NoCRD]
  /\ cache = [s \in Servers |-> [k \in CRDs |-> NoCRD]]
  /\ watch = [s \in Servers |-> {}]
  /\ userWrites = 0

Live == {k \in CRDs : store[k] # NoCRD}

-----------------------------------------------------------------------------
(* Writes.                                                                 *)

\* Every write takes the next version and is sent to the watch of every
\* server; that of NoCRD removes the object.
Write(k, obj) ==
  /\ rv' = rv + 1
  /\ store' = [store EXCEPT ![k] = obj]
  /\ watch' = [s \in Servers |->
                 watch[s] \cup {[rv |-> rv + 1, name |-> k, obj |-> obj]}]

Put(k, obj) == Write(k, [obj EXCEPT !.rv = rv + 1])

\* As if status updates were unconditional.
CurrentName(crd) == store[crd.name] # NoCRD

\* What the store answers to a status update: the object must still exist,
\* in the version the caller read.
Current(crd) ==
  /\ store[crd.name] # NoCRD
  /\ store[crd.name].rv = crd.rv

UserWrite ==
  /\ userWrites < MaxUserWrites
  /\ userWrites' = userWrites + 1
  /\ UNCHANGED cache

-----------------------------------------------------------------------------
(* The shared informer of server s.                                        *)

Oldest(s, e) == e \in watch[s] /\ \A f \in watch[s] : e.rv <= f.rv

\* The oldest event reaches the indexer.
Receive(s, e) ==
  /\ Oldest(s, e)
  /\ cache' = [cache EXCEPT ![s][e.name] = e.obj]
  /\ watch' = [watch EXCEPT ![s] = @ \ {e}]
  /\ UNCHANGED <<rv, store, userWrites>>

\* The watch is lost and the informer lists again.
List(s) ==
  /\ cache' = [cache EXCEPT ![s] = store]
  /\ watch' = [watch EXCEPT ![s] = {}]
  /\ UNCHANGED <<rv, store, userWrites>>

\* The keys for which a list makes the informer call its handlers.
Changed(s) == {k \in CRDs : cache[s][k] # store[k]}

-----------------------------------------------------------------------------
(* Invariants.                                                             *)

\* No object is in a version newer than the last write, and an event is in
\* that of its object.
VersionInv ==
  /\ \A k \in Live : store[k].rv <= rv
  /\ \A s \in Servers :
       /\ \A k \in CRDs : cache[s][k] # NoCRD => cache[s][k].rv <= rv
       /\ \A e \in watch[s] : e.rv <= rv /\ (e.obj # NoCRD => e.obj.rv = e.rv)

\* A cache is behind the events to come and these are behind the store; one
\* that has the version of the stored object has the object.
CacheInv ==
  \A s \in Servers, k \in CRDs :
    /\ \A e \in watch[s] :
         e.name = k =>
           /\ cache[s][k] # NoCRD => cache[s][k].rv < e.rv
           /\ store[k] # NoCRD => /\ e.rv <= store[k].rv
                                  /\ e.rv = store[k].rv => e.obj = store[k]
    /\ cache[s][k] # NoCRD /\ store[k] # NoCRD
         => /\ cache[s][k].rv <= store[k].rv
            /\ cache[s][k].rv = store[k].rv => cache[s][k] = store[k]

EventsDistinct ==
  \A s \in Servers : \A e, f \in watch[s] : e.rv = f.rv => e = f

StoreInv == VersionInv /\ CacheInv /\ EventsDistinct

=============================================================================
