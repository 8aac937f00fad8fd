--------------------------- MODULE PublishedCRDs ---------------------------
(***************************************************************************)
(* What the controllers that publish CRDs share: the informer's cache,     *)
(* which changes first, the notifications that follow in order, and a      *)
(* queue of keys with one worker.  DiscoveryController, OpenAPIController  *)
(* and OpenAPIV3Controller each describe one controller; they do not       *)
(* interact, so Publishing runs one of them at a time.                     *)
(***************************************************************************)
EXTENDS SequencesExt

CONSTANTS
  CRDs,         \* the keys under which CRDs are stored
  NoCRD,        \* "not found": no object under a key
  GroupOf,      \* [CRDs -> group], the group of a CRD, which never changes
  KindOf,       \* [CRDs -> kind], the kind of a CRD
  Versions,     \* the names of versions, numbered by their priority
  Specs,        \* the other parts of the specs that users write
  MaxChanges    \* bound on changes of the cache

VARIABLES
  cached,         \* [CRDs -> CRD \cup {NoCRD}], the informer's cache
  changes,        \* how often the cache has changed
  notifications,  \* Seq(Notification), sent by the informer and not handled
  queue,          \* the keys queued by the handlers
  started         \* the worker runs

informerVars == <<cached, changes, notifications>>
sharedVars == <<informerVars, queue, started>>

Groups == {GroupOf[k] : k \in CRDs}

GroupVersions == Groups \X Versions

\* The versions in the spec, which of them are served, the one that is stored
\* and those with a status subresource; and the kind of lists.
Spec == { spec \in [ versions : SUBSET Versions, served : SUBSET Versions,
                     storage : Versions, status : SUBSET Versions,
                     listKind : STRING ] :
            /\ spec.storage \in spec.versions
            /\ spec.served \cup spec.status \subseteq spec.versions }

CRD == [ uid : Nat, generation : Nat, spec : Specs,
         established : BOOLEAN, terminating : BOOLEAN ]

Notification == [name : CRDs, old : CRD \cup {NoCRD}, new : CRD \cup {NoCRD}]

ASSUME PublishedAssumption ==
  /\ Versions \subseteq Nat
  /\ \A spec \in Specs : spec \in Spec
  /\ NoCRD \notin CRD
  /\ MaxChanges \in Nat

SharedTypeOK ==
  /\ cached \in [CRDs -> CRD \cup {NoCRD}]
  /\ changes \in 0..MaxChanges
  /\ notifications \in Seq(Notification)
  /\ started \in BOOLEAN

SharedInit ==
  /\ cached = [k \in CRDs |-> NoCRD]
  /\ changes = 0
  /\ notifications = <<>>
  /\ queue = {}
  /\ started = FALSE

-----------------------------------------------------------------------------
(* The informer.  It may skip objects that came in between.                *)

Change(k, new) ==
  /\ changes < MaxChanges
  /\ changes' = changes + 1
  /\ new # cached[k]
  /\ cached' = [cached EXCEPT ![k] = new]
  /\ notifications' = Append(notifications,
                             [name |-> k, old |-> cached[k], new |-> new])
  /\ UNCHANGED <<queue, started>>

\* A CRD created under the name since.
Created ==
  [uid : {changes + 1}, generation : {1}, spec : Specs,
   established : BOOLEAN, terminating : {FALSE}]

\* A CRD keeps its uid, is established and terminates for good, and takes the
\* next generation with every change of its spec.
Updated(crd) ==
  { new \in [uid : {crd.uid}, generation : {crd.generation, crd.generation + 1},
             spec : Specs, established : BOOLEAN, terminating : BOOLEAN] :
      /\ new.spec = crd.spec <=> new.generation = crd.generation
      /\ crd.established => new.established
      /\ crd.terminating => new.terminating }

Informer ==
  \E k \in CRDs :
    \/ Change(k, NoCRD)
    \/ \E crd \in Created : Change(k, crd)
    \/ cached[k] # NoCRD /\ \E crd \in Updated(cached[k]) : Change(k, crd)

\* The oldest notification is handled: the handler queues keys.
Notified(keys) ==
  /\ notifications # <<>>
  /\ notifications' = Tail(notifications)
  /\ queue' = queue \cup keys
  /\ UNCHANGED <<cached, changes, started>>

Take(key) ==
  /\ started
  /\ key \in queue
  /\ queue' = queue \ {key}
  /\ UNCHANGED <<informerVars, started>>

-----------------------------------------------------------------------------
(* What is to be published.                                                *)

Established(crd) == crd # NoCRD /\ crd.established

Serves(crd, v) == Established(crd) /\ v \in crd.spec.served

\* The CRDs that a worker with keys of CRDs will take up, now or when it has
\* started or a notification is handled.
ToBeTaken(k) ==
  \/ k \in queue
  \/ ~ started
  \/ \E n \in DOMAIN notifications : notifications[n].name = k

=============================================================================
