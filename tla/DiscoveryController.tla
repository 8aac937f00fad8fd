------------------------ MODULE DiscoveryController ------------------------
(***************************************************************************)
(* The DiscoveryController of                                              *)
(* pkg/apiserver/customresource_discovery_controller.go: one worker, whose *)
(* queue holds group versions, keeps the documents that list the versions  *)
(* of a group and the resources of a version.  It keeps the latter twice,  *)
(* for the handler of /apis/<group>/<version> and for the manager of the   *)
(* aggregated document.                                                    *)
(***************************************************************************)
EXTENDS PublishedCRDs

VARIABLES
  syncing,     \* {} or {[gv, crds]}, the sync under way and the CRDs it listed
  groupDoc,    \* [Groups -> SUBSET Listed], {} for no document
  versionDoc,  \* [GroupVersions -> SUBSET Resource], {} for no document
  aggregated   \* [GroupVersions -> SUBSET Resource], {} for no document

docVars == <<groupDoc, versionDoc, aggregated>>
discoveryVars == <<syncing, docVars>>

\* One resource in a document; "update" stands for the verbs that a CRD loses
\* when it terminates: patch, create and update.
Resource == [name : CRDs, verbs : SUBSET {"get", "update"},
             subresources : SUBSET {"status"}, stored : SUBSET Versions]

\* One version in the document of a group, and those that are listed before it.
Listed == [version : Versions, before : SUBSET Versions]

DiscoveryTypeOK ==
  /\ queue \subseteq GroupVersions
  /\ \A s \in syncing : /\ s.gv \in GroupVersions
                        /\ s.crds \in [CRDs -> CRD \cup {NoCRD}]
                        /\ syncing = {s}
  /\ groupDoc \in [Groups -> SUBSET Listed]
  /\ versionDoc \in [GroupVersions -> SUBSET Resource]
  /\ aggregated \in [GroupVersions -> SUBSET Resource]

DiscoveryInit ==
  /\ syncing = {}
  /\ groupDoc = [g \in Groups |-> {}]
  /\ versionDoc = [gv \in GroupVersions |-> {}]
  /\ aggregated = [gv \in GroupVersions |-> {}]

-----------------------------------------------------------------------------
(* The handlers.                                                           *)

VersionsOf(k, crd) ==
  IF crd = NoCRD THEN {} ELSE {<<GroupOf[k], v>> : v \in crd.spec.versions}

\* As if the versions of the new object sufficed.
EnqueueNew(n) == VersionsOf(n.name, IF n.new = NoCRD THEN n.old ELSE n.new)

\* The versions of both objects.
Enqueue(n) == VersionsOf(n.name, n.new) \cup VersionsOf(n.name, n.old)

DiscoveryHandle ==
  /\ Notified(Enqueue(Head(notifications)))
  /\ UNCHANGED discoveryVars

-----------------------------------------------------------------------------
(* The documents, computed from a list of all CRDs.                        *)

Higher(v, w) == v > w

\* As if the versions of the group came from the CRDs with the version synced.
VersionsOfVersion(crds, gv) ==
  {v \in Versions : \E k \in CRDs : /\ GroupOf[k] = gv[1]
                                    /\ Serves(crds[k], v)
                                    /\ Serves(crds[k], gv[2])}

\* The versions that any established CRD of the group serves.
VersionsForDiscovery(crds, gv) ==
  {v \in Versions : \E k \in CRDs : GroupOf[k] = gv[1] /\ Serves(crds[k], v)}

\* Those with the highest priority come first; the first one is preferred.
GroupDocument(crds, gv) ==
  LET listed == VersionsForDiscovery(crds, gv)
  IN  {[version |-> v, before |-> {w \in listed : Higher(w, v)}] : v \in listed}

\* A terminating CRD allows no writes.  The storage version is told by its
\* hash, if it is served.
ResourceFor(k, crd, v) ==
  [ name |-> k,
    verbs |-> {"get"} \cup {x \in {"update"} : ~ crd.terminating},
    subresources |-> {x \in {"status"} : v \in crd.spec.status},
    stored |-> {crd.spec.storage} \cap crd.spec.served ]

VersionDocument(crds, gv) ==
  {ResourceFor(k, crds[k], gv[2]) :
     k \in {j \in CRDs : GroupOf[j] = gv[1] /\ Serves(crds[j], gv[2])}}

-----------------------------------------------------------------------------
(* The worker.                                                             *)

\* First every version in the cache is synced; the worker does the same.
DiscoveryStart ==
  /\ ~ started
  /\ started' = TRUE
  /\ queue' = queue \cup UNION {VersionsOf(k, cached[k]) : k \in CRDs}
  /\ UNCHANGED <<informerVars, discoveryVars>>

\* The CRDs are listed and the document of the group is replaced.
SyncGroup(gv) ==
  /\ syncing = {}
  /\ Take(gv)
  /\ syncing' = {[gv |-> gv, crds |-> cached]}
  /\ groupDoc' = [groupDoc EXCEPT ![gv[1]] = GroupDocument(cached, gv)]
  /\ UNCHANGED <<versionDoc, aggregated>>

\* A group that is left by its last version leaves the aggregated document.
RemoveGroup(g) ==
  [x \in GroupVersions |-> IF x[1] = g THEN {} ELSE aggregated[x]]

\* That of the version follows, from the same list.
SyncVersion ==
  \E s \in syncing :
    LET doc == VersionDocument(s.crds, s.gv)
    IN  /\ syncing' = {}
        /\ versionDoc' = [versionDoc EXCEPT ![s.gv] = doc]
        /\ aggregated' = IF GroupDocument(s.crds, s.gv) = {}
                         THEN RemoveGroup(s.gv[1])
                         ELSE [aggregated EXCEPT ![s.gv] = doc]
        /\ UNCHANGED <<sharedVars, groupDoc>>

DiscoveryNext ==
  \/ DiscoveryHandle \/ DiscoveryStart \/ SyncVersion
  \/ \E gv \in GroupVersions : SyncGroup(gv)

-----------------------------------------------------------------------------
(* Properties.                                                             *)

\* The group versions that the worker will take up, now or when it has started
\* or a notification is handled.
Pending(gv) ==
  \/ gv \in queue
  \/ ~ started
  \/ \E n \in DOMAIN notifications : gv \in Enqueue(notifications[n])

\* And those that it has taken up.
ToBeSynced(gv) == Pending(gv) \/ \E s \in syncing : s.gv = gv

\* Between syncs a document is what the cache prescribes, or its version will
\* be synced: no change of a CRD is missed, whatever it changes, and no
\* document stays that has no place in that of its group.
DiscoveryConsistent ==
  \A gv \in GroupVersions :
    \/ ToBeSynced(gv)
    \/ /\ versionDoc[gv] = VersionDocument(cached, gv)
       /\ aggregated[gv] = versionDoc[gv]
       /\ (\E r \in groupDoc[gv[1]] : r.version = gv[2]) <=> versionDoc[gv] # {}

\* When the CRDs of a group stop changing, the documents come to list, in both
\* places, the versions and resources that are served.
DiscoverySettled ==
  \A gv \in GroupVersions :
    /\ groupDoc[gv[1]] = GroupDocument(cached, gv)
    /\ versionDoc[gv] = VersionDocument(cached, gv)
    /\ aggregated[gv] = VersionDocument(cached, gv)

-----------------------------------------------------------------------------
(* What DiscoveryConsistent rests on.                                      *)

\* Before the worker starts there are no documents.
StartInv ==
  ~ started => /\ syncing = {}
               /\ \A g \in Groups : groupDoc[g] = {}
               /\ \A gv \in GroupVersions : versionDoc[gv] = {} /\ aggregated[gv] = {}

\* In the middle of a sync the document of its group is that of the CRDs it has
\* listed, of which those with a version differ from the cached ones only if the
\* version is to be synced again: also when another one of the group is synced.
SyncInv ==
  \A s \in syncing :
    /\ groupDoc[s.gv[1]] = GroupDocument(s.crds, s.gv)
    /\ \A gv \in GroupVersions :
         gv[1] = s.gv[1] =>
           Pending(gv) \/ VersionDocument(s.crds, gv) = VersionDocument(cached, gv)

DiscoveryInv == StartInv /\ SyncInv /\ DiscoveryConsistent

=============================================================================
