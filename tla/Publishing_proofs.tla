-------------------------- MODULE Publishing_proofs --------------------------
(***************************************************************************)
(* Theorems about Publishing, for all CRDs, groups, versions, servers,     *)
(* specs and bounds.  The controllers of discovery and of OpenAPI, v2 and   *)
(* v3, miss no change of a CRD, whatever changes between what they read    *)
(* and the documents they make of it.  The controllers of conditions write *)
(* only what describes the stored CRD, although they compute it from a     *)
(* cached one, and servers that disagree stop writing.                     *)
(***************************************************************************)
EXTENDS Publishing, FiniteSetTheorems, TLAPS

-----------------------------------------------------------------------------
(* The discovery controller: types.                                        *)

DiscoveryTypes == SharedTypeOK /\ DiscoveryTypeOK

\* What an object serves is a version of its spec.
LEMMA ServedVersions ==
  ASSUME NEW k \in CRDs, NEW crd \in CRD \cup {NoCRD}, NEW v, Serves(crd, v)
  PROVE  <<GroupOf[k], v>> \in VersionsOf(k, crd) /\ v \in Versions
  BY PublishedAssumption DEF Serves, Established, VersionsOf, CRD, Spec

\* The keys that a notification queues are group versions.
LEMMA EnqueueType ==
  ASSUME NEW n \in Notification
  PROVE  Enqueue(n) \subseteq GroupVersions
<1>1. ASSUME NEW crd \in CRD \cup {NoCRD} PROVE VersionsOf(n.name, crd) \subseteq GroupVersions
  <2>1. CASE crd = NoCRD BY <2>1 DEF VersionsOf
  <2>2. CASE crd \in CRD
    <3>1. crd.spec.versions \subseteq Versions BY <2>2, PublishedAssumption DEF CRD, Spec
    <3>2. GroupOf[n.name] \in Groups BY DEF Groups, Notification
    <3>3. crd # NoCRD BY <2>2, PublishedAssumption
    <3> QED BY <3>1, <3>2, <3>3 DEF VersionsOf, GroupVersions
  <2> QED BY <1>1, <2>1, <2>2
<1>2. n.old \in CRD \cup {NoCRD} /\ n.new \in CRD \cup {NoCRD} BY DEF Notification
<1> QED BY <1>1, <1>2 DEF Enqueue

\* Documents list resources and versions.
LEMMA DocumentTypes ==
  ASSUME NEW crds \in [CRDs -> CRD \cup {NoCRD}], NEW gv \in GroupVersions
  PROVE  /\ GroupDocument(crds, gv) \in SUBSET Listed
         /\ VersionDocument(crds, gv) \in SUBSET Resource
<1>1. VersionsForDiscovery(crds, gv) \subseteq Versions BY DEF VersionsForDiscovery
<1>2. GroupDocument(crds, gv) \in SUBSET Listed BY <1>1 DEF GroupDocument, Listed
<1>3. ASSUME NEW k \in CRDs, Serves(crds[k], gv[2])
      PROVE  ResourceFor(k, crds[k], gv[2]) \in Resource
  <2>1. crds[k] \in CRD BY <1>3 DEF Serves, Established
  <2>2. crds[k].spec.served \subseteq Versions BY <2>1, PublishedAssumption DEF CRD, Spec
  <2> QED BY <2>2 DEF ResourceFor, Resource
<1>4. VersionDocument(crds, gv) \in SUBSET Resource BY <1>3 DEF VersionDocument
<1> QED BY <1>2, <1>4

\* The informer puts a CRD, or none, in the place of one.
LEMMA InformerChange ==
  ASSUME SharedTypeOK, Informer
  PROVE  \E k \in CRDs, new \in CRD \cup {NoCRD} : Change(k, new)
<1>1. ASSUME NEW crd \in Created PROVE crd \in CRD
  <2>1. changes + 1 \in Nat BY PublishedAssumption DEF SharedTypeOK
  <2>2. PICK spec \in Specs, established \in BOOLEAN :
          crd = [uid |-> changes + 1, generation |-> 1, spec |-> spec,
                 established |-> established, terminating |-> FALSE]
    BY DEF Created
  <2>3. FALSE \in BOOLEAN /\ 1 \in Nat OBVIOUS
  <2> QED BY <2>1, <2>2, <2>3 DEF CRD
<1>2. ASSUME NEW k \in CRDs, cached[k] # NoCRD, NEW crd \in Updated(cached[k]) PROVE crd \in CRD
  <2>1. cached[k] \in CRD BY <1>2 DEF SharedTypeOK
  <2> QED BY <2>1 DEF Updated, CRD
<1> QED BY <1>1, <1>2 DEF Informer

LEMMA ChangeTypes ==
  ASSUME DiscoveryTypes, Informer, UNCHANGED discoveryVars
  PROVE  DiscoveryTypes'
<1>1. PICK k \in CRDs, new \in CRD \cup {NoCRD} : Change(k, new)
  BY InformerChange DEF DiscoveryTypes
<1> DEFINE n == [name |-> k, old |-> cached[k], new |-> new]
<1>2. n \in Notification BY DEF DiscoveryTypes, SharedTypeOK, Notification
<1>3. notifications' \in Seq(Notification)
  BY <1>1, <1>2 DEF Change, DiscoveryTypes, SharedTypeOK
<1>4. SharedTypeOK'
  BY <1>1, <1>3, PublishedAssumption DEF Change, DiscoveryTypes, SharedTypeOK
<1>5. DiscoveryTypeOK'
  BY <1>1 DEF Change, DiscoveryTypes, DiscoveryTypeOK, discoveryVars, docVars
<1> QED BY <1>4, <1>5 DEF DiscoveryTypes

LEMMA HandleTypes ==
  ASSUME DiscoveryTypes, DiscoveryHandle
  PROVE  DiscoveryTypes'
<1>1. Head(notifications) \in Notification /\ Tail(notifications) \in Seq(Notification)
  BY DEF DiscoveryHandle, Notified, DiscoveryTypes, SharedTypeOK
<1>2. SharedTypeOK' BY <1>1 DEF DiscoveryHandle, Notified, DiscoveryTypes, SharedTypeOK
<1>3. queue' \subseteq GroupVersions
  BY <1>1, EnqueueType DEF DiscoveryHandle, Notified, DiscoveryTypes, DiscoveryTypeOK
<1> QED BY <1>2, <1>3 DEF DiscoveryHandle, DiscoveryTypes, DiscoveryTypeOK, discoveryVars, docVars

LEMMA StartTypes ==
  ASSUME DiscoveryTypes, DiscoveryStart
  PROVE  DiscoveryTypes'
<1>1. ASSUME NEW k \in CRDs PROVE VersionsOf(k, cached[k]) \subseteq GroupVersions
  <2> DEFINE n == [name |-> k, old |-> cached[k], new |-> cached[k]]
  <2>1. n \in Notification BY DEF DiscoveryTypes, SharedTypeOK, Notification
  <2>2. Enqueue(n) \subseteq GroupVersions BY <2>1, EnqueueType
  <2> QED BY <2>2 DEF Enqueue
<1>2. queue' \subseteq GroupVersions
  BY <1>1 DEF DiscoveryStart, DiscoveryTypes, DiscoveryTypeOK
<1> QED
  BY <1>2 DEF DiscoveryStart, DiscoveryTypes, SharedTypeOK, DiscoveryTypeOK, informerVars,
              discoveryVars, docVars

LEMMA SyncGroupTypes ==
  ASSUME DiscoveryTypes, NEW gv \in GroupVersions, SyncGroup(gv)
  PROVE  DiscoveryTypes'
<1>1. cached \in [CRDs -> CRD \cup {NoCRD}] BY DEF DiscoveryTypes, SharedTypeOK
<1>2. GroupDocument(cached, gv) \in SUBSET Listed BY <1>1, DocumentTypes
<1>3. SharedTypeOK' BY DEF SyncGroup, Take, DiscoveryTypes, SharedTypeOK, informerVars
<1>4. groupDoc' \in [Groups -> SUBSET Listed]
  BY <1>2 DEF SyncGroup, DiscoveryTypes, DiscoveryTypeOK
<1>5. queue' \subseteq GroupVersions BY DEF SyncGroup, Take, DiscoveryTypes, DiscoveryTypeOK
<1>6. DiscoveryTypeOK'
  BY <1>1, <1>4, <1>5 DEF SyncGroup, DiscoveryTypes, DiscoveryTypeOK
<1> QED BY <1>3, <1>6 DEF DiscoveryTypes

LEMMA SyncVersionTypes ==
  ASSUME DiscoveryTypes, SyncVersion
  PROVE  DiscoveryTypes'
<1>1. PICK s \in syncing :
        LET doc == VersionDocument(s.crds, s.gv)
        IN  /\ syncing' = {}
            /\ versionDoc' = [versionDoc EXCEPT ![s.gv] = doc]
            /\ aggregated' = IF GroupDocument(s.crds, s.gv) = {}
                             THEN RemoveGroup(s.gv[1])
                             ELSE [aggregated EXCEPT ![s.gv] = doc]
            /\ UNCHANGED <<sharedVars, groupDoc>>
  BY DEF SyncVersion
<1>2. VersionDocument(s.crds, s.gv) \in SUBSET Resource
  BY <1>1, DocumentTypes DEF DiscoveryTypes, DiscoveryTypeOK
<1>3. versionDoc' \in [GroupVersions -> SUBSET Resource]
  BY <1>1, <1>2 DEF DiscoveryTypes, DiscoveryTypeOK
<1>4. RemoveGroup(s.gv[1]) \in [GroupVersions -> SUBSET Resource]
  BY DEF RemoveGroup, DiscoveryTypes, DiscoveryTypeOK
<1>5. aggregated' \in [GroupVersions -> SUBSET Resource]
  BY <1>1, <1>2, <1>4 DEF DiscoveryTypes, DiscoveryTypeOK
<1> QED
  BY <1>1, <1>3, <1>5 DEF DiscoveryTypes, SharedTypeOK, DiscoveryTypeOK, sharedVars, informerVars

\* A version is listed in the document of its group exactly when its own lists
\* a resource.
LEMMA ListedHasDocument ==
  ASSUME NEW crds, NEW g, NEW gv \in GroupVersions, NEW other \in GroupVersions,
         other[1] = gv[1], g = gv[1]
  PROVE  /\ (\E r \in GroupDocument(crds, other) : r.version = gv[2])
              <=> VersionDocument(crds, gv) # {}
         /\ GroupDocument(crds, other) = {} => VersionDocument(crds, gv) = {}
<1>1. gv[2] \in Versions BY DEF GroupVersions
<1>2. VersionDocument(crds, gv) # {} <=> \E k \in CRDs : GroupOf[k] = gv[1] /\ Serves(crds[k], gv[2])
  BY DEF VersionDocument
<1>3. gv[2] \in VersionsForDiscovery(crds, other) <=> VersionDocument(crds, gv) # {}
  BY <1>1, <1>2 DEF VersionsForDiscovery
<1>4. \A v : (\E r \in GroupDocument(crds, other) : r.version = v)
               <=> v \in VersionsForDiscovery(crds, other)
  <2> DEFINE listed == VersionsForDiscovery(crds, other)
             r(v) == [version |-> v, before |-> {w \in listed : Higher(w, v)}]
  <2>1. \A v : r(v).version = v OBVIOUS
  <2>2. GroupDocument(crds, other) = {r(v) : v \in listed} BY DEF GroupDocument
  <2> HIDE DEF listed, r
  <2>3. \A v : (\E x \in {r(w) : w \in listed} : x.version = v) <=> v \in listed
    BY <2>1
  <2> QED BY <2>2, <2>3 DEF listed
<1>5. GroupDocument(crds, other) = {} => VersionsForDiscovery(crds, other) = {}
  BY DEF GroupDocument
<1> QED BY <1>3, <1>4, <1>5

\* The documents of a group do not depend on which of its versions is synced.
LEMMA SameGroupDocument ==
  ASSUME NEW crds, NEW gv, NEW other, other[1] = gv[1]
  PROVE  GroupDocument(crds, other) = GroupDocument(crds, gv)
  BY DEF GroupDocument, VersionsForDiscovery

-----------------------------------------------------------------------------
(* The discovery controller: every change is followed by a sync.           *)

\* A change of the cache changes no document but of the versions it notifies of.
LEMMA ChangePending ==
  ASSUME DiscoveryTypes, Informer, UNCHANGED discoveryVars, NEW gv \in GroupVersions
  PROVE  /\ Pending(gv) => Pending(gv)'
         /\ Pending(gv)' \/ VersionDocument(cached, gv)' = VersionDocument(cached, gv)
<1>1. PICK k \in CRDs, new \in CRD \cup {NoCRD} : Change(k, new)
  BY InformerChange DEF DiscoveryTypes
<1>2. PICK old \in CRD \cup {NoCRD} : old = cached[k]
  BY DEF DiscoveryTypes, SharedTypeOK
<1>3. PICK n : n = [name |-> k, old |-> old, new |-> new] OBVIOUS
<1>4. notifications \in Seq(Notification) /\ n \in Notification
  BY <1>3 DEF DiscoveryTypes, SharedTypeOK, Notification
<1>5. notifications' = Append(notifications, n) BY <1>1, <1>2, <1>3 DEF Change
<1>6. /\ \A i \in DOMAIN notifications :
           i \in DOMAIN notifications' /\ notifications'[i] = notifications[i]
      /\ Len(notifications) + 1 \in DOMAIN notifications'
      /\ notifications'[Len(notifications) + 1] = n
  BY <1>4, <1>5
<1>7. Pending(gv) => Pending(gv)' BY <1>1, <1>6 DEF Pending, Change
<1>8. gv \in Enqueue(n) => Pending(gv)' BY <1>6 DEF Pending
<1>9. ASSUME gv \notin Enqueue(n)
      PROVE  VersionDocument(cached, gv)' = VersionDocument(cached, gv)
  <2>1. PICK v : v = gv[2] OBVIOUS
  <2>2. gv = <<gv[1], v>> BY <2>1 DEF GroupVersions
  <2>3. GroupOf[k] = gv[1] => ~ Serves(old, v) /\ ~ Serves(new, v)
    BY <1>3, <1>9, <2>2, ServedVersions DEF Enqueue
  <2>4. cached' = [cached EXCEPT ![k] = new] /\ DOMAIN cached = CRDs
    BY <1>1 DEF Change, DiscoveryTypes, SharedTypeOK
  <2>5. \A j \in CRDs : GroupOf[j] = gv[1] =>
          /\ Serves(cached'[j], v) <=> Serves(cached[j], v)
          /\ Serves(cached[j], v) => cached'[j] = cached[j]
    BY <1>2, <2>3, <2>4
  <2> DEFINE Doc(crds) == {ResourceFor(j, crds[j], v) :
                             j \in {i \in CRDs : GroupOf[i] = gv[1] /\ Serves(crds[i], v)}}
  <2>6. PICK now : now = cached' OBVIOUS
  <2>7. Doc(now) = Doc(cached) BY <2>5, <2>6
  <2>8. VersionDocument(cached, gv) = Doc(cached) BY <2>1 DEF VersionDocument
  <2>9. VersionDocument(now, gv) = Doc(now) BY <2>1 DEF VersionDocument
  <2>10. VersionDocument(cached, gv)' = VersionDocument(now, gv) BY <2>6 DEF VersionDocument, ResourceFor, Serves, Established
  <2> QED BY <2>7, <2>8, <2>9, <2>10
<1> QED BY <1>7, <1>8, <1>9

LEMMA ChangeInv ==
  ASSUME DiscoveryTypes, DiscoveryInv, Informer, UNCHANGED discoveryVars
  PROVE  DiscoveryInv'
<1>1. started' = started BY DEF Informer, Change
<1>2. UNCHANGED <<syncing, groupDoc, versionDoc, aggregated>> BY DEF discoveryVars, docVars
<1>3. StartInv' BY <1>1, <1>2 DEF DiscoveryInv, StartInv
<1>4. SyncInv'
  <2> SUFFICES ASSUME NEW s \in syncing
               PROVE  /\ groupDoc[s.gv[1]] = GroupDocument(s.crds, s.gv)
                      /\ \A gv \in GroupVersions :
                           gv[1] = s.gv[1] =>
                             \/ Pending(gv)'
                             \/ VersionDocument(s.crds, gv) = VersionDocument(cached, gv)'
    BY <1>2 DEF SyncInv
  <2>1. /\ groupDoc[s.gv[1]] = GroupDocument(s.crds, s.gv)
        /\ \A gv \in GroupVersions :
             gv[1] = s.gv[1] =>
               Pending(gv) \/ VersionDocument(s.crds, gv) = VersionDocument(cached, gv)
    BY DEF DiscoveryInv, SyncInv
  <2> QED BY <2>1, ChangePending
<1>5. DiscoveryConsistent'
  <2> SUFFICES ASSUME NEW gv \in GroupVersions, ~ ToBeSynced(gv)'
               PROVE  /\ versionDoc[gv] = VersionDocument(cached, gv)'
                      /\ aggregated[gv] = versionDoc[gv]
                      /\ (\E r \in groupDoc[gv[1]] : r.version = gv[2]) <=> versionDoc[gv] # {}
    BY <1>2 DEF DiscoveryConsistent
  <2>1. ~ Pending(gv)' /\ ~ \E s \in syncing : s.gv = gv BY <1>2 DEF ToBeSynced
  <2>2. ~ ToBeSynced(gv) BY <2>1, ChangePending DEF ToBeSynced
  <2> QED BY <2>1, <2>2, ChangePending DEF DiscoveryInv, DiscoveryConsistent
<1> QED BY <1>3, <1>4, <1>5 DEF DiscoveryInv

\* Nothing is forgotten that a handled notification tells of.
LEMMA HandleInv ==
  ASSUME DiscoveryTypes, DiscoveryInv, DiscoveryHandle
  PROVE  DiscoveryInv'
<1>1. /\ notifications \in Seq(Notification) /\ notifications # <<>>
      /\ notifications' = Tail(notifications)
      /\ queue' = queue \cup Enqueue(Head(notifications))
      /\ UNCHANGED <<cached, started, syncing, groupDoc, versionDoc, aggregated>>
  BY DEF DiscoveryHandle, Notified, DiscoveryTypes, SharedTypeOK, discoveryVars, docVars
<1>2. ASSUME NEW gv, Pending(gv) PROVE Pending(gv)'
  <2>1. CASE gv \in queue \/ ~ started BY <1>1, <2>1 DEF Pending
  <2>2. CASE \E n \in DOMAIN notifications : gv \in Enqueue(notifications[n])
    <3>1. PICK n \in DOMAIN notifications : gv \in Enqueue(notifications[n]) BY <2>2
    <3>2. CASE n = 1 BY <1>1, <3>1, <3>2 DEF Pending
    <3>3. CASE n # 1
      <4>1. n - 1 \in DOMAIN Tail(notifications) /\ Tail(notifications)[n - 1] = notifications[n]
        BY <1>1, <3>1, <3>3
      <4>2. \E m \in DOMAIN notifications' : notifications'[m] = notifications[n]
        BY <1>1, <4>1
      <4> QED BY <3>1, <4>2 DEF Pending
    <3> QED BY <3>2, <3>3
  <2> QED BY <1>2, <2>1, <2>2 DEF Pending
<1>3. StartInv' BY <1>1 DEF DiscoveryInv, StartInv
<1>4. \A crds, gv : VersionDocument(crds, gv)' = VersionDocument(crds, gv)
  BY DEF VersionDocument, ResourceFor, Serves, Established
<1>5. SyncInv'
  <2> SUFFICES ASSUME NEW s \in syncing
               PROVE  /\ groupDoc[s.gv[1]] = GroupDocument(s.crds, s.gv)
                      /\ \A gv \in GroupVersions :
                           gv[1] = s.gv[1] =>
                             \/ Pending(gv)'
                             \/ VersionDocument(s.crds, gv) = VersionDocument(cached, gv)
    BY <1>1 DEF SyncInv
  <2> QED BY <1>2 DEF DiscoveryInv, SyncInv
<1>6. DiscoveryConsistent'
  <2> SUFFICES ASSUME NEW gv \in GroupVersions, ~ ToBeSynced(gv)'
               PROVE  /\ versionDoc[gv] = VersionDocument(cached, gv)
                      /\ aggregated[gv] = versionDoc[gv]
                      /\ (\E r \in groupDoc[gv[1]] : r.version = gv[2]) <=> versionDoc[gv] # {}
    BY <1>1 DEF DiscoveryConsistent
  <2>1. ~ ToBeSynced(gv) BY <1>1, <1>2 DEF ToBeSynced
  <2> QED BY <2>1 DEF DiscoveryInv, DiscoveryConsistent
<1> QED BY <1>3, <1>5, <1>6 DEF DiscoveryInv

\* The worker starts with every version in the cache; there are no documents of
\* others.
LEMMA StartedInv ==
  ASSUME DiscoveryTypes, DiscoveryInv, DiscoveryStart
  PROVE  DiscoveryInv'
<1>1. /\ started' = TRUE /\ ~ started
      /\ queue' = queue \cup UNION {VersionsOf(k, cached[k]) : k \in CRDs}
      /\ UNCHANGED <<cached, notifications, syncing, groupDoc, versionDoc, aggregated>>
  BY DEF DiscoveryStart, informerVars, discoveryVars, docVars
<1>2. /\ syncing = {}
      /\ \A g \in Groups : groupDoc[g] = {}
      /\ \A gv \in GroupVersions : versionDoc[gv] = {} /\ aggregated[gv] = {}
  BY <1>1 DEF DiscoveryInv, StartInv
<1>3. StartInv' BY <1>1 DEF StartInv
<1>4. SyncInv' BY <1>1, <1>2 DEF SyncInv
<1>5. ASSUME NEW gv \in GroupVersions, gv \notin queue'
      PROVE  VersionDocument(cached, gv) = {}
  <2>1. ASSUME NEW k \in CRDs, GroupOf[k] = gv[1], Serves(cached[k], gv[2]) PROVE FALSE
    <3>1. cached[k] \in CRD \cup {NoCRD} BY DEF DiscoveryTypes, SharedTypeOK
    <3>2. <<GroupOf[k], gv[2]>> \in VersionsOf(k, cached[k]) BY <2>1, <3>1, ServedVersions
    <3>3. gv = <<GroupOf[k], gv[2]>> BY <2>1 DEF GroupVersions
    <3> QED BY <1>1, <1>5, <3>2, <3>3
  <2> QED BY <2>1 DEF VersionDocument
<1>6. DiscoveryConsistent'
  <2> SUFFICES ASSUME NEW gv \in GroupVersions, ~ ToBeSynced(gv)'
               PROVE  /\ versionDoc[gv] = VersionDocument(cached, gv)
                      /\ aggregated[gv] = versionDoc[gv]
                      /\ (\E r \in groupDoc[gv[1]] : r.version = gv[2]) <=> versionDoc[gv] # {}
    BY <1>1 DEF DiscoveryConsistent
  <2>1. gv \notin queue' BY DEF ToBeSynced, Pending
  <2>2. gv[1] \in Groups BY DEF GroupVersions
  <2> QED BY <1>2, <1>5, <2>1, <2>2
<1> QED BY <1>3, <1>4, <1>6 DEF DiscoveryInv

\* The document of the group now is that of the cache, as are those of the
\* versions that are not to be synced.
LEMMA SyncGroupInv ==
  ASSUME DiscoveryTypes, DiscoveryInv, NEW new \in GroupVersions, SyncGroup(new)
  PROVE  DiscoveryInv'
<1>1. /\ started /\ syncing = {}
      /\ queue' = queue \ {new}
      /\ syncing' = {[gv |-> new, crds |-> cached]}
      /\ groupDoc' = [groupDoc EXCEPT ![new[1]] = GroupDocument(cached, new)]
      /\ UNCHANGED <<cached, notifications, started, versionDoc, aggregated>>
  BY DEF SyncGroup, Take, informerVars
<1>2. groupDoc \in [Groups -> SUBSET Listed] /\ new[1] \in Groups
  BY DEF DiscoveryTypes, DiscoveryTypeOK, GroupVersions
<1>3. groupDoc'[new[1]] = GroupDocument(cached, new) BY <1>1, <1>2
<1>4. StartInv' BY <1>1 DEF StartInv
<1>5. SyncInv' BY <1>1, <1>3 DEF SyncInv
<1>6. DiscoveryConsistent'
  <2> SUFFICES ASSUME NEW gv \in GroupVersions, ~ ToBeSynced(gv)'
               PROVE  /\ versionDoc[gv] = VersionDocument(cached, gv)
                      /\ aggregated[gv] = versionDoc[gv]
                      /\ (\E r \in groupDoc'[gv[1]] : r.version = gv[2]) <=> versionDoc[gv] # {}
    BY <1>1 DEF DiscoveryConsistent
  <2>1. gv # new
    <3>1. [gv |-> new, crds |-> cached] \in syncing' /\ [gv |-> new, crds |-> cached].gv = new
      BY <1>1
    <3>2. \A s \in syncing' : s.gv # gv BY DEF ToBeSynced
    <3> QED BY <3>1, <3>2
  <2>2. ~ ToBeSynced(gv) BY <1>1, <2>1 DEF ToBeSynced, Pending
  <2>3. /\ versionDoc[gv] = VersionDocument(cached, gv)
        /\ aggregated[gv] = versionDoc[gv]
        /\ (\E r \in groupDoc[gv[1]] : r.version = gv[2]) <=> versionDoc[gv] # {}
    BY <2>2 DEF DiscoveryInv, DiscoveryConsistent
  <2>4. CASE gv[1] = new[1]
    <3>1. (\E r \in GroupDocument(cached, new) : r.version = gv[2])
            <=> VersionDocument(cached, gv) # {}
      BY <2>4, ListedHasDocument
    <3> QED BY <1>3, <2>3, <2>4, <3>1
  <2>5. CASE gv[1] # new[1]
    <3>1. groupDoc'[gv[1]] = groupDoc[gv[1]] BY <1>1, <1>2, <2>5 DEF GroupVersions
    <3> QED BY <2>3, <3>1
  <2> QED BY <2>4, <2>5
<1> QED BY <1>4, <1>5, <1>6 DEF DiscoveryInv

\* Of the versions of a group that is removed none has a document that is to stay.
LEMMA SyncVersionInv ==
  ASSUME DiscoveryTypes, DiscoveryInv, SyncVersion
  PROVE  DiscoveryInv'
<1>1. PICK s \in syncing :
        LET doc == VersionDocument(s.crds, s.gv)
        IN  /\ syncing' = {}
            /\ versionDoc' = [versionDoc EXCEPT ![s.gv] = doc]
            /\ aggregated' = IF GroupDocument(s.crds, s.gv) = {}
                             THEN RemoveGroup(s.gv[1])
                             ELSE [aggregated EXCEPT ![s.gv] = doc]
            /\ UNCHANGED <<sharedVars, groupDoc>>
  BY DEF SyncVersion
<1>2. UNCHANGED <<cached, notifications, queue, started, groupDoc>>
  BY <1>1 DEF sharedVars, informerVars
<1>3. /\ s.gv \in GroupVersions /\ syncing = {s}
      /\ versionDoc \in [GroupVersions -> SUBSET Resource]
      /\ aggregated \in [GroupVersions -> SUBSET Resource]
  BY <1>1 DEF DiscoveryTypes, DiscoveryTypeOK
<1>4. /\ groupDoc[s.gv[1]] = GroupDocument(s.crds, s.gv)
      /\ \A gv \in GroupVersions :
           gv[1] = s.gv[1] =>
             Pending(gv) \/ VersionDocument(s.crds, gv) = VersionDocument(cached, gv)
  BY <1>1 DEF DiscoveryInv, SyncInv
<1>5. StartInv' BY <1>1, <1>2 DEF DiscoveryInv, StartInv
<1>6. SyncInv' BY <1>1 DEF SyncInv
<1>7. DiscoveryConsistent'
  <2> SUFFICES ASSUME NEW gv \in GroupVersions, ~ ToBeSynced(gv)'
               PROVE  /\ versionDoc'[gv] = VersionDocument(cached, gv)
                      /\ aggregated'[gv] = versionDoc'[gv]
                      /\ (\E r \in groupDoc[gv[1]] : r.version = gv[2]) <=> versionDoc'[gv] # {}
    BY <1>2 DEF DiscoveryConsistent
  <2>1. ~ Pending(gv) BY <1>2 DEF ToBeSynced, Pending
  <2>2. CASE gv = s.gv
    <3>1. versionDoc'[gv] = VersionDocument(s.crds, gv) BY <1>1, <1>3, <2>2
    <3>2. VersionDocument(s.crds, gv) = VersionDocument(cached, gv) BY <1>4, <2>1, <2>2
    <3>3. /\ (\E r \in GroupDocument(s.crds, gv) : r.version = gv[2])
               <=> VersionDocument(s.crds, gv) # {}
          /\ GroupDocument(s.crds, gv) = {} => VersionDocument(s.crds, gv) = {}
      BY ListedHasDocument
    <3>4. CASE GroupDocument(s.crds, gv) = {}
      <4>1. aggregated'[gv] = {} BY <1>1, <2>2, <3>4 DEF RemoveGroup
      <4> QED BY <1>4, <2>2, <3>1, <3>2, <3>3, <3>4, <4>1
    <3>5. CASE GroupDocument(s.crds, gv) # {}
      <4>1. aggregated'[gv] = VersionDocument(s.crds, gv) BY <1>1, <1>3, <2>2, <3>5
      <4> QED BY <1>4, <2>2, <3>1, <3>2, <3>3, <4>1
    <3> QED BY <3>4, <3>5
  <2>3. CASE gv # s.gv
    <3>1. ~ ToBeSynced(gv) BY <1>3, <2>1, <2>3 DEF ToBeSynced
    <3>2. /\ versionDoc[gv] = VersionDocument(cached, gv)
          /\ aggregated[gv] = versionDoc[gv]
          /\ (\E r \in groupDoc[gv[1]] : r.version = gv[2]) <=> versionDoc[gv] # {}
      BY <3>1 DEF DiscoveryInv, DiscoveryConsistent
    <3>3. versionDoc'[gv] = versionDoc[gv] BY <1>1, <1>3, <2>3
    <3>4. aggregated'[gv] = aggregated[gv]
      <4>1. CASE GroupDocument(s.crds, s.gv) = {} /\ gv[1] = s.gv[1]
        <5>1. VersionDocument(s.crds, gv) = {} BY <1>3, <4>1, ListedHasDocument
        <5>2. VersionDocument(cached, gv) = {} BY <1>4, <2>1, <4>1, <5>1
        <5>3. aggregated'[gv] = {} BY <1>1, <4>1 DEF RemoveGroup
        <5> QED BY <3>2, <5>2, <5>3
      <4>2. CASE GroupDocument(s.crds, s.gv) = {} /\ gv[1] # s.gv[1]
        BY <1>1, <4>2 DEF RemoveGroup
      <4>3. CASE GroupDocument(s.crds, s.gv) # {} BY <1>1, <1>3, <2>3, <4>3
      <4> QED BY <4>1, <4>2, <4>3
    <3> QED BY <3>2, <3>3, <3>4
  <2> QED BY <2>2, <2>3
<1> QED BY <1>5, <1>6, <1>7 DEF DiscoveryInv

\* One step preserves it, of whichever controller runs.
LEMMA DiscoveryStep ==
  ASSUME controller = "discovery" => DiscoveryTypes /\ DiscoveryInv, [Next]_vars
  PROVE  (controller = "discovery" => DiscoveryTypes /\ DiscoveryInv)'
<1> SUFFICES ASSUME controller' = "discovery" PROVE DiscoveryTypes' /\ DiscoveryInv'
  OBVIOUS
<1>1. controller = "discovery"
  BY DEF Next, Report, ChangeCache, Discovery, OpenAPI, OpenAPIV3, vars
<1>2. DiscoveryTypes /\ DiscoveryInv BY <1>1
<1>3. CASE ChangeCache BY <1>2, <1>3, ChangeTypes, ChangeInv DEF ChangeCache
<1>4. CASE Discovery
  <2>1. CASE DiscoveryHandle BY <1>2, <2>1, HandleTypes, HandleInv
  <2>2. CASE DiscoveryStart BY <1>2, <2>2, StartTypes, StartedInv
  <2>3. CASE SyncVersion BY <1>2, <2>3, SyncVersionTypes, SyncVersionInv
  <2>4. ASSUME NEW gv \in GroupVersions, SyncGroup(gv) PROVE DiscoveryTypes' /\ DiscoveryInv'
    BY <1>2, <2>4, SyncGroupTypes, SyncGroupInv
  <2> QED BY <1>4, <2>1, <2>2, <2>3, <2>4 DEF Discovery, DiscoveryNext
<1>5. CASE UNCHANGED vars
  <2>1. UNCHANGED <<cached, changes, notifications, queue, started, syncing, groupDoc,
                    versionDoc, aggregated>>
    BY <1>5 DEF vars, publishingVars, sharedVars, informerVars, discoveryVars, docVars
  <2>2. DiscoveryTypes'
    BY <1>2, <2>1 DEF DiscoveryTypes, SharedTypeOK, DiscoveryTypeOK
  <2>3. DiscoveryInv'
    BY <1>2, <2>1 DEF DiscoveryInv, StartInv, SyncInv, DiscoveryConsistent, ToBeSynced, Pending
  <2> QED BY <2>2, <2>3
<1> QED BY <1>1, <1>3, <1>4, <1>5 DEF Next, Report, OpenAPI, OpenAPIV3

LEMMA SharedStarts ==
  ASSUME Init
  PROVE  SharedTypeOK
<1>1. SharedInit BY DEF Init
<1>2. cached \in [CRDs -> CRD \cup {NoCRD}] BY <1>1 DEF SharedInit
<1>3. changes \in 0..MaxChanges BY <1>1, PublishedAssumption DEF SharedInit
<1>4. notifications \in Seq(Notification) BY <1>1 DEF SharedInit
<1> QED BY <1>1, <1>2, <1>3, <1>4 DEF SharedInit, SharedTypeOK

LEMMA DiscoveryStarts ==
  ASSUME Init
  PROVE  DiscoveryTypes /\ DiscoveryInv
<1>1. SharedTypeOK BY SharedStarts
<1>2. DiscoveryTypeOK BY DEF Init, SharedInit, DiscoveryInit, DiscoveryTypeOK
<1>3. StartInv BY DEF Init, DiscoveryInit, StartInv
<1>4. SyncInv BY DEF Init, DiscoveryInit, SyncInv
<1>5. DiscoveryConsistent
  BY DEF Init, SharedInit, DiscoveryConsistent, ToBeSynced, Pending
<1> QED BY <1>1, <1>2, <1>3, <1>4, <1>5 DEF DiscoveryTypes, DiscoveryInv

-----------------------------------------------------------------------------
(* The OpenAPI controllers: the informer and the queue of keys.            *)

\* A change of a CRD is to be taken up, and leaves the other CRDs alone.
LEMMA SharedChange ==
  ASSUME SharedTypeOK, NEW k \in CRDs, NEW new \in CRD \cup {NoCRD}, Change(k, new)
  PROVE  /\ SharedTypeOK'
         /\ changes' = changes + 1 /\ started' = started
         /\ cached'[k] = new
         /\ \A j \in CRDs : j # k => cached'[j] = cached[j]
         /\ \A j \in CRDs : ToBeTaken(j) => ToBeTaken(j)'
         /\ ToBeTaken(k)'
<1>1. PICK n : n = [name |-> k, old |-> cached[k], new |-> new] OBVIOUS
<1>2. notifications \in Seq(Notification) /\ n \in Notification /\ n.name = k
  BY <1>1 DEF SharedTypeOK, Notification
<1>3. notifications' = Append(notifications, n) BY <1>1 DEF Change
<1>4. /\ \A i \in DOMAIN notifications :
           i \in DOMAIN notifications' /\ notifications'[i] = notifications[i]
      /\ Len(notifications) + 1 \in DOMAIN notifications'
      /\ notifications'[Len(notifications) + 1] = n
      /\ notifications' \in Seq(Notification)
  BY <1>2, <1>3
<1>5. UNCHANGED <<queue, started>> /\ changes' = changes + 1 BY DEF Change
<1>6. /\ cached'[k] = new
      /\ \A j \in CRDs : j # k => cached'[j] = cached[j]
      /\ cached' \in [CRDs -> CRD \cup {NoCRD}]
  BY DEF Change, SharedTypeOK
<1>7. SharedTypeOK'
  BY <1>4, <1>5, <1>6, PublishedAssumption DEF SharedTypeOK, Change
<1>8. \A j \in CRDs : ToBeTaken(j) => ToBeTaken(j)' BY <1>4, <1>5 DEF ToBeTaken
<1>9. ToBeTaken(k)' BY <1>2, <1>4 DEF ToBeTaken
<1> QED BY <1>5, <1>6, <1>7, <1>8, <1>9

\* What a handled notification tells of is queued.
LEMMA SharedHandle ==
  ASSUME SharedTypeOK, Notified({Head(notifications).name})
  PROVE  /\ SharedTypeOK'
         /\ UNCHANGED <<cached, changes, started>>
         /\ \A k \in CRDs : ToBeTaken(k) => ToBeTaken(k)'
<1>1. /\ notifications \in Seq(Notification) /\ notifications # <<>>
      /\ notifications' = Tail(notifications)
      /\ queue' = queue \cup {notifications[1].name}
      /\ UNCHANGED <<cached, changes, started>>
  BY DEF Notified, SharedTypeOK
<1>2. SharedTypeOK' BY <1>1 DEF SharedTypeOK
<1>3. ASSUME NEW k \in CRDs, ToBeTaken(k) PROVE ToBeTaken(k)'
  <2>1. CASE k \in queue \/ ~ started BY <1>1, <2>1 DEF ToBeTaken
  <2>2. CASE \E n \in DOMAIN notifications : notifications[n].name = k
    <3>1. PICK n \in DOMAIN notifications : notifications[n].name = k BY <2>2
    <3>2. CASE n = 1 BY <1>1, <3>1, <3>2 DEF ToBeTaken
    <3>3. CASE n # 1
      <4>1. n - 1 \in DOMAIN Tail(notifications) /\ Tail(notifications)[n - 1] = notifications[n]
        BY <1>1, <3>1, <3>3
      <4>2. \E m \in DOMAIN notifications' : notifications'[m] = notifications[n]
        BY <1>1, <4>1
      <4> QED BY <3>1, <4>2 DEF ToBeTaken
    <3> QED BY <3>2, <3>3
  <2> QED BY <1>3, <2>1, <2>2 DEF ToBeTaken
<1> QED BY <1>1, <1>2, <1>3

\* A key that is taken is that of the CRD that is synced.
LEMMA SharedTake ==
  ASSUME SharedTypeOK, NEW k \in CRDs, Take(k)
  PROVE  /\ SharedTypeOK' /\ started
         /\ UNCHANGED <<cached, changes, started>>
         /\ \A j \in CRDs : j # k => (ToBeTaken(j) => ToBeTaken(j)')
  BY DEF Take, informerVars, SharedTypeOK, ToBeTaken

-----------------------------------------------------------------------------
(* The OpenAPI v2 controller.                                              *)

OpenAPIv2 == SharedTypeOK /\ OpenAPITypeOK /\ OpenAPIInv

\* A created CRD has a uid that no other has had, and an updated one the same
\* generation only with the same spec.
LEMMA NewHash ==
  ASSUME OpenAPIv2, Informer
  PROVE  \E k \in CRDs, new \in CRD \cup {NoCRD} :
           /\ Change(k, new)
           /\ new # NoCRD =>
                \/ new.uid = changes + 1
                \/ /\ cached[k] # NoCRD /\ new.uid = cached[k].uid
                   /\ \/ new.generation = cached[k].generation + 1
                      \/ new.generation = cached[k].generation /\ new.spec = cached[k].spec
<1>1. PICK k \in CRDs, new \in CRD \cup {NoCRD} :
        /\ Change(k, new)
        /\ new = NoCRD \/ new \in Created \/ (cached[k] # NoCRD /\ new \in Updated(cached[k]))
  <2>1. ASSUME NEW k \in CRDs, NEW new, Change(k, new),
               new = NoCRD \/ new \in Created \/ (cached[k] # NoCRD /\ new \in Updated(cached[k]))
        PROVE  new \in CRD \cup {NoCRD}
    <3>1. CASE new \in Created
      <4>1. changes + 1 \in Nat BY PublishedAssumption DEF OpenAPIv2, SharedTypeOK
      <4>2. PICK spec \in Specs, established \in BOOLEAN :
              new = [uid |-> changes + 1, generation |-> 1, spec |-> spec,
                     established |-> established, terminating |-> FALSE]
        BY <3>1 DEF Created
      <4>3. FALSE \in BOOLEAN /\ 1 \in Nat OBVIOUS
      <4> QED BY <4>1, <4>2, <4>3 DEF CRD
    <3>2. CASE cached[k] # NoCRD /\ new \in Updated(cached[k])
      <4>1. cached[k] \in CRD BY <3>2 DEF OpenAPIv2, SharedTypeOK
      <4> QED BY <3>2, <4>1 DEF Updated, CRD
    <3> QED BY <2>1, <3>1, <3>2
  <2> QED BY <2>1 DEF Informer
<1>2. CASE new \in Created
  <2>1. new.uid = changes + 1 BY <1>2 DEF Created
  <2> QED BY <1>1, <2>1
<1>3. CASE cached[k] # NoCRD /\ new \in Updated(cached[k])
  <2>1. /\ new.uid = cached[k].uid
        /\ new.generation \in {cached[k].generation, cached[k].generation + 1}
        /\ new.spec = cached[k].spec <=> new.generation = cached[k].generation
    BY <1>3 DEF Updated
  <2> QED BY <1>1, <1>3, <2>1
<1> QED BY <1>1, <1>2, <1>3

LEMMA ChangeOpenAPI ==
  ASSUME OpenAPIv2, Informer, UNCHANGED openAPIVars
  PROVE  OpenAPIv2'
<1>1. PICK k \in CRDs, new \in CRD \cup {NoCRD} :
        /\ Change(k, new)
        /\ new # NoCRD =>
             \/ new.uid = changes + 1
             \/ /\ cached[k] # NoCRD /\ new.uid = cached[k].uid
                /\ \/ new.generation = cached[k].generation + 1
                   \/ new.generation = cached[k].generation /\ new.spec = cached[k].spec
  BY NewHash
<1>2. /\ SharedTypeOK'
      /\ changes' = changes + 1 /\ started' = started
      /\ cached'[k] = new
      /\ \A j \in CRDs : j # k => cached'[j] = cached[j]
      /\ \A j \in CRDs : ToBeTaken(j) => ToBeTaken(j)'
      /\ ToBeTaken(k)'
  BY <1>1, SharedChange DEF OpenAPIv2
<1>3. UNCHANGED <<specsByName, built, merged>> BY DEF openAPIVars
<1>4. OpenAPITypeOK' BY <1>3 DEF OpenAPIv2, OpenAPITypeOK
<1>5. KeptInv' BY <1>2, <1>3 DEF OpenAPIv2, OpenAPIInv, KeptInv, Established
<1>6. HashInv'
  <2> SUFFICES ASSUME NEW j \in CRDs, NEW crd \in Known(j)'
               PROVE  /\ crd.uid <= changes'
                      /\ cached'[j] # NoCRD /\ crd.uid = cached'[j].uid
                           => crd.generation <= cached'[j].generation
                      /\ \A other \in Known(j)' : Hash(crd) = Hash(other) => crd.spec = other.spec
    BY DEF HashInv, Hash
  <2>1. changes \in Nat /\ \A i \in CRDs : \A x \in Known(i) : x \in CRD
    BY PublishedAssumption DEF OpenAPIv2, SharedTypeOK, OpenAPITypeOK, Known
  <2>2. \A x \in Known(j) :
          /\ x.uid <= changes
          /\ cached[j] # NoCRD /\ x.uid = cached[j].uid => x.generation <= cached[j].generation
          /\ \A y \in Known(j) :
               x.uid = y.uid /\ x.generation = y.generation => x.spec = y.spec
    BY DEF OpenAPIv2, OpenAPIInv, HashInv, Hash
  <2>3. \A x \in Known(j) : x.uid \in Nat /\ x.generation \in Nat BY <2>1 DEF CRD
  <2>4. CASE j # k
    <3>1. Known(j)' = Known(j) /\ cached'[j] = cached[j] BY <1>2, <1>3, <2>4 DEF Known
    <3> QED BY <1>2, <2>1, <2>2, <2>3, <3>1 DEF Hash
  <2>5. CASE j = k
    <3>1. \A x \in Known(k)' : x \in Known(k) \/ (x = new /\ new # NoCRD)
      BY <1>2, <1>3 DEF Known
    <3>2. cached[k] # NoCRD => cached[k] \in Known(k) BY DEF Known
    <3>3. ASSUME new # NoCRD
          PROVE  /\ new.uid \in Nat /\ new.generation \in Nat /\ new.uid <= changes'
                 /\ \A x \in Known(k) :
                      x.uid = new.uid =>
                        /\ x.generation <= new.generation
                        /\ x.generation = new.generation => x.spec = new.spec
      <4>1. new.uid \in Nat /\ new.generation \in Nat BY <3>3 DEF CRD
      <4>2. CASE new.uid = changes + 1 BY <1>2, <2>1, <2>2, <2>3, <2>5, <4>1, <4>2
      <4>3. CASE /\ cached[k] # NoCRD /\ new.uid = cached[k].uid
                 /\ \/ new.generation = cached[k].generation + 1
                    \/ new.generation = cached[k].generation /\ new.spec = cached[k].spec
        <5>1. cached[k].uid <= changes /\ cached[k].uid \in Nat /\ cached[k].generation \in Nat
          BY <2>2, <2>3, <2>5, <3>2, <4>3
        <5> QED BY <1>2, <2>1, <2>2, <2>3, <2>5, <3>2, <4>1, <4>3, <5>1
      <4> QED BY <1>1, <3>3, <4>2, <4>3
    <3> QED BY <1>2, <2>1, <2>2, <2>3, <2>5, <3>1, <3>3 DEF Hash
  <2> QED BY <2>4, <2>5
<1> QED BY <1>2, <1>4, <1>5, <1>6 DEF OpenAPIv2, OpenAPIInv

\* What is known of a CRD, and what it is synced for, is not changed by a step
\* that changes no object.
LEMMA SameHashes ==
  ASSUME HashInv, UNCHANGED <<cached, changes>>, \A k \in CRDs : Known(k)' \subseteq Known(k)
  PROVE  HashInv'
<1> SUFFICES ASSUME NEW k \in CRDs, NEW crd \in Known(k)', NEW other \in Known(k)'
             PROVE  /\ crd.uid <= changes
                    /\ cached[k] # NoCRD /\ crd.uid = cached[k].uid
                         => crd.generation <= cached[k].generation
                    /\ Hash(crd) = Hash(other) => crd.spec = other.spec
  BY DEF HashInv, Hash
<1>1. crd \in Known(k) /\ other \in Known(k) OBVIOUS
<1> QED BY <1>1 DEF HashInv

LEMMA HandleOpenAPI ==
  ASSUME OpenAPIv2, OpenAPIHandle
  PROVE  OpenAPIv2'
<1>1. /\ SharedTypeOK' /\ UNCHANGED <<cached, changes, started>>
      /\ \A k \in CRDs : ToBeTaken(k) => ToBeTaken(k)'
  BY SharedHandle DEF OpenAPIHandle, OpenAPIv2
<1>2. UNCHANGED <<specsByName, built, merged>> BY DEF OpenAPIHandle, openAPIVars
<1>3. OpenAPITypeOK' BY <1>2 DEF OpenAPIv2, OpenAPITypeOK
<1>4. KeptInv' BY <1>1, <1>2 DEF OpenAPIv2, OpenAPIInv, KeptInv, Established
<1>5. HashInv' BY <1>1, <1>2, SameHashes DEF OpenAPIv2, OpenAPIInv, Known
<1> QED BY <1>1, <1>3, <1>4, <1>5 DEF OpenAPIv2, OpenAPIInv

\* The worker starts with what is cached.
LEMMA StartOpenAPI ==
  ASSUME OpenAPIv2, OpenAPIStart
  PROVE  OpenAPIv2'
<1>1. /\ started' = TRUE /\ UNCHANGED <<cached, changes, notifications, queue, built>>
      /\ specsByName' = [k \in CRDs |-> IF Established(cached[k]) THEN cached[k] ELSE NoCRD]
      /\ merged' = {k \in CRDs : specsByName'[k] # NoCRD}
  BY DEF OpenAPIStart, UpdateSpec, informerVars
<1>2. SharedTypeOK' BY <1>1 DEF OpenAPIv2, SharedTypeOK
<1>3. OpenAPITypeOK' BY <1>1 DEF OpenAPIv2, SharedTypeOK, OpenAPITypeOK
<1>4. KeptInv' BY <1>1 DEF KeptInv, Established
<1>5. HashInv' BY <1>1, SameHashes DEF OpenAPIv2, OpenAPIInv, Known
<1> QED BY <1>2, <1>3, <1>4, <1>5 DEF OpenAPIv2, OpenAPIInv

\* A sync keeps what is cached, in whichever of four ways.
LEMMA SyncOpenAPIKeeps ==
  ASSUME OpenAPIv2, NEW k \in CRDs, SyncOpenAPI(k)
  PROVE  /\ specsByName' = [specsByName EXCEPT ![k] = IF Established(cached[k]) THEN cached[k] ELSE NoCRD]
         /\ merged' = {j \in CRDs : specsByName'[j] # NoCRD}
         /\ \A j \in CRDs : built'[j] \in {built[j], NoCRD}
         /\ built' \in [CRDs -> CRD \cup {NoCRD}]
<1>1. /\ specsByName \in [CRDs -> CRD \cup {NoCRD}] /\ built \in [CRDs -> CRD \cup {NoCRD}]
      /\ merged = {j \in CRDs : specsByName[j] # NoCRD}
  BY DEF OpenAPIv2, OpenAPITypeOK, OpenAPIInv, KeptInv
<1>2. CASE ~ Established(cached[k]) /\ specsByName[k] = NoCRD /\ UNCHANGED openAPIVars
  <2>1. UNCHANGED <<specsByName, built, merged>> BY <1>2 DEF openAPIVars
  <2>2. specsByName' = [specsByName EXCEPT ![k] = NoCRD] BY <1>1, <1>2, <2>1
  <2> QED BY <1>1, <1>2, <2>1, <2>2
<1>3. CASE ~ Established(cached[k]) /\ specsByName[k] # NoCRD /\ RemoveSpec(k)
  BY <1>1, <1>3 DEF RemoveSpec, UpdateSpec
<1>4. CASE Established(cached[k]) /\ specsByName[k] = NoCRD /\ CreateSpec(k)
  BY <1>1, <1>4 DEF CreateSpec, UpdateSpec
<1>5. CASE Established(cached[k]) /\ specsByName[k] # NoCRD /\ ReplaceSpec(k)
  <2>1. /\ specsByName' = [specsByName EXCEPT ![k] = cached[k]]
        /\ UNCHANGED <<built, merged>>
        /\ cached[k] # NoCRD
    BY <1>5 DEF ReplaceSpec, Established
  <2>2. \A j \in CRDs : specsByName'[j] # NoCRD <=> specsByName[j] # NoCRD BY <1>1, <1>5, <2>1
  <2> QED BY <1>1, <1>5, <2>1, <2>2
<1> QED BY <1>2, <1>3, <1>4, <1>5 DEF SyncOpenAPI

LEMMA SyncOpenAPIInv ==
  ASSUME OpenAPIv2, NEW k \in CRDs, SyncOpenAPI(k)
  PROVE  OpenAPIv2'
<1>1. /\ SharedTypeOK' /\ started /\ UNCHANGED <<cached, changes, started>>
      /\ \A j \in CRDs : j # k => (ToBeTaken(j) => ToBeTaken(j)')
  BY SharedTake DEF SyncOpenAPI, OpenAPIv2
<1>2. /\ specsByName' = [specsByName EXCEPT ![k] = IF Established(cached[k]) THEN cached[k] ELSE NoCRD]
      /\ merged' = {j \in CRDs : specsByName'[j] # NoCRD}
      /\ \A j \in CRDs : built'[j] \in {built[j], NoCRD}
      /\ built' \in [CRDs -> CRD \cup {NoCRD}]
  BY SyncOpenAPIKeeps
<1>3. /\ cached \in [CRDs -> CRD \cup {NoCRD}]
      /\ specsByName \in [CRDs -> CRD \cup {NoCRD}]
  BY DEF OpenAPIv2, SharedTypeOK, OpenAPITypeOK
<1>4. /\ specsByName'[k] = IF Established(cached[k]) THEN cached[k] ELSE NoCRD
      /\ \A j \in CRDs : j # k => specsByName'[j] = specsByName[j]
      /\ specsByName' \in [CRDs -> CRD \cup {NoCRD}]
  BY <1>2, <1>3
<1>5. OpenAPITypeOK' BY <1>2, <1>4 DEF OpenAPITypeOK
<1>6. KeptInv' BY <1>1, <1>2, <1>4 DEF OpenAPIv2, OpenAPIInv, KeptInv, Established
<1>7. \A j \in CRDs : Known(j)' \subseteq Known(j)
  BY <1>1, <1>2, <1>4 DEF Known
<1>8. HashInv' BY <1>1, <1>7, SameHashes DEF OpenAPIv2, OpenAPIInv
<1> QED BY <1>1, <1>5, <1>6, <1>8 DEF OpenAPIv2, OpenAPIInv

\* A request builds what is kept, or keeps what was built.
LEMMA GetOpenAPIInv ==
  ASSUME OpenAPIv2, GetOpenAPI
  PROVE  OpenAPIv2'
<1>1. /\ UNCHANGED <<cached, changes, notifications, queue, started, specsByName, merged>>
      /\ built' = [k \in CRDs |-> IF k \in merged THEN BuiltOf(k) ELSE built[k]]
  BY DEF GetOpenAPI, sharedVars, informerVars
<1>2. \A k \in CRDs : built'[k] \in {built[k], specsByName[k]} BY <1>1 DEF BuiltOf
<1>3. SharedTypeOK' BY <1>1 DEF OpenAPIv2, SharedTypeOK
<1>4. OpenAPITypeOK'
  <2>1. /\ built \in [CRDs -> CRD \cup {NoCRD}] /\ specsByName \in [CRDs -> CRD \cup {NoCRD}]
        /\ merged \subseteq CRDs
    BY DEF OpenAPIv2, OpenAPITypeOK
  <2>2. built' \in [CRDs -> CRD \cup {NoCRD}] BY <1>1, <1>2, <2>1
  <2> QED BY <1>1, <2>1, <2>2 DEF OpenAPITypeOK
<1>5. KeptInv' BY <1>1 DEF OpenAPIv2, OpenAPIInv, KeptInv, Established, ToBeTaken
<1>6. HashInv' BY <1>1, <1>2, SameHashes DEF OpenAPIv2, OpenAPIInv, Known
<1> QED BY <1>3, <1>4, <1>5, <1>6 DEF OpenAPIv2, OpenAPIInv

LEMMA OpenAPIStep ==
  ASSUME controller = "openapi" => OpenAPIv2, [Next]_vars
  PROVE  (controller = "openapi" => OpenAPIv2)'
<1> SUFFICES ASSUME controller' = "openapi" PROVE OpenAPIv2'
  OBVIOUS
<1>1. controller = "openapi"
  BY DEF Next, Report, ChangeCache, Discovery, OpenAPI, OpenAPIV3, vars
<1>2. OpenAPIv2 BY <1>1
<1>3. CASE ChangeCache BY <1>2, <1>3, ChangeOpenAPI DEF ChangeCache
<1>4. CASE OpenAPI
  BY <1>2, <1>4, HandleOpenAPI, StartOpenAPI, GetOpenAPIInv, SyncOpenAPIInv
  DEF OpenAPI, OpenAPINext
<1>5. CASE UNCHANGED vars
  <2>1. UNCHANGED <<cached, changes, notifications, queue, started, specsByName, built, merged>>
    BY <1>5 DEF vars, publishingVars, sharedVars, informerVars, openAPIVars
  <2>2. SharedTypeOK' /\ OpenAPITypeOK'
    BY <1>2, <2>1 DEF OpenAPIv2, SharedTypeOK, OpenAPITypeOK
  <2>3. KeptInv' BY <1>2, <2>1 DEF OpenAPIv2, OpenAPIInv, KeptInv, Established, ToBeTaken
  <2>4. HashInv' BY <1>2, <2>1, SameHashes DEF OpenAPIv2, OpenAPIInv, Known
  <2> QED BY <2>2, <2>3, <2>4 DEF OpenAPIv2, OpenAPIInv
<1> QED BY <1>1, <1>3, <1>4, <1>5 DEF Next, Report, Discovery, OpenAPIV3

LEMMA OpenAPIStarts ==
  ASSUME Init
  PROVE  OpenAPIv2
<1>1. /\ cached = [k \in CRDs |-> NoCRD] /\ started = FALSE
      /\ specsByName = [k \in CRDs |-> NoCRD]
      /\ built = [k \in CRDs |-> NoCRD]
      /\ merged = {}
  BY DEF Init, SharedInit, OpenAPIInit
<1>2. OpenAPITypeOK BY <1>1 DEF OpenAPITypeOK
<1>3. KeptInv BY <1>1 DEF KeptInv, ToBeTaken
<1>4. HashInv BY <1>1 DEF HashInv, Known
<1> QED BY <1>2, <1>3, <1>4, SharedStarts DEF OpenAPIv2, OpenAPIInv

\* What a request builds anew or finds built is of the cached spec: the hash of
\* what is kept is that of no other.
LEMMA OpenAPIDocument ==
  ASSUME OpenAPIv2
  PROVE  OpenAPIConsistent
<1> SUFFICES ASSUME NEW k \in CRDs, ~ ToBeTaken(k)
             PROVE  {part \in Document : part.name = k}
                      = IF Established(cached[k]) THEN Parts(k, cached[k]) ELSE {}
  BY DEF OpenAPIConsistent
<1>1. /\ specsByName[k] = IF Established(cached[k]) THEN cached[k] ELSE NoCRD
      /\ merged = {j \in CRDs : specsByName[j] # NoCRD}
  BY DEF OpenAPIv2, OpenAPIInv, KeptInv
<1>2. k \in merged <=> Established(cached[k]) BY <1>1 DEF Established
<1>3. \A j : \A crd : \A part \in Parts(j, crd) : part.name = j BY DEF Parts
<1>4. CASE Established(cached[k])
  <2>1. specsByName[k] = cached[k] /\ cached[k] # NoCRD BY <1>1, <1>4 DEF Established
  <2>2. BuiltOf(k).spec = cached[k].spec
    <3>1. specsByName[k] \in Known(k) BY <2>1 DEF Known
    <3>2. built[k] # NoCRD => built[k] \in Known(k) BY DEF Known
    <3> QED BY <2>1, <3>1, <3>2 DEF BuiltOf, OpenAPIv2, OpenAPIInv, HashInv
  <2>3. Parts(k, BuiltOf(k)) = Parts(k, cached[k]) BY <2>2 DEF Parts
  <2>4. {part \in Document : part.name = k} = Parts(k, BuiltOf(k))
    BY <1>2, <1>3, <1>4 DEF Document
  <2> QED BY <1>4, <2>3, <2>4
<1>5. CASE ~ Established(cached[k])
  <2>1. {part \in Document : part.name = k} = {} BY <1>2, <1>3, <1>5 DEF Document
  <2> QED BY <1>5, <2>1
<1> QED BY <1>4, <1>5

-----------------------------------------------------------------------------
(* The OpenAPI v3 controller.                                              *)

OpenAPIv3 ==
  /\ SharedTypeOK
  /\ DOMAIN specsByGVandName = GroupVersions
  /\ OpenAPIV3Inv

\* What a step that keeps the parts has to keep of the rest.
LEMMA SameParts ==
  ASSUME OpenAPIV3Inv, UNCHANGED <<specsByGVandName, published>>,
         ~ started' => ~ started,
         \A k \in CRDs : cached'[k] = cached[k] \/ ToBeTaken(k)',
         \A k \in CRDs : ToBeTaken(k) => ToBeTaken(k)'
  PROVE  OpenAPIV3Inv'
<1> SUFFICES ASSUME NEW gv \in GroupVersions
             PROVE  /\ ~ started' => specsByGVandName[gv] = {}
                    /\ Conflict(specsByGVandName[gv]) \/ published[gv] = specsByGVandName[gv]
                    /\ \A k \in CRDs :
                         \/ ToBeTaken(k)'
                         \/ /\ GroupOf[k] = gv[1] /\ Serves(cached'[k], gv[2])
                                 => PartFor(k, cached'[k], gv[2]) \in specsByGVandName[gv]
                            /\ (\E p \in specsByGVandName[gv] : p.name = k)
                                 => Established(cached'[k])
  BY DEF OpenAPIV3Inv, Conflict, Definitions, Serves, Established, PartFor
<1>1. /\ ~ started => specsByGVandName[gv] = {}
      /\ Conflict(specsByGVandName[gv]) \/ published[gv] = specsByGVandName[gv]
      /\ \A k \in CRDs :
           \/ ToBeTaken(k)
           \/ /\ GroupOf[k] = gv[1] /\ Serves(cached[k], gv[2])
                   => PartFor(k, cached[k], gv[2]) \in specsByGVandName[gv]
              /\ (\E p \in specsByGVandName[gv] : p.name = k) => Established(cached[k])
  BY DEF OpenAPIV3Inv
<1> QED BY <1>1

LEMMA ChangeOpenAPIV3 ==
  ASSUME OpenAPIv3, Informer, UNCHANGED openAPIV3Vars
  PROVE  OpenAPIv3'
<1>1. PICK k \in CRDs, new \in CRD \cup {NoCRD} : Change(k, new)
  BY InformerChange DEF OpenAPIv3
<1>2. /\ SharedTypeOK' /\ started' = started
      /\ \A j \in CRDs : j # k => cached'[j] = cached[j]
      /\ \A j \in CRDs : ToBeTaken(j) => ToBeTaken(j)'
      /\ ToBeTaken(k)'
  BY <1>1, SharedChange DEF OpenAPIv3
<1>3. UNCHANGED <<specsByGVandName, published>> BY DEF openAPIV3Vars
<1>4. OpenAPIV3Inv' BY <1>2, <1>3, SameParts DEF OpenAPIv3
<1> QED BY <1>2, <1>3, <1>4 DEF OpenAPIv3

LEMMA HandleOpenAPIV3 ==
  ASSUME OpenAPIv3, OpenAPIV3Handle
  PROVE  OpenAPIv3'
<1>1. /\ SharedTypeOK' /\ UNCHANGED <<cached, started>>
      /\ \A k \in CRDs : ToBeTaken(k) => ToBeTaken(k)'
  BY SharedHandle DEF OpenAPIV3Handle, OpenAPIv3
<1>2. UNCHANGED <<specsByGVandName, published>> BY DEF OpenAPIV3Handle, openAPIV3Vars
<1>3. OpenAPIV3Inv' BY <1>1, <1>2, SameParts DEF OpenAPIv3
<1> QED BY <1>1, <1>2, <1>3 DEF OpenAPIv3

\* The worker starts with every established CRD; there are no parts of others.
LEMMA StartOpenAPIV3 ==
  ASSUME OpenAPIv3, OpenAPIV3Start
  PROVE  OpenAPIv3'
<1>1. /\ ~ started /\ started' = TRUE
      /\ queue' = queue \cup {k \in CRDs : Established(cached[k])}
      /\ UNCHANGED <<cached, changes, notifications, specsByGVandName, published>>
  BY DEF OpenAPIV3Start, informerVars, openAPIV3Vars
<1>2. SharedTypeOK' BY <1>1 DEF OpenAPIv3, SharedTypeOK
<1>3. \A gv \in GroupVersions :
        /\ specsByGVandName[gv] = {}
        /\ Conflict(specsByGVandName[gv]) \/ published[gv] = specsByGVandName[gv]
  BY <1>1 DEF OpenAPIv3, OpenAPIV3Inv
<1>4. \A k \in CRDs : ToBeTaken(k)' \/ ~ Established(cached[k]) BY <1>1 DEF ToBeTaken
<1>5. OpenAPIV3Inv'
  BY <1>1, <1>3, <1>4 DEF OpenAPIV3Inv, Conflict, Definitions, Serves, Established
<1> QED BY <1>1, <1>2, <1>5 DEF OpenAPIv3

\* What a sync makes of the parts: right for its CRD, and as they were for the
\* others.
LEMMA PartsOfOthers ==
  ASSUME NEW gv \in GroupVersions, NEW k \in CRDs, NEW crd, NEW part, part.name # k
  PROVE  part \in PartsAfter(gv, k, crd) <=> part \in specsByGVandName[gv]
  BY DEF PartsAfter, Others, PartFor

LEMMA PartsOfSynced ==
  ASSUME NEW gv \in GroupVersions, NEW k \in CRDs, NEW crd
  PROVE  /\ GroupOf[k] = gv[1] /\ Serves(crd, gv[2])
              => PartFor(k, crd, gv[2]) \in PartsAfter(gv, k, crd)
         /\ (\E p \in PartsAfter(gv, k, crd) : p.name = k) => Established(crd)
  BY DEF PartsAfter, Others, PartFor, Serves

LEMMA SyncOpenAPIV3Inv ==
  ASSUME OpenAPIv3, NEW k \in CRDs, SyncOpenAPIV3(k)
  PROVE  OpenAPIv3'
<1>1. /\ SharedTypeOK' /\ started /\ UNCHANGED <<cached, changes, started>>
      /\ \A j \in CRDs : j # k => (ToBeTaken(j) => ToBeTaken(j)')
  BY SharedTake DEF SyncOpenAPIV3, OpenAPIv3
<1>2. specsByGVandName' = [gv \in GroupVersions |-> PartsAfter(gv, k, cached[k])]
  BY DEF SyncOpenAPIV3
<1>3. \A gv \in GroupVersions :
        /\ specsByGVandName'[gv] = PartsAfter(gv, k, cached[k])
        /\ published'[gv] = IF PartsAfter(gv, k, cached[k]) = specsByGVandName[gv]
                            THEN published[gv]
                            ELSE Merged(gv, PartsAfter(gv, k, cached[k]))
  BY DEF SyncOpenAPIV3
<1>4. OpenAPIV3Inv'
  <2> SUFFICES ASSUME NEW gv \in GroupVersions
               PROVE  /\ \/ Conflict(specsByGVandName'[gv])
                         \/ published'[gv] = specsByGVandName'[gv]
                      /\ \A j \in CRDs :
                           \/ ToBeTaken(j)'
                           \/ /\ GroupOf[j] = gv[1] /\ Serves(cached[j], gv[2])
                                   => PartFor(j, cached[j], gv[2]) \in specsByGVandName'[gv]
                              /\ (\E p \in specsByGVandName'[gv] : p.name = j)
                                   => Established(cached[j])
    BY <1>1 DEF OpenAPIV3Inv, Conflict, Definitions, Serves, Established, PartFor
  <2>1. PICK parts : parts = PartsAfter(gv, k, cached[k]) OBVIOUS
  <2>2. /\ specsByGVandName'[gv] = parts
        /\ published'[gv] = IF parts = specsByGVandName[gv] THEN published[gv]
                            ELSE Merged(gv, parts)
    BY <1>3, <2>1
  <2>3. Conflict(specsByGVandName[gv]) \/ published[gv] = specsByGVandName[gv]
    BY DEF OpenAPIv3, OpenAPIV3Inv
  <2>4. Conflict(parts) \/ published'[gv] = parts
    <3>1. CASE parts = specsByGVandName[gv] BY <2>2, <2>3, <3>1
    <3>2. CASE parts # specsByGVandName[gv] BY <2>2, <3>2 DEF Merged
    <3> QED BY <3>1, <3>2
  <2>5. ASSUME NEW j \in CRDs, ~ ToBeTaken(j)'
        PROVE  /\ GroupOf[j] = gv[1] /\ Serves(cached[j], gv[2])
                    => PartFor(j, cached[j], gv[2]) \in parts
               /\ (\E p \in parts : p.name = j) => Established(cached[j])
    <3>1. CASE j = k BY <2>1, <3>1, PartsOfSynced
    <3>2. CASE j # k
      <4>1. ~ ToBeTaken(j) BY <1>1, <2>5, <3>2
      <4>2. /\ GroupOf[j] = gv[1] /\ Serves(cached[j], gv[2])
                 => PartFor(j, cached[j], gv[2]) \in specsByGVandName[gv]
            /\ (\E p \in specsByGVandName[gv] : p.name = j) => Established(cached[j])
        BY <4>1 DEF OpenAPIv3, OpenAPIV3Inv
      <4>3. PartFor(j, cached[j], gv[2]).name = j BY DEF PartFor
      <4>4. \A part : part.name = j => (part \in parts <=> part \in specsByGVandName[gv])
        BY <2>1, <3>2, PartsOfOthers
      <4> QED BY <4>2, <4>3, <4>4
    <3> QED BY <3>1, <3>2
  <2> QED BY <2>2, <2>4, <2>5
<1> QED BY <1>1, <1>2, <1>4 DEF OpenAPIv3

LEMMA OpenAPIV3Step ==
  ASSUME controller = "openapiv3" => OpenAPIv3, [Next]_vars
  PROVE  (controller = "openapiv3" => OpenAPIv3)'
<1> SUFFICES ASSUME controller' = "openapiv3" PROVE OpenAPIv3'
  OBVIOUS
<1>1. controller = "openapiv3"
  BY DEF Next, Report, ChangeCache, Discovery, OpenAPI, OpenAPIV3, vars
<1>2. OpenAPIv3 BY <1>1
<1>3. CASE ChangeCache BY <1>2, <1>3, ChangeOpenAPIV3 DEF ChangeCache
<1>4. CASE OpenAPIV3
  BY <1>2, <1>4, HandleOpenAPIV3, StartOpenAPIV3, SyncOpenAPIV3Inv DEF OpenAPIV3, OpenAPIV3Next
<1>5. CASE UNCHANGED vars
  <2>1. UNCHANGED <<cached, changes, notifications, queue, started, specsByGVandName, published>>
    BY <1>5 DEF vars, publishingVars, sharedVars, informerVars, openAPIV3Vars
  <2>2. SharedTypeOK' BY <1>2, <2>1 DEF OpenAPIv3, SharedTypeOK
  <2>3. \A k \in CRDs : ToBeTaken(k) => ToBeTaken(k)' BY <2>1 DEF ToBeTaken
  <2>4. OpenAPIV3Inv' BY <1>2, <2>1, <2>3, SameParts DEF OpenAPIv3
  <2> QED BY <1>2, <2>1, <2>2, <2>4 DEF OpenAPIv3
<1> QED BY <1>1, <1>3, <1>4, <1>5 DEF Next, Report, Discovery, OpenAPI

LEMMA OpenAPIV3Starts ==
  ASSUME Init
  PROVE  OpenAPIv3
<1>1. /\ started = FALSE
      /\ specsByGVandName = [gv \in GroupVersions |-> {}]
      /\ published = [gv \in GroupVersions |-> {}]
  BY DEF Init, SharedInit, OpenAPIV3Init
<1>2. OpenAPIV3Inv BY <1>1 DEF OpenAPIV3Inv, ToBeTaken
<1> QED BY <1>1, <1>2, SharedStarts DEF OpenAPIv3

LEMMA OpenAPIV3Document ==
  ASSUME OpenAPIv3
  PROVE  OpenAPIV3Consistent
  BY DEF OpenAPIv3, OpenAPIV3Inv, OpenAPIV3Consistent

-----------------------------------------------------------------------------
(* All that publish.                                                       *)

\* Whichever controller publishes, what it has published of a CRD is what the
\* cache prescribes, or it is still to be synced: no change is missed between
\* what a sync reads, what it writes and the notifications that come later; no
\* discovery document is left of a group that was removed, in none of three
\* places; no OpenAPI part that was built of an object that is gone is served for
\* another; and the end of a conflict is not missed either.
THEOREM NothingMissed == PublishingSpec => []PublishedConsistent
<1> DEFINE Inv ==
      /\ controller = "discovery" => DiscoveryTypes /\ DiscoveryInv
      /\ controller = "openapi" => OpenAPIv2
      /\ controller = "openapiv3" => OpenAPIv3
<1>1. Init => Inv BY DiscoveryStarts, OpenAPIStarts, OpenAPIV3Starts
<1>2. Inv /\ [Next]_vars => Inv' BY DiscoveryStep, OpenAPIStep, OpenAPIV3Step
<1>3. Inv => PublishedConsistent
  BY OpenAPIDocument, OpenAPIV3Document DEF DiscoveryInv, PublishedConsistent
<1> QED BY <1>1, <1>2, <1>3, PTL DEF PublishingSpec

-----------------------------------------------------------------------------
(* The controllers of conditions: types.                                   *)

ReportEvent == [rv : Nat, name : Reported, obj : Reports!CRD \cup {NoCRD}]

ReportTypes ==
  /\ rv \in Nat
  /\ store \in [Reported -> Reports!CRD \cup {NoCRD}]
  /\ cache \in [Servers -> [Reported -> Reports!CRD \cup {NoCRD}]]
  /\ watch \in [Servers -> SUBSET ReportEvent]
  /\ task \in [Servers -> [Reported -> Reports!Task]]
  /\ \A s \in Servers, k \in Reported : task[s][k].step = "update" => task[s][k].crd \in Reports!CRD
  /\ setting \in DOMAIN Settings

\* A write of an object, or of none, under its key.
ReportStores(k, obj) ==
  /\ Reports!Write(k, obj)
  /\ obj \in Reports!CRD \cup {NoCRD}
  /\ obj # NoCRD => obj.rv = rv + 1 /\ obj.name = k
  /\ UNCHANGED cache

LEMMA ReportStored ==
  ASSUME ReportTypes, NEW k \in Reported, NEW obj, ReportStores(k, obj)
  PROVE  /\ rv' = rv + 1
         /\ store'[k] = obj
         /\ \A j \in Reported \ {k} : store'[j] = store[j]
         /\ \A s \in Servers :
              watch'[s] = watch[s] \cup {[rv |-> rv + 1, name |-> k, obj |-> obj]}
  BY DEF ReportStores, Reports!Write, ReportTypes

LEMMA NewVersion ==
  ASSUME NEW obj \in Reports!CRD, NEW n \in Nat
  PROVE  /\ [obj EXCEPT !.rv = n] \in Reports!CRD
         /\ [obj EXCEPT !.rv = n].rv = n
         /\ [obj EXCEPT !.rv = n].name = obj.name
         /\ [obj EXCEPT !.rv = n].subject = obj.subject
         /\ [obj EXCEPT !.rv = n].generation = obj.generation
         /\ [obj EXCEPT !.rv = n].condition = obj.condition
  BY DEF Reports!CRD

LEMMA PutStored ==
  ASSUME ReportTypes, NEW k \in Reported, NEW obj \in Reports!CRD, obj.name = k,
         Reports!Put(k, obj), UNCHANGED cache
  PROVE  ReportStores(k, [obj EXCEPT !.rv = rv + 1])
<1>1. rv + 1 \in Nat BY DEF ReportTypes
<1> QED BY <1>1, NewVersion DEF ReportStores, Reports!Put

\* What users do is one write that leaves the condition alone.
LEMMA UserStores ==
  ASSUME ReportTypes, Reports!NameInv, Reports!UserNext
  PROVE  /\ \E k \in Reported, obj \in Reports!CRD \cup {NoCRD} :
              /\ ReportStores(k, obj)
              /\ store[k] # NoCRD /\ obj # NoCRD => obj.condition = store[k].condition
         /\ UNCHANGED task
<1>1. UNCHANGED task BY DEF Reports!UserNext, Reports!controllerVars
<1>2. PICK k \in Reported :
        Reports!Create(k) \/ Reports!Update(k) \/ Reports!Delete(k) \/ Reports!UpdateOther(k)
  BY DEF Reports!UserNext
<1>3. UNCHANGED cache
  BY <1>2 DEF Reports!Create, Reports!Update, Reports!Delete, Reports!UpdateOther, Reports!UserWrite
<1>4. CASE Reports!Create(k)
  <2>1. PICK subject \in Subjects :
          Reports!Put(k, [name |-> k, uid |-> rv + 1, rv |-> rv + 1, subject |-> subject,
                          generation |-> 1, condition |-> NoCondition])
    BY <1>4 DEF Reports!Create
  <2>2. PICK obj : obj = [name |-> k, uid |-> rv + 1, rv |-> rv + 1, subject |-> subject,
                          generation |-> 1, condition |-> NoCondition]
    OBVIOUS
  <2>3. obj \in Reports!CRD /\ obj.name = k BY <2>2 DEF ReportTypes, Reports!CRD
  <2>4. ReportStores(k, [obj EXCEPT !.rv = rv + 1]) BY <1>3, <2>1, <2>2, <2>3, PutStored
  <2>5. store[k] = NoCRD BY <1>4 DEF Reports!Create
  <2> QED BY <1>1, <2>4, <2>5 DEF ReportStores
<1>5. CASE Reports!Update(k)
  <2>1. store[k] \in Reports!CRD /\ store[k].name = k
    BY <1>5 DEF Reports!Update, ReportTypes, Reports!NameInv, Reports!Live
  <2>2. PICK subject \in Subjects :
          Reports!Put(k, [store[k] EXCEPT !.subject = subject,
                                          !.generation = Reports!Generation(store[k])])
    BY <1>5 DEF Reports!Update
  <2>3. PICK obj : obj = [store[k] EXCEPT !.subject = subject,
                                          !.generation = Reports!Generation(store[k])]
    OBVIOUS
  <2>4. Reports!Generation(store[k]) \in Nat BY <2>1 DEF Reports!Generation, Reports!CRD
  <2>5. obj \in Reports!CRD /\ obj.name = k /\ obj.condition = store[k].condition
    BY <2>1, <2>3, <2>4 DEF Reports!CRD
  <2>6. ReportStores(k, [obj EXCEPT !.rv = rv + 1]) BY <1>3, <2>2, <2>3, <2>5, PutStored
  <2>7. [obj EXCEPT !.rv = rv + 1].condition = store[k].condition BY <2>5 DEF Reports!CRD
  <2> QED BY <1>1, <2>6, <2>7 DEF ReportStores
<1>6. CASE Reports!Delete(k)
  BY <1>1, <1>3, <1>6 DEF Reports!Delete, ReportStores
<1>7. CASE Reports!UpdateOther(k)
  <2>1. store[k] \in Reports!CRD /\ store[k].name = k /\ Reports!Put(k, store[k])
    BY <1>7 DEF Reports!UpdateOther, ReportTypes, Reports!NameInv, Reports!Live
  <2>2. ReportStores(k, [store[k] EXCEPT !.rv = rv + 1]) BY <1>3, <2>1, PutStored
  <2>3. [store[k] EXCEPT !.rv = rv + 1].condition = store[k].condition BY <2>1 DEF Reports!CRD
  <2> QED BY <1>1, <2>2, <2>3 DEF ReportStores
<1> QED BY <1>2, <1>4, <1>5, <1>6, <1>7

\* A status update that is accepted is one write of what the sync computed.
LEMMA StatusStores ==
  ASSUME ReportTypes, Reports!ReportInv, NEW s \in Servers, NEW k \in Reported,
         Reports!UpdateAccepted(s, k) \/ Reports!ResponseLost(s, k)
  PROVE  /\ store[k] # NoCRD
         /\ \E obj \in Reports!CRD :
              /\ ReportStores(k, obj)
              /\ obj.condition = Reports!Calculate[s][obj.subject]
              /\ obj.subject = store[k].subject
              /\ obj.generation = store[k].generation
         /\ \E t \in Reports!Task :
              t.step # "update" /\ task' = [task EXCEPT ![s][k] = t]
<1> DEFINE crd == task[s][k].crd
<1>1. /\ task[s][k].step = "update" /\ UNCHANGED cache
      /\ Reports!Current(crd)
      /\ Reports!Put(crd.name, [store[crd.name] EXCEPT !.condition = crd.condition])
  BY DEF Reports!UpdateAccepted, Reports!ResponseLost, Reports!Updating, Reports!UpdateStatus
<1>2. /\ crd \in Reports!CRD /\ crd.name = k /\ crd.subject = store[k].subject
      /\ crd.condition = Reports!Calculate[s][crd.subject]
  BY <1>1 DEF ReportTypes, Reports!ReportInv, Reports!TaskInv
<1>3. store[k] \in Reports!CRD /\ store[k].name = k
  BY <1>1, <1>2 DEF Reports!Current, ReportTypes, Reports!ReportInv, Reports!NameInv, Reports!Live
<1>4. PICK obj : obj = [store[k] EXCEPT !.condition = crd.condition] OBVIOUS
<1>5. /\ obj \in Reports!CRD /\ obj.name = k /\ obj.condition = crd.condition
      /\ obj.subject = store[k].subject /\ obj.generation = store[k].generation
  BY <1>2, <1>3, <1>4 DEF Reports!CRD
<1>6. ReportStores(k, [obj EXCEPT !.rv = rv + 1]) BY <1>1, <1>2, <1>4, <1>5, PutStored
<1>7. /\ [obj EXCEPT !.rv = rv + 1] \in Reports!CRD
      /\ [obj EXCEPT !.rv = rv + 1].condition = obj.condition
      /\ [obj EXCEPT !.rv = rv + 1].subject = obj.subject
      /\ [obj EXCEPT !.rv = rv + 1].generation = obj.generation
  <2>1. rv + 1 \in Nat BY DEF ReportTypes
  <2> QED BY <1>5, <2>1, NewVersion
<1>8. \E t \in Reports!Task : t.step # "update" /\ task' = [task EXCEPT ![s][k] = t]
  <2>1. task[s][k] \in Reports!Task BY DEF ReportTypes
  <2>2. [task[s][k] EXCEPT !.step = "remember"] \in Reports!Task BY <2>1 DEF Reports!Task
  <2>3. [task[s][k] EXCEPT !.step = "remember"].step = "remember" BY <2>1 DEF Reports!Task
  <2>4. Reports!Idle \in Reports!Task /\ Reports!Idle.step = "idle"
    BY DEF Reports!Idle, Reports!Task
  <2>5. CASE Reports!UpdateAccepted(s, k)
    BY <2>2, <2>3, <2>5 DEF Reports!UpdateAccepted, Reports!SetTask
  <2>6. CASE Reports!ResponseLost(s, k)
    BY <2>4, <2>6 DEF Reports!ResponseLost, Reports!SetTask
  <2> QED BY <2>5, <2>6
<1>9. [obj EXCEPT !.rv = rv + 1].condition
        = Reports!Calculate[s][[obj EXCEPT !.rv = rv + 1].subject]
  BY <1>2, <1>5, <1>7
<1>10. store[k] # NoCRD BY <1>1, <1>2 DEF Reports!Current
<1> QED BY <1>5, <1>6, <1>7, <1>8, <1>9, <1>10

-----------------------------------------------------------------------------
(* The controllers of conditions: the store, its caches, and their names.  *)

LEMMA ReportNumbers ==
  ASSUME ReportTypes
  PROVE  /\ rv \in Nat
         /\ \A k \in Reported : store[k] # NoCRD => store[k].rv \in Nat
         /\ \A s \in Servers, k \in Reported : cache[s][k] # NoCRD => cache[s][k].rv \in Nat
         /\ \A s \in Servers : \A e \in watch[s] : e.rv \in Nat /\ e.name \in Reported
  BY DEF ReportTypes, Reports!CRD, ReportEvent

\* A write keeps types, names, and the order of versions.
LEMMA StoresReport ==
  ASSUME ReportTypes, Reports!StoreInv, Reports!NameInv,
         NEW k \in Reported, NEW obj, ReportStores(k, obj)
  PROVE  /\ rv' \in Nat
         /\ store' \in [Reported -> Reports!CRD \cup {NoCRD}]
         /\ cache' \in [Servers -> [Reported -> Reports!CRD \cup {NoCRD}]]
         /\ watch' \in [Servers -> SUBSET ReportEvent]
         /\ Reports!StoreInv'
         /\ Reports!NameInv'
<1> USE DEF Reports!StoreInv
<1>1. PICK event : event = [rv |-> rv + 1, name |-> k, obj |-> obj] OBVIOUS
<1>2. /\ rv' = rv + 1 /\ store'[k] = obj
      /\ \A j \in Reported \ {k} : store'[j] = store[j]
      /\ \A s \in Servers : watch'[s] = watch[s] \cup {event}
      /\ obj # NoCRD => obj.rv = rv + 1 /\ obj.name = k
      /\ obj \in Reports!CRD \cup {NoCRD}
      /\ cache' = cache
  BY <1>1, ReportStored DEF ReportStores
<1>3. event.rv = rv + 1 /\ event.name = k /\ event.obj = obj BY <1>1
<1>4. event \in ReportEvent BY <1>1, <1>2, ReportNumbers DEF ReportEvent
<1>5. /\ rv' \in Nat
      /\ store' \in [Reported -> Reports!CRD \cup {NoCRD}]
      /\ cache' \in [Servers -> [Reported -> Reports!CRD \cup {NoCRD}]]
      /\ watch' \in [Servers -> SUBSET ReportEvent]
  <2>1. store' \in [Reported -> Reports!CRD \cup {NoCRD}]
    BY <1>2 DEF ReportStores, Reports!Write, ReportTypes
  <2>2. watch' \in [Servers -> SUBSET ReportEvent]
    <3>1. watch' = [s \in Servers |-> watch[s] \cup {event}]
      BY <1>1 DEF ReportStores, Reports!Write
    <3> QED BY <1>4, <3>1 DEF ReportTypes
  <2> QED BY <1>2, <2>1, <2>2, ReportNumbers DEF ReportTypes
<1>6. Reports!VersionInv'
  BY <1>2, <1>3, ReportNumbers DEF Reports!VersionInv, Reports!Live
<1>7. Reports!CacheInv'
  <2> SUFFICES ASSUME NEW s \in Servers, NEW j \in Reported
               PROVE  /\ \A e \in watch'[s] :
                           e.name = j =>
                             /\ cache[s][j] # NoCRD => cache[s][j].rv < e.rv
                             /\ store'[j] # NoCRD => /\ e.rv <= store'[j].rv
                                                     /\ e.rv = store'[j].rv => e.obj = store'[j]
                      /\ cache[s][j] # NoCRD /\ store'[j] # NoCRD
                           => /\ cache[s][j].rv <= store'[j].rv
                              /\ cache[s][j].rv = store'[j].rv => cache[s][j] = store'[j]
    BY <1>2 DEF Reports!CacheInv
  <2>1. CASE j = k
    <3>1. \A e \in watch[s] : e.rv < rv + 1
      BY ReportNumbers DEF Reports!VersionInv
    <3>2. cache[s][k] # NoCRD => cache[s][k].rv < rv + 1
      BY ReportNumbers DEF Reports!VersionInv
    <3>3. \A e \in watch[s] : e.name = k /\ cache[s][k] # NoCRD => cache[s][k].rv < e.rv
      BY DEF Reports!CacheInv
    <3>4. \A e \in watch'[s] : e \in watch[s] \/ e = event BY <1>2
    <3> QED BY <1>2, <1>3, ReportNumbers, <2>1, <3>1, <3>2, <3>3, <3>4
  <2>2. CASE j # k BY <1>2, <1>3, <2>2 DEF Reports!CacheInv
  <2> QED BY <2>1, <2>2
<1>8. Reports!EventsDistinct'
  <2>1. \A s \in Servers : \A e \in watch[s] : e.rv < event.rv
    BY <1>3, ReportNumbers DEF Reports!VersionInv
  <2> QED BY <1>2, <1>3, ReportNumbers, <2>1 DEF Reports!EventsDistinct
<1>9. Reports!NameInv'
  BY <1>2, <1>3 DEF Reports!NameInv, Reports!Live, Reports!Present
<1> QED BY <1>5, <1>6, <1>7, <1>8, <1>9

\* So does the informer, which delivers events in order.
LEMMA InformerReport ==
  ASSUME ReportTypes, Reports!StoreInv, Reports!NameInv, NEW s \in Servers,
         (\E e \in watch[s] : Reports!Receive(s, e)) \/ Reports!List(s)
  PROVE  /\ UNCHANGED <<rv, store>>
         /\ cache' \in [Servers -> [Reported -> Reports!CRD \cup {NoCRD}]]
         /\ watch' \in [Servers -> SUBSET ReportEvent]
         /\ Reports!StoreInv'
         /\ Reports!NameInv'
<1> USE DEF Reports!StoreInv
<1>1. CASE Reports!List(s)
  <2>1. /\ UNCHANGED <<rv, store>>
        /\ cache'[s] = store /\ watch'[s] = {}
        /\ \A t \in Servers \ {s} : cache'[t] = cache[t] /\ watch'[t] = watch[t]
    BY <1>1 DEF Reports!List, ReportTypes
  <2>2. /\ cache' \in [Servers -> [Reported -> Reports!CRD \cup {NoCRD}]]
        /\ watch' \in [Servers -> SUBSET ReportEvent]
    BY <1>1 DEF Reports!List, ReportTypes
  <2>3. Reports!VersionInv' BY <2>1 DEF Reports!VersionInv, Reports!Live
  <2>4. Reports!CacheInv' BY ReportNumbers, <2>1 DEF Reports!CacheInv
  <2>5. Reports!EventsDistinct' BY <2>1 DEF Reports!EventsDistinct
  <2>6. Reports!NameInv' BY <2>1 DEF Reports!NameInv, Reports!Live, Reports!Present
  <2> QED BY <2>1, <2>2, <2>3, <2>4, <2>5, <2>6
<1>2. ASSUME NEW e \in watch[s], Reports!Receive(s, e)
      PROVE  /\ UNCHANGED <<rv, store>>
             /\ cache' \in [Servers -> [Reported -> Reports!CRD \cup {NoCRD}]]
             /\ watch' \in [Servers -> SUBSET ReportEvent]
             /\ Reports!StoreInv'
             /\ Reports!NameInv'
  <2>1. /\ UNCHANGED <<rv, store>>
        /\ watch'[s] = watch[s] \ {e}
        /\ cache'[s][e.name] = e.obj
        /\ \A j \in Reported : j # e.name => cache'[s][j] = cache[s][j]
        /\ \A t \in Servers \ {s} : cache'[t] = cache[t] /\ watch'[t] = watch[t]
    BY ReportNumbers, <1>2 DEF Reports!Receive, ReportTypes
  <2>2. /\ cache' \in [Servers -> [Reported -> Reports!CRD \cup {NoCRD}]]
        /\ watch' \in [Servers -> SUBSET ReportEvent]
    <3>1. e.name \in Reported /\ e.obj \in Reports!CRD \cup {NoCRD}
      BY DEF ReportTypes, ReportEvent
    <3> QED BY <1>2, <3>1 DEF Reports!Receive, ReportTypes
  <2>3. \A f \in watch'[s] : e.rv < f.rv
    BY ReportNumbers, <1>2, <2>1 DEF Reports!Receive, Reports!Oldest, Reports!EventsDistinct
  <2>4. e.rv <= rv /\ (e.obj # NoCRD => e.obj.rv = e.rv) BY DEF Reports!VersionInv
  <2>5. Reports!VersionInv'
    <3>1. \A j \in Reported : cache'[s][j] # NoCRD => cache'[s][j].rv <= rv
      BY <2>1, <2>4 DEF Reports!VersionInv
    <3> QED BY <2>1, <3>1 DEF Reports!VersionInv, Reports!Live
  <2>6. Reports!CacheInv'
    <3>1. ASSUME NEW j \in Reported
          PROVE  /\ \A f \in watch'[s] :
                      f.name = j => /\ cache'[s][j] # NoCRD => cache'[s][j].rv < f.rv
                                    /\ store[j] # NoCRD => /\ f.rv <= store[j].rv
                                                           /\ f.rv = store[j].rv => f.obj = store[j]
                 /\ cache'[s][j] # NoCRD /\ store[j] # NoCRD
                      => /\ cache'[s][j].rv <= store[j].rv
                         /\ cache'[s][j].rv = store[j].rv => cache'[s][j] = store[j]
      <4>1. CASE j = e.name BY <2>1, <2>3, <2>4, <4>1 DEF Reports!CacheInv
      <4>2. CASE j # e.name BY <2>1, <4>2 DEF Reports!CacheInv
      <4> QED BY <4>1, <4>2
    <3>2. \A t \in Servers : t # s => cache'[t] = cache[t] /\ watch'[t] = watch[t]
      BY <2>1
    <3> QED BY <2>1, <3>1, <3>2 DEF Reports!CacheInv
  <2>7. Reports!EventsDistinct' BY <2>1 DEF Reports!EventsDistinct
  <2>8. Reports!NameInv'
    <3>1. e.obj # NoCRD => e.obj.name = e.name BY DEF Reports!NameInv
    <3>2. \A j \in Reported : cache'[s][j] # NoCRD => cache'[s][j].name = j
      BY <2>1, <3>1 DEF Reports!NameInv, Reports!Present
    <3> QED BY <2>1, <3>2 DEF Reports!NameInv, Reports!Live, Reports!Present
  <2> QED BY <2>1, <2>2, <2>5, <2>6, <2>7, <2>8
<1> QED BY <1>1, <1>2

-----------------------------------------------------------------------------
(* The controllers of conditions: the syncs.                               *)

\* The tasks that are at an update had been before.
TasksKept ==
  /\ task' \in [Servers -> [Reported -> Reports!Task]]
  /\ \A s \in Servers, k \in Reported :
       task'[s][k].step = "update" => task'[s][k] = task[s][k]

LEMMA TasksUnchanged ==
  ASSUME ReportTypes, UNCHANGED task
  PROVE  TasksKept
  BY DEF ReportTypes, TasksKept

LEMMA TaskEnds ==
  ASSUME ReportTypes, NEW s \in Servers, NEW k \in Reported, NEW t \in Reports!Task,
         t.step # "update", task' = [task EXCEPT ![s][k] = t]
  PROVE  TasksKept
<1>1. task' \in [Servers -> [Reported -> Reports!Task]] BY DEF ReportTypes
<1>2. ASSUME NEW r \in Servers, NEW j \in Reported, task'[r][j].step = "update"
      PROVE  task'[r][j] = task[r][j]
  <2>1. CASE r = s /\ j = k BY <1>2, <2>1 DEF ReportTypes
  <2>2. CASE ~ (r = s /\ j = k) BY <2>2 DEF ReportTypes
  <2> QED BY <2>1, <2>2
<1> QED BY <1>1, <1>2 DEF TasksKept

\* An update in flight is none that the store would accept after another write.
LEMMA StoresTasks ==
  ASSUME ReportTypes, Reports!TaskInv, TasksKept, UNCHANGED setting,
         NEW k \in Reported, NEW obj, ReportStores(k, obj)
  PROVE  Reports!TaskInv'
<1>1. /\ rv' = rv + 1 /\ store'[k] = obj
      /\ \A j \in Reported \ {k} : store'[j] = store[j]
      /\ obj # NoCRD => obj.rv = rv + 1
  BY ReportStored DEF ReportStores
<1>2. Reports!Calculate' = Reports!Calculate BY DEF Reports!Calculate
<1> SUFFICES ASSUME NEW s \in Servers, NEW j \in Reported, task'[s][j].step = "update"
             PROVE  /\ task'[s][j].crd.name = j
                    /\ task'[s][j].crd.condition = Reports!Calculate[s][task'[s][j].crd.subject]
                    /\ task'[s][j].crd.rv <= rv'
                    /\ store'[task'[s][j].crd.name] # NoCRD
                         /\ store'[task'[s][j].crd.name].rv = task'[s][j].crd.rv
                       => task'[s][j].crd.subject = store'[j].subject
  BY <1>2 DEF Reports!TaskInv, Reports!Current
<1>3. PICK crd : crd = task[s][j].crd OBVIOUS
<1>4. task'[s][j].crd = crd /\ task[s][j].step = "update" BY <1>3 DEF TasksKept
<1>5. /\ crd.name = j /\ crd.condition = Reports!Calculate[s][crd.subject] /\ crd.rv <= rv
      /\ store[j] # NoCRD /\ store[j].rv = crd.rv => crd.subject = store[j].subject
  BY <1>3, <1>4 DEF Reports!TaskInv, Reports!Current
<1>6. crd.rv \in Nat /\ rv \in Nat BY <1>3, <1>4 DEF ReportTypes, Reports!CRD
<1> QED BY <1>1, <1>4, <1>5, <1>6

\* Nor does anything else but a write change what it says.
LEMMA KeptTasks ==
  ASSUME ReportTypes, Reports!TaskInv, TasksKept, UNCHANGED <<rv, store, setting>>
  PROVE  Reports!TaskInv'
<1>1. Reports!Calculate' = Reports!Calculate BY DEF Reports!Calculate
<1> SUFFICES ASSUME NEW s \in Servers, NEW j \in Reported, task'[s][j].step = "update"
             PROVE  /\ task'[s][j].crd.name = j
                    /\ task'[s][j].crd.condition = Reports!Calculate[s][task'[s][j].crd.subject]
                    /\ task'[s][j].crd.rv <= rv
                    /\ Reports!Current(task'[s][j].crd)
                       => task'[s][j].crd.subject = store[j].subject
  BY <1>1 DEF Reports!TaskInv, Reports!Current
<1>2. task'[s][j] = task[s][j] BY DEF TasksKept
<1> QED BY <1>2 DEF Reports!TaskInv

LEMMA TasksKeptType ==
  ASSUME ReportTypes, TasksKept
  PROVE  \A s \in Servers, k \in Reported :
           task'[s][k].step = "update" => task'[s][k].crd \in Reports!CRD
  BY DEF ReportTypes, TasksKept

\* A sync begins with what is cached: if the store has the same version, it has
\* the same object.
LEMMA BeginReport ==
  ASSUME ReportTypes, Reports!ReportInv, NEW s \in Servers, NEW k \in Reported,
         Reports!Begin(s, k), UNCHANGED setting
  PROVE  ReportTypes' /\ Reports!ReportInv' /\ UNCHANGED store
<1>1. UNCHANGED <<rv, store, cache, watch>> BY DEF Reports!Begin, Reports!storageVars
<1>2. PICK crd : crd = cache[s][k] OBVIOUS
<1>3. PICK new : new = [crd EXCEPT !.condition = Reports!Calculate[s][crd.subject]] OBVIOUS
<1>4. task' = [task EXCEPT ![s][k] =
                 IF crd = NoCRD \/ Reports!UpToDate(s, crd) THEN Reports!Idle
                 ELSE [step |-> "update", crd |-> new]]
  BY <1>2, <1>3 DEF Reports!Begin, Reports!SetTask
<1>5. Reports!StoreInv' /\ Reports!NameInv'
  BY <1>1 DEF Reports!ReportInv, Reports!StoreInv, Reports!VersionInv, Reports!CacheInv,
              Reports!EventsDistinct, Reports!NameInv, Reports!Live, Reports!Present
<1>6. CASE crd = NoCRD \/ Reports!UpToDate(s, crd)
  <2>1. Reports!Idle \in Reports!Task /\ Reports!Idle.step = "idle"
    BY DEF Reports!Idle, Reports!Task
  <2>2. TasksKept BY <1>4, <1>6, <2>1, TaskEnds
  <2>3. ReportTypes' BY <1>1, <2>2, TasksKeptType DEF ReportTypes, TasksKept
  <2>4. Reports!TaskInv' BY <1>1, <2>2, KeptTasks DEF Reports!ReportInv
  <2> QED BY <1>1, <1>5, <2>3, <2>4 DEF Reports!ReportInv
<1>7. CASE ~ (crd = NoCRD \/ Reports!UpToDate(s, crd))
  <2>1. crd \in Reports!CRD BY <1>2, <1>7 DEF ReportTypes
  <2>2. Reports!Calculate[s][crd.subject] \in Conditions \cup {NoCondition}
    <3>1. Settings[setting] \in Reports!Setting BY SettingsAssumption DEF ReportTypes
    <3>2. crd.subject \in Subjects BY <2>1 DEF Reports!CRD
    <3> QED BY <3>1, <3>2 DEF Reports!Calculate, Reports!Setting
  <2>3. /\ new \in Reports!CRD /\ new.name = crd.name /\ new.rv = crd.rv
        /\ new.subject = crd.subject /\ new.condition = Reports!Calculate[s][crd.subject]
    BY <1>3, <2>1, <2>2 DEF Reports!CRD
  <2>4. PICK t : t = [step |-> "update", crd |-> new] OBVIOUS
  <2>5. t \in Reports!Task /\ t.step = "update" /\ t.crd = new BY <2>3, <2>4 DEF Reports!Task
  <2>6. task' = [task EXCEPT ![s][k] = t] BY <1>4, <1>7, <2>4
  <2>7. /\ task' \in [Servers -> [Reported -> Reports!Task]]
        /\ task'[s][k] = t
        /\ \A r \in Servers, j \in Reported : (r = s /\ j = k) \/ task'[r][j] = task[r][j]
    BY <2>5, <2>6 DEF ReportTypes
  <2>8. ReportTypes' BY <1>1, <2>3, <2>5, <2>7 DEF ReportTypes
  <2>9. crd.name = k /\ crd.rv <= rv
        /\ (store[k] # NoCRD /\ store[k].rv = crd.rv => crd = store[k])
    BY <1>2, <1>7 DEF Reports!ReportInv, Reports!StoreInv, Reports!VersionInv, Reports!CacheInv,
                      Reports!NameInv, Reports!Present
  <2>10. Reports!Calculate' = Reports!Calculate BY DEF Reports!Calculate
  <2>11. Reports!TaskInv'
    <3> SUFFICES ASSUME NEW r \in Servers, NEW j \in Reported, task'[r][j].step = "update"
                 PROVE  /\ task'[r][j].crd.name = j
                        /\ task'[r][j].crd.condition = Reports!Calculate[r][task'[r][j].crd.subject]
                        /\ task'[r][j].crd.rv <= rv
                        /\ Reports!Current(task'[r][j].crd)
                           => task'[r][j].crd.subject = store[j].subject
      BY <1>1, <2>10 DEF Reports!TaskInv, Reports!Current
    <3>1. CASE r = s /\ j = k BY <2>3, <2>5, <2>7, <2>9, <3>1 DEF Reports!Current
    <3>2. CASE task'[r][j] = task[r][j] BY <3>2 DEF Reports!ReportInv, Reports!TaskInv
    <3> QED BY <2>7, <3>1, <3>2
  <2> QED BY <1>1, <1>5, <2>8, <2>11 DEF Reports!ReportInv
<1> QED BY <1>6, <1>7

LEMMA QuietReport ==
  ASSUME ReportTypes, Reports!ReportInv, TasksKept, UNCHANGED <<rv, store, cache, watch, setting>>
  PROVE  ReportTypes' /\ Reports!ReportInv'
<1>1. Reports!StoreInv' /\ Reports!NameInv'
  BY DEF Reports!ReportInv, Reports!StoreInv, Reports!VersionInv, Reports!CacheInv,
         Reports!EventsDistinct, Reports!NameInv, Reports!Live, Reports!Present
<1>2. Reports!TaskInv' BY KeptTasks DEF Reports!ReportInv
<1>3. ReportTypes' BY TasksKeptType DEF ReportTypes, TasksKept
<1> QED BY <1>1, <1>2, <1>3 DEF Reports!ReportInv

LEMMA WriteReport ==
  ASSUME ReportTypes, Reports!ReportInv, TasksKept, UNCHANGED setting,
         NEW k \in Reported, NEW obj, ReportStores(k, obj)
  PROVE  ReportTypes' /\ Reports!ReportInv'
<1>1. Reports!StoreInv /\ Reports!NameInv /\ Reports!TaskInv BY DEF Reports!ReportInv
<1>2. /\ rv' \in Nat
      /\ store' \in [Reported -> Reports!CRD \cup {NoCRD}]
      /\ cache' \in [Servers -> [Reported -> Reports!CRD \cup {NoCRD}]]
      /\ watch' \in [Servers -> SUBSET ReportEvent]
      /\ Reports!StoreInv'
      /\ Reports!NameInv'
  BY <1>1, StoresReport
<1>3. Reports!TaskInv' BY <1>1, StoresTasks
<1>4. ReportTypes' BY <1>2, TasksKeptType DEF ReportTypes, TasksKept
<1> QED BY <1>2, <1>3, <1>4 DEF Reports!ReportInv

\* The tasks of a server that restarts are dropped, the others kept.
LEMMA RestartTasks ==
  ASSUME ReportTypes, NEW s \in Servers,
         task' = [task EXCEPT ![s] = [k \in Reported |-> Reports!Idle]]
  PROVE  TasksKept
<1>1. Reports!Idle \in Reports!Task /\ Reports!Idle.step = "idle"
  BY DEF Reports!Idle, Reports!Task
<1>2. task' \in [Servers -> [Reported -> Reports!Task]] BY <1>1 DEF ReportTypes
<1>3. ASSUME NEW r \in Servers, NEW k \in Reported, task'[r][k].step = "update"
      PROVE  task'[r][k] = task[r][k]
  <2>1. CASE r = s BY <1>1, <1>3, <2>1 DEF ReportTypes
  <2>2. CASE r # s BY <2>2 DEF ReportTypes
  <2> QED BY <2>1, <2>2
<1> QED BY <1>2, <1>3 DEF TasksKept

LEMMA InformedReport ==
  ASSUME ReportTypes, Reports!ReportInv, TasksKept, UNCHANGED setting, NEW s \in Servers,
         (\E e \in watch[s] : Reports!Receive(s, e)) \/ Reports!List(s)
  PROVE  ReportTypes' /\ Reports!ReportInv' /\ UNCHANGED store
<1>1. Reports!StoreInv /\ Reports!NameInv /\ Reports!TaskInv BY DEF Reports!ReportInv
<1>2. /\ UNCHANGED <<rv, store>>
      /\ cache' \in [Servers -> [Reported -> Reports!CRD \cup {NoCRD}]]
      /\ watch' \in [Servers -> SUBSET ReportEvent]
      /\ Reports!StoreInv'
      /\ Reports!NameInv'
  BY <1>1, InformerReport
<1>3. Reports!TaskInv' BY <1>1, <1>2, KeptTasks
<1>4. ReportTypes' BY <1>2, TasksKeptType DEF ReportTypes, TasksKept
<1> QED BY <1>2, <1>3, <1>4 DEF Reports!ReportInv

LEMMA ReportStep ==
  ASSUME ReportTypes, Reports!ReportInv, Reports!Next
  PROVE  ReportTypes' /\ Reports!ReportInv' /\ (Reports!DescribesStored \/ UNCHANGED store)
<1>1. UNCHANGED setting BY DEF Reports!Next
<1>2. CASE Reports!UserNext
  <2>1. PICK k \in Reported, obj \in Reports!CRD \cup {NoCRD} :
          /\ ReportStores(k, obj)
          /\ store[k] # NoCRD /\ obj # NoCRD => obj.condition = store[k].condition
    BY <1>2, UserStores DEF Reports!ReportInv
  <2>2. TasksKept BY <1>2, UserStores, TasksUnchanged DEF Reports!ReportInv
  <2>3. ReportTypes' /\ Reports!ReportInv' BY <1>1, <2>1, <2>2, WriteReport
  <2>4. Reports!DescribesStored BY <2>1, ReportStored DEF Reports!DescribesStored
  <2> QED BY <2>3, <2>4
<1>3. ASSUME NEW s \in Servers, NEW k \in Reported, Reports!Sync(s, k)
      PROVE  ReportTypes' /\ Reports!ReportInv' /\ (Reports!DescribesStored \/ UNCHANGED store)
  <2>1. CASE Reports!Begin(s, k) BY <1>1, <2>1, BeginReport
  <2>2. CASE Reports!UpdateAccepted(s, k) \/ Reports!ResponseLost(s, k)
    <3>1. PICK obj \in Reports!CRD :
            ReportStores(k, obj) /\ obj.condition = Reports!Calculate[s][obj.subject]
      BY <2>2, StatusStores
    <3>2. TasksKept BY <2>2, StatusStores, TaskEnds
    <3>3. ReportTypes' /\ Reports!ReportInv' BY <1>1, <3>1, <3>2, WriteReport
    <3>4. Reports!DescribesStored BY <3>1, ReportStored DEF Reports!DescribesStored
    <3> QED BY <3>3, <3>4
  <2>3. CASE Reports!UpdateRefused(s, k) \/ Reports!UpdateFailed(s, k) \/ Reports!Remember(s, k)
    <3>1. Reports!Idle \in Reports!Task /\ Reports!Idle.step = "idle"
      BY DEF Reports!Idle, Reports!Task
    <3>2. task' = [task EXCEPT ![s][k] = Reports!Idle]
      BY <2>3 DEF Reports!UpdateRefused, Reports!UpdateFailed, Reports!Remember, Reports!SetTask
    <3>3. TasksKept BY <3>1, <3>2, TaskEnds
    <3>4. UNCHANGED <<rv, store, cache, watch>>
      BY <2>3 DEF Reports!UpdateRefused, Reports!UpdateFailed, Reports!Remember, Reports!Updating,
                  Reports!storageVars
    <3> QED BY <1>1, <3>3, <3>4, QuietReport
  <2> QED BY <1>3, <2>1, <2>2, <2>3 DEF Reports!Sync
<1>4. ASSUME NEW s \in Servers,
             Reports!Deliver(s) \/ Reports!Resync(s) \/ Reports!Relist(s) \/ Reports!Restart(s)
      PROVE  ReportTypes' /\ Reports!ReportInv' /\ UNCHANGED store
  <2>1. CASE Reports!Deliver(s)
    <3>1. TasksKept BY <2>1, TasksUnchanged DEF Reports!Deliver
    <3> QED BY <1>1, <2>1, <3>1, InformedReport DEF Reports!Deliver
  <2>2. CASE Reports!Resync(s)
    <3>1. TasksKept BY <2>2, TasksUnchanged DEF Reports!Resync
    <3> QED BY <1>1, <2>2, <3>1, QuietReport DEF Reports!Resync, Reports!storageVars
  <2>3. CASE Reports!Relist(s)
    <3>1. TasksKept BY <2>3, TasksUnchanged DEF Reports!Relist
    <3> QED BY <1>1, <2>3, <3>1, InformedReport DEF Reports!Relist
  <2>4. CASE Reports!Restart(s)
    <3>1. TasksKept BY <2>4, RestartTasks DEF Reports!Restart
    <3> QED BY <1>1, <2>4, <3>1, InformedReport DEF Reports!Restart
  <2> QED BY <1>4, <2>1, <2>2, <2>3, <2>4
<1> QED BY <1>2, <1>3, <1>4 DEF Reports!Next

LEMMA NextReport ==
  ASSUME ReportTypes, Reports!ReportInv, [Next]_vars
  PROVE  ReportTypes' /\ Reports!ReportInv' /\ (Reports!DescribesStored \/ UNCHANGED store)
<1>1. CASE Report BY <1>1, ReportStep DEF Report
<1>2. CASE UNCHANGED reportVars
  <2>1. UNCHANGED <<rv, store, cache, watch, task, setting>> BY <1>2 DEF reportVars
  <2>2. TasksKept BY <2>1, TasksUnchanged
  <2> QED BY <2>1, <2>2, QuietReport
<1> QED BY <1>1, <1>2 DEF Next, ChangeCache, Discovery, OpenAPI, OpenAPIV3, vars

LEMMA ReportStarts ==
  ASSUME Init
  PROVE  ReportTypes /\ Reports!ReportInv
<1>1. Reports!Init BY DEF Init
<1>2. /\ rv = 0
      /\ store = [k \in Reported |-> NoCRD]
      /\ cache = [s \in Servers |-> [k \in Reported |-> NoCRD]]
      /\ watch = [s \in Servers |-> {}]
      /\ task = [s \in Servers |-> [k \in Reported |-> Reports!Idle]]
      /\ setting \in DOMAIN Settings
  BY <1>1 DEF Reports!Init, Reports!StorageInit
<1>3. Reports!Idle \in Reports!Task /\ Reports!Idle.step = "idle"
  BY DEF Reports!Idle, Reports!Task
<1>4. \A s \in Servers, k \in Reported : task[s][k].step = "idle" BY <1>2, <1>3
<1>5. ReportTypes
  <2>1. task \in [Servers -> [Reported -> Reports!Task]] BY <1>2, <1>3
  <2> QED BY <1>2, <1>4, <2>1 DEF ReportTypes
<1>6. Reports!StoreInv
  BY <1>2 DEF Reports!StoreInv, Reports!VersionInv, Reports!CacheInv, Reports!EventsDistinct,
              Reports!Live
<1>7. Reports!NameInv BY <1>2 DEF Reports!NameInv, Reports!Live, Reports!Present
<1>8. Reports!TaskInv BY <1>4 DEF Reports!TaskInv
<1> QED BY <1>5, <1>6, <1>7, <1>8 DEF Reports!ReportInv

\* A condition is computed from a cached CRD and written later, by one of several
\* servers that may word it differently: what it is changed to describes the
\* schema or annotation stored then, whatever users and other servers did in
\* between, and whatever was lost, restarted or failed.
THEOREM ConditionsDescribe == PublishingSpec => ConditionDescribesStored
<1>1. Init => ReportTypes /\ Reports!ReportInv BY ReportStarts
<1>2. (ReportTypes /\ Reports!ReportInv) /\ [Next]_vars => (ReportTypes /\ Reports!ReportInv)'
  BY NextReport
<1>3. ReportTypes /\ Reports!ReportInv /\ [Next]_vars => [Reports!DescribesStored]_store
  BY NextReport
<1> QED
  BY <1>1, <1>2, <1>3, PTL
  DEF PublishingSpec, ConditionDescribesStored, Reports!ConditionDescribesStored

-----------------------------------------------------------------------------
(* The controllers of conditions: how often they write.                    *)

\* What is left of a set, and what is added, bound how many there are.
LEMMA SizeWith ==
  ASSUME NEW P, NEW Q, NEW R, IsFiniteSet(Q), IsFiniteSet(R), P \subseteq Q \cup R
  PROVE  Cardinality(P) <= Cardinality(Q) + Cardinality(R)
<1>1. /\ IsFiniteSet(Q \cup R)
      /\ Cardinality(Q \cup R) = Cardinality(Q) + Cardinality(R) - Cardinality(Q \cap R)
  BY FS_Union
<1>2. IsFiniteSet(Q \cap R) BY FS_Intersection
<1>3. IsFiniteSet(P) /\ Cardinality(P) <= Cardinality(Q \cup R) BY <1>1, FS_Subset
<1> QED BY <1>1, <1>2, <1>3, FS_CardinalityType

LEMMA SizeOfPairs ==
  ASSUME NEW S, NEW x, IsFiniteSet(S)
  PROVE  /\ IsFiniteSet({x} \X S) /\ Cardinality({x} \X S) = Cardinality(S)
         /\ IsFiniteSet(S \X {x}) /\ Cardinality(S \X {x}) = Cardinality(S)
<1>1. IsFiniteSet({x}) /\ Cardinality({x}) = 1 BY FS_Singleton
<1>2. Cardinality(S) \in Nat BY FS_CardinalityType
<1>3. IsFiniteSet({x} \X S) /\ Cardinality({x} \X S) = Cardinality({x}) * Cardinality(S)
  BY <1>1, FS_Product
<1>4. IsFiniteSet(S \X {x}) /\ Cardinality(S \X {x}) = Cardinality(S) * Cardinality({x})
  BY <1>1, FS_Product
<1> QED BY <1>1, <1>2, <1>3, <1>4

\* The bound allows for another write by a user, or another fault.
LEMMA BoundGrows ==
  ASSUME NEW n \in Nat, NEW m \in Nat, NEW u \in Nat, NEW f \in Nat
  PROVE  /\ n * (u + 1) = n * u + n
         /\ m * (f + 1) = m * f + m
         /\ n * u \in Nat
         /\ m * f \in Nat
  OBVIOUS

\* The size that the invariant speaks of is that of the library's theorems.
LEMMA SameSize ==
  ASSUME NEW S
  PROVE  Reports!Cardinality(S) = Cardinality(S)
  BY DEF Cardinality, Reports!Cardinality

FightTypes ==
  /\ userWrites \in Nat
  /\ faults \in Nat
  /\ lastSeen \in [Servers -> [Reported -> Reports!Seen \cup {Unseen}]]
  /\ \A s \in Servers, k \in Reported :
       task[s][k].step = "remember" => task[s][k].crd \in Reports!CRD

LEMMA Sizes ==
  /\ IsFiniteSet(Reports!Undecided) /\ Cardinality(Reports!Undecided) \in Nat
  /\ IsFiniteSet(Reports!Undecided') /\ Cardinality(Reports!Undecided') \in Nat
  /\ Cardinality(Servers) \in Nat
  /\ Cardinality(Reported) \in Nat
<1>1. IsFiniteSet(Servers \X Reported) BY ReportsAssumption, FS_Product
<1>2. Reports!Undecided \in SUBSET (Servers \X Reported) BY DEF Reports!Undecided
<1>3. Reports!Undecided' \in SUBSET (Servers \X Reported) BY DEF Reports!Undecided
<1>4. IsFiniteSet(Reports!Undecided) /\ IsFiniteSet(Reports!Undecided')
  BY <1>1, <1>2, <1>3, FS_Subset
<1> QED BY <1>4, ReportsAssumption, FS_CardinalityType

\* The invariant in the numbers it is made of, before and after a step.
LEMMA FightNumbers ==
  ASSUME ReportTypes, FightTypes
  PROVE  Reports!FightInv <=>
           rv + Cardinality(Reports!Undecided)
             <= userWrites + Cardinality(Servers) * userWrites + Cardinality(Reported) * faults
  BY SameSize DEF Reports!FightInv

LEMMA FightNumbersNext ==
  ASSUME rv' + Cardinality(Reports!Undecided')
           <= userWrites' + Cardinality(Servers) * userWrites' + Cardinality(Reported) * faults'
  PROVE  Reports!FightInv'
<1>1. /\ Reports!Cardinality(Reports!Undecided') = Cardinality(Reports!Undecided')
      /\ Reports!Cardinality(Servers) = Cardinality(Servers)
      /\ Reports!Cardinality(Reported) = Cardinality(Reported)
  BY SameSize
<1> QED BY <1>1 DEF Reports!FightInv

\* A step that gives no server a say: it may be a fault, but is no write.
LEMMA QuietFight ==
  ASSUME ReportTypes, FightTypes, Reports!FightInv,
         Reports!Undecided' \subseteq Reports!Undecided,
         UNCHANGED <<rv, userWrites>>, faults' = faults \/ faults' = faults + 1
  PROVE  Reports!FightInv'
<1> DEFINE n == Cardinality(Servers)
           m == Cardinality(Reported)
           c == Cardinality(Reports!Undecided)
           d == Cardinality(Reports!Undecided')
<1>1. n \in Nat /\ m \in Nat /\ c \in Nat /\ d \in Nat BY Sizes
<1>2. d <= c BY Sizes, FS_Subset
<1>3. rv \in Nat /\ userWrites \in Nat /\ faults \in Nat BY DEF ReportTypes, FightTypes
<1>4. rv + c <= userWrites + n * userWrites + m * faults BY FightNumbers
<1>5. n * userWrites \in Nat /\ m * faults \in Nat /\ m * (faults + 1) = m * faults + m
  BY <1>1, <1>3, BoundGrows
<1> HIDE DEF n, m, c, d
<1>6. rv' + d <= userWrites' + n * userWrites' + m * faults'
  <2>1. CASE faults' = faults BY <1>1, <1>2, <1>3, <1>4, <1>5, <2>1
  <2>2. CASE faults' = faults + 1
    <3>1. m * faults' = m * faults + m BY <1>5, <2>2
    <3>2. n * userWrites' = n * userWrites OBVIOUS
    <3> QED BY <1>1, <1>2, <1>3, <1>4, <1>5, <3>1, <3>2
  <2> QED BY <2>1, <2>2
<1> QED BY <1>6, FightNumbersNext DEF n, m, d

\* A write by a user gives each server at most a say on what was written.
LEMMA UserFight ==
  ASSUME ReportTypes, FightTypes, Reports!FightInv, NEW k \in Reported,
         Reports!Undecided' \subseteq Reports!Undecided \cup (Servers \X {k}),
         rv' = rv + 1, userWrites' = userWrites + 1, UNCHANGED faults
  PROVE  Reports!FightInv'
<1> DEFINE n == Cardinality(Servers)
           m == Cardinality(Reported)
           c == Cardinality(Reports!Undecided)
           d == Cardinality(Reports!Undecided')
<1>1. n \in Nat /\ m \in Nat /\ c \in Nat /\ d \in Nat BY Sizes
<1>2. d <= c + n
  <2>1. IsFiniteSet(Servers \X {k}) /\ Cardinality(Servers \X {k}) = n
    BY SizeOfPairs, ReportsAssumption
  <2> QED BY <2>1, Sizes, SizeWith
<1>3. rv \in Nat /\ userWrites \in Nat /\ faults \in Nat BY DEF ReportTypes, FightTypes
<1>4. rv + c <= userWrites + n * userWrites + m * faults BY FightNumbers
<1>5. n * userWrites \in Nat /\ m * faults \in Nat /\ n * (userWrites + 1) = n * userWrites + n
  BY <1>1, <1>3, BoundGrows
<1> HIDE DEF n, m, c, d
<1>6. rv' + d <= userWrites' + n * userWrites' + m * faults'
  <2>1. n * userWrites' = n * userWrites + n BY <1>5
  <2>2. m * faults' = m * faults OBVIOUS
  <2> QED BY <1>1, <1>2, <1>3, <1>4, <1>5, <2>1, <2>2
<1> QED BY <1>6, FightNumbersNext DEF n, m, d

\* An accepted update takes the say of the server that sent it.
LEMMA SaidFight ==
  ASSUME ReportTypes, FightTypes, Reports!FightInv,
         NEW p \in Reports!Undecided, Reports!Undecided' \subseteq Reports!Undecided \ {p},
         rv' = rv + 1, UNCHANGED <<userWrites, faults>>
  PROVE  Reports!FightInv'
<1> DEFINE n == Cardinality(Servers)
           m == Cardinality(Reported)
           c == Cardinality(Reports!Undecided)
           d == Cardinality(Reports!Undecided')
<1>1. n \in Nat /\ m \in Nat /\ c \in Nat /\ d \in Nat BY Sizes
<1>2. d <= c - 1
  <2>1. /\ IsFiniteSet(Reports!Undecided \ {p})
        /\ Cardinality(Reports!Undecided \ {p}) = c - 1
    BY Sizes, FS_RemoveElement
  <2> QED BY <2>1, FS_Subset
<1>3. rv \in Nat /\ userWrites \in Nat /\ faults \in Nat BY DEF ReportTypes, FightTypes
<1>4. rv + c <= userWrites + n * userWrites + m * faults BY FightNumbers
<1>5. n * userWrites \in Nat /\ m * faults \in Nat BY <1>1, <1>3, BoundGrows
<1> HIDE DEF n, m, c, d
<1>6. rv' + d <= userWrites' + n * userWrites' + m * faults'
  <2>1. n * userWrites' = n * userWrites /\ m * faults' = m * faults OBVIOUS
  <2> QED BY <1>1, <1>2, <1>3, <1>4, <1>5, <2>1
<1> QED BY <1>6, FightNumbersNext DEF n, m, d

\* One whose answer is lost leaves it to say the same again: that is a fault.
LEMMA LostFight ==
  ASSUME ReportTypes, FightTypes, Reports!FightInv, NEW k \in Reported,
         Reports!Undecided' \subseteq Reports!Undecided,
         rv' = rv + 1, faults' = faults + 1, UNCHANGED userWrites
  PROVE  Reports!FightInv'
<1> DEFINE n == Cardinality(Servers)
           m == Cardinality(Reported)
           c == Cardinality(Reports!Undecided)
           d == Cardinality(Reports!Undecided')
<1>1. n \in Nat /\ m \in Nat /\ c \in Nat /\ d \in Nat BY Sizes
<1>2. d <= c BY Sizes, FS_Subset
<1>3. m >= 1
  <2>1. m # 0 BY ReportsAssumption, FS_EmptySet
  <2> QED BY <1>1, <2>1
<1>4. rv \in Nat /\ userWrites \in Nat /\ faults \in Nat BY DEF ReportTypes, FightTypes
<1>5. rv + c <= userWrites + n * userWrites + m * faults BY FightNumbers
<1>6. n * userWrites \in Nat /\ m * faults \in Nat /\ m * (faults + 1) = m * faults + m
  BY <1>1, <1>4, BoundGrows
<1> HIDE DEF n, m, c, d
<1>7. rv' + d <= userWrites' + n * userWrites' + m * faults'
  <2>1. m * faults' = m * faults + m BY <1>6
  <2>2. n * userWrites' = n * userWrites OBVIOUS
  <2> QED BY <1>1, <1>2, <1>3, <1>4, <1>5, <1>6, <2>1, <2>2
<1> QED BY <1>7, FightNumbersNext DEF n, m, d

\* A restart makes one server forget what it said on every CRD.
LEMMA RestartFight ==
  ASSUME ReportTypes, FightTypes, Reports!FightInv, NEW s \in Servers,
         Reports!Undecided' \subseteq Reports!Undecided \cup ({s} \X Reported),
         UNCHANGED <<rv, userWrites>>, faults' = faults + 1
  PROVE  Reports!FightInv'
<1> DEFINE n == Cardinality(Servers)
           m == Cardinality(Reported)
           c == Cardinality(Reports!Undecided)
           d == Cardinality(Reports!Undecided')
<1>1. n \in Nat /\ m \in Nat /\ c \in Nat /\ d \in Nat BY Sizes
<1>2. d <= c + m
  <2>1. IsFiniteSet({s} \X Reported) /\ Cardinality({s} \X Reported) = m
    BY SizeOfPairs, ReportsAssumption
  <2> QED BY <2>1, Sizes, SizeWith
<1>3. rv \in Nat /\ userWrites \in Nat /\ faults \in Nat BY DEF ReportTypes, FightTypes
<1>4. rv + c <= userWrites + n * userWrites + m * faults BY FightNumbers
<1>5. n * userWrites \in Nat /\ m * faults \in Nat /\ m * (faults + 1) = m * faults + m
  BY <1>1, <1>3, BoundGrows
<1> HIDE DEF n, m, c, d
<1>6. rv' + d <= userWrites' + n * userWrites' + m * faults'
  <2>1. m * faults' = m * faults + m BY <1>5
  <2>2. n * userWrites' = n * userWrites OBVIOUS
  <2> QED BY <1>1, <1>2, <1>3, <1>4, <1>5, <2>1, <2>2
<1> QED BY <1>6, FightNumbersNext DEF n, m, d

\* A server has a say on a CRD after a step only if it had one before, unless the
\* step changes what the CRD is to it: whether there is one, for what the
\* condition is remembered, what is remembered or will be, or that it is forgotten.
LEMMA SayKept ==
  ASSUME NEW s \in Servers, NEW k \in Reported,
         store'[k] # NoCRD => /\ store[k] # NoCRD
                              /\ store'[k].generation = store[k].generation
                              /\ store'[k].subject = store[k].subject,
         Reports!WillForget(s, k)' => Reports!WillForget(s, k),
         Reports!Upcoming(s, k)' = Reports!Upcoming(s, k) \/ Reports!WillForget(s, k),
         UNCHANGED setting, Reports!MaySay(s, k)'
  PROVE  Reports!MaySay(s, k)
<1>1. k \in Reports!Live' /\ k \in Reports!Live
  BY DEF Reports!MaySay, Reports!Live
<1>2. CASE Reports!WillForget(s, k) BY <1>1, <1>2 DEF Reports!MaySay
<1>3. CASE ~ Reports!WillForget(s, k)
  <2>1. ~ Reports!Covers(Reports!Upcoming(s, k), store[k])'
    BY <1>3 DEF Reports!MaySay
  <2>2. ~ Reports!Covers(Reports!Upcoming(s, k), store[k])
    BY <1>1, <1>3, <2>1 DEF Reports!Covers, Reports!ByGeneration, Reports!Live
  <2> QED BY <1>1, <2>2 DEF Reports!MaySay
<1> QED BY <1>2, <1>3

LEMMA SaysKept ==
  ASSUME \A s \in Servers, k \in Reported : Reports!MaySay(s, k)' => Reports!MaySay(s, k)
  PROVE  Reports!Undecided' \subseteq Reports!Undecided
  BY DEF Reports!Undecided

-----------------------------------------------------------------------------
(* The controllers of conditions: updates in flight.                       *)

\* What was remembered before an update in flight was computed is remembered
\* still, unless it was forgotten.
SaidKept ==
  \A s \in Servers, k \in Reported :
    task'[s][k].step = "update" => lastSeen'[s][k] \in {lastSeen[s][k], Unseen}

LEMMA SaidUnchanged ==
  ASSUME UNCHANGED lastSeen
  PROVE  SaidKept
  BY DEF SaidKept

LEMMA Forgotten ==
  ASSUME FightTypes, NEW s \in Servers, NEW keys, Reports!Forget(s, keys)
  PROVE  /\ lastSeen' \in [Servers -> [Reported -> Reports!Seen \cup {Unseen}]]
         /\ \A r \in Servers, k \in Reported :
              lastSeen'[r][k] = IF r = s /\ k \in keys THEN Unseen ELSE lastSeen[r][k]
         /\ SaidKept
<1>1. lastSeen' = [lastSeen EXCEPT ![s] =
                     [k \in Reported |-> IF k \in keys THEN Unseen ELSE lastSeen[s][k]]]
  BY DEF Reports!Forget
<1>2. lastSeen' \in [Servers -> [Reported -> Reports!Seen \cup {Unseen}]]
  BY <1>1 DEF FightTypes
<1>3. ASSUME NEW r \in Servers, NEW k \in Reported
      PROVE  lastSeen'[r][k] = IF r = s /\ k \in keys THEN Unseen ELSE lastSeen[r][k]
  BY <1>1 DEF FightTypes
<1>4. SaidKept BY <1>3 DEF SaidKept
<1> QED BY <1>2, <1>3, <1>4

\* An update that the store would accept after a step, it would have accepted
\* before, and the cache has, or has got, what is stored.
LEMMA SayStep ==
  ASSUME ReportTypes, Reports!TaskInv, Reports!SayInv, TasksKept, SaidKept, UNCHANGED setting,
         \A s \in Servers, k \in Reported :
           /\ task[s][k].step = "update"
           /\ store'[k] # NoCRD /\ store'[k].rv = task[s][k].crd.rv
           => /\ store'[k] = store[k]
              /\ cache[s][k] = store[k] => cache'[s][k] = store[k]
  PROVE  Reports!SayInv'
<1> SUFFICES ASSUME NEW s \in Servers, NEW k \in Reported, task'[s][k].step = "update"
             PROVE  /\ ~ Reports!Covers(lastSeen[s][k], task[s][k].crd)'
                    /\ Reports!Current(task[s][k].crd)'
                       => /\ cache'[s][k] = store'[k]
                          /\ task'[s][k].crd.generation = store'[k].generation
  BY DEF Reports!SayInv
<1>1. PICK crd : crd = task[s][k].crd OBVIOUS
<1>2. task'[s][k].crd = crd /\ task[s][k].step = "update" BY <1>1 DEF TasksKept
<1>3. /\ crd.name = k
      /\ ~ Reports!Covers(lastSeen[s][k], crd)
      /\ store[k] # NoCRD /\ store[k].rv = crd.rv
         => cache[s][k] = store[k] /\ crd.generation = store[k].generation
  BY <1>1, <1>2 DEF Reports!SayInv, Reports!TaskInv, Reports!Current
<1>4. lastSeen'[s][k] \in {lastSeen[s][k], Unseen} BY DEF SaidKept
<1>5. ~ Reports!Covers(lastSeen[s][k], task[s][k].crd)'
  BY <1>2, <1>3, <1>4 DEF Reports!Covers, Reports!ByGeneration
<1>6. Reports!Current(task[s][k].crd)'
        => cache'[s][k] = store'[k] /\ task'[s][k].crd.generation = store'[k].generation
  <2> SUFFICES ASSUME store'[k] # NoCRD, store'[k].rv = crd.rv
               PROVE  cache'[s][k] = store'[k] /\ crd.generation = store'[k].generation
    BY <1>2, <1>3 DEF Reports!Current
  <2>1. store'[k] = store[k] /\ (cache[s][k] = store[k] => cache'[s][k] = store[k])
    BY <1>1, <1>2
  <2> QED BY <1>3, <2>1
<1> QED BY <1>5, <1>6

\* No update in flight is of the version that another write makes.
LEMMA SayWrite ==
  ASSUME ReportTypes, Reports!ReportInv, Reports!SayInv, TasksKept, SaidKept, UNCHANGED setting,
         NEW k \in Reported, NEW obj, ReportStores(k, obj)
  PROVE  Reports!SayInv'
<1>1. Reports!TaskInv BY DEF Reports!ReportInv
<1>2. /\ rv' = rv + 1 /\ store'[k] = obj
      /\ \A j \in Reported \ {k} : store'[j] = store[j]
      /\ obj # NoCRD => obj.rv = rv + 1
      /\ cache' = cache
  BY ReportStored DEF ReportStores
<1>3. ASSUME NEW s \in Servers, NEW j \in Reported, task[s][j].step = "update",
             store'[j] # NoCRD, store'[j].rv = task[s][j].crd.rv
      PROVE  store'[j] = store[j] /\ (cache[s][j] = store[j] => cache'[s][j] = store[j])
  <2>1. task[s][j].crd.rv \in Nat /\ task[s][j].crd.rv <= rv /\ rv \in Nat
    BY <1>1, <1>3 DEF Reports!TaskInv, ReportTypes, Reports!CRD
  <2>2. j # k BY <1>2, <1>3, <2>1
  <2> QED BY <1>2, <2>2
<1> QED BY <1>1, <1>3, SayStep

\* Events that are still to come are newer than what is cached, so that there is
\* none if that is what is stored.
LEMMA SayInformed ==
  ASSUME ReportTypes, Reports!ReportInv, Reports!SayInv, TasksKept, SaidKept, UNCHANGED setting,
         NEW s \in Servers, (\E e \in watch[s] : Reports!Receive(s, e)) \/ Reports!List(s)
  PROVE  Reports!SayInv'
<1>1. Reports!TaskInv /\ Reports!CacheInv BY DEF Reports!ReportInv, Reports!StoreInv
<1>2. ASSUME NEW r \in Servers, NEW j \in Reported, task[r][j].step = "update",
             store'[j] # NoCRD, store'[j].rv = task[r][j].crd.rv
      PROVE  store'[j] = store[j] /\ (cache[r][j] = store[j] => cache'[r][j] = store[j])
  <2>1. CASE Reports!List(s)
    <3>1. store' = store /\ cache'[s] = store /\ \A t \in Servers \ {s} : cache'[t] = cache[t]
      BY <2>1 DEF Reports!List, ReportTypes
    <3> QED BY <3>1
  <2>2. ASSUME NEW e \in watch[s], Reports!Receive(s, e)
        PROVE  store'[j] = store[j] /\ (cache[r][j] = store[j] => cache'[r][j] = store[j])
    <3>1. /\ store' = store
          /\ \A i \in Reported : i # e.name => cache'[s][i] = cache[s][i]
          /\ \A t \in Servers \ {s} : cache'[t] = cache[t]
      BY ReportNumbers, <2>2 DEF Reports!Receive, ReportTypes
    <3>2. CASE r = s /\ j = e.name
      <4>1. store[j].rv \in Nat /\ e.rv \in Nat BY <1>2, <3>1, ReportNumbers
      <4>2. cache[s][j] = store[j] => store[j].rv < e.rv /\ e.rv <= store[j].rv
        BY <1>1, <1>2, <3>1, <3>2 DEF Reports!CacheInv
      <4> QED BY <3>1, <3>2, <4>1, <4>2
    <3>3. CASE ~ (r = s /\ j = e.name) BY <3>1, <3>3
    <3> QED BY <3>2, <3>3
  <2> QED BY <2>1, <2>2
<1> QED BY <1>1, <1>2, SayStep

LEMMA SayQuiet ==
  ASSUME ReportTypes, Reports!ReportInv, Reports!SayInv, TasksKept, SaidKept,
         UNCHANGED <<store, cache, setting>>
  PROVE  Reports!SayInv'
<1>1. Reports!TaskInv BY DEF Reports!ReportInv
<1> QED BY <1>1, SayStep

-----------------------------------------------------------------------------
(* The controllers of conditions: the bound on their writes, step by step. *)

Fight == FightTypes /\ Reports!SayInv /\ Reports!FightInv

\* A task that ends a sync, or that does not begin one, is to remember only what
\* an update in flight sent.
LEMMA TaskRemembers ==
  ASSUME ReportTypes, FightTypes, NEW s \in Servers, NEW k \in Reported, NEW t \in Reports!Task,
         t.step = "remember" => t.crd \in Reports!CRD, task' = [task EXCEPT ![s][k] = t]
  PROVE  \A r \in Servers, j \in Reported :
           task'[r][j].step = "remember" => task'[r][j].crd \in Reports!CRD
<1> SUFFICES ASSUME NEW r \in Servers, NEW j \in Reported, task'[r][j].step = "remember"
             PROVE  task'[r][j].crd \in Reports!CRD
  OBVIOUS
<1>1. CASE r = s /\ j = k BY <1>1 DEF ReportTypes
<1>2. CASE ~ (r = s /\ j = k) BY <1>2 DEF ReportTypes, FightTypes
<1> QED BY <1>1, <1>2

\* What will be remembered changes only where a task does.
LEMMA UpcomingKept ==
  ASSUME ReportTypes, FightTypes, NEW s \in Servers, NEW k \in Reported, NEW t \in Reports!Task,
         task' = [task EXCEPT ![s][k] = t], UNCHANGED <<lastSeen, setting>>
  PROVE  /\ \A r \in Servers, j \in Reported :
              ~ (r = s /\ j = k) => Reports!Upcoming(r, j)' = Reports!Upcoming(r, j)
         /\ t.step # "remember" /\ task[s][k].step # "remember"
              => Reports!Upcoming(s, k)' = Reports!Upcoming(s, k)
         /\ t.step = "remember" => Reports!Upcoming(s, k)' = Reports!SeenOf(t.crd)
<1>1. task'[s][k] = t BY DEF ReportTypes
<1>2. \A r \in Servers, j \in Reported : ~ (r = s /\ j = k) => task'[r][j] = task[r][j]
  BY DEF ReportTypes
<1>3. lastSeen' = lastSeen /\ Reports!ByGeneration' = Reports!ByGeneration
  BY DEF Reports!ByGeneration
<1>4. \A r \in Servers, j \in Reported :
        ~ (r = s /\ j = k) => Reports!Upcoming(r, j)' = Reports!Upcoming(r, j)
  BY <1>2, <1>3 DEF Reports!Upcoming, Reports!SeenOf
<1>5. t.step # "remember" /\ task[s][k].step # "remember"
        => Reports!Upcoming(s, k)' = Reports!Upcoming(s, k)
  BY <1>1, <1>3 DEF Reports!Upcoming
<1>6. t.step = "remember" => Reports!Upcoming(s, k)' = Reports!SeenOf(t.crd)
  BY <1>1, <1>3 DEF Reports!Upcoming, Reports!SeenOf
<1> QED BY <1>4, <1>5, <1>6

\* A user's write.
LEMMA UserFights ==
  ASSUME ReportTypes, Reports!ReportInv, Fight, UNCHANGED setting, Reports!UserNext
  PROVE  Fight'
<1>1. UNCHANGED <<task, lastSeen, faults>>
  BY DEF Reports!UserNext, Reports!controllerVars
<1>2. userWrites' = userWrites + 1
  BY DEF Reports!UserNext, Reports!Create, Reports!Update, Reports!Delete, Reports!UpdateOther,
         Reports!UserWrite
<1>3. PICK k \in Reported, obj \in Reports!CRD \cup {NoCRD} : ReportStores(k, obj)
  BY UserStores DEF Reports!ReportInv
<1>4. FightTypes' BY <1>1, <1>2 DEF Fight, FightTypes
<1>5. Reports!SayInv'
  BY <1>1, <1>3, TasksUnchanged, SaidUnchanged, SayWrite DEF Fight
<1>6. rv' = rv + 1 BY <1>3, ReportStored
<1>7. ASSUME NEW s \in Servers, NEW j \in Reported \ {k}, Reports!MaySay(s, j)'
      PROVE  Reports!MaySay(s, j)
  <2>1. store'[j] = store[j] BY <1>3, ReportStored
  <2>2. watch'[s] = watch[s] \cup {[rv |-> rv + 1, name |-> k, obj |-> obj]}
    BY <1>3, ReportStored
  <2>3. Reports!WillForget(s, j)' => Reports!WillForget(s, j)
    BY <2>2 DEF Reports!WillForget
  <2>4. Reports!Upcoming(s, j)' = Reports!Upcoming(s, j)
    BY <1>1 DEF Reports!Upcoming, Reports!SeenOf, Reports!ByGeneration
  <2> QED BY <1>7, <2>1, <2>3, <2>4, SayKept
<1>8. Reports!Undecided' \subseteq Reports!Undecided \cup (Servers \X {k})
  BY <1>7 DEF Reports!Undecided
<1>9. Reports!FightInv' BY <1>1, <1>2, <1>6, <1>8, UserFight DEF Fight
<1> QED BY <1>4, <1>5, <1>9 DEF Fight

\* A status update leaves every server what it may say, but the one that sent it.
LEMMA StatusSays ==
  ASSUME ReportTypes, UNCHANGED setting, NEW k \in Reported, store[k] # NoCRD,
         NEW obj \in Reports!CRD, ReportStores(k, obj),
         obj.subject = store[k].subject, obj.generation = store[k].generation,
         NEW r \in Servers, NEW j \in Reported,
         Reports!Upcoming(r, j)' = Reports!Upcoming(r, j), Reports!MaySay(r, j)'
  PROVE  Reports!MaySay(r, j)
<1>1. /\ store'[k] = obj
      /\ \A i \in Reported \ {k} : store'[i] = store[i]
      /\ watch'[r] = watch[r] \cup {[rv |-> rv + 1, name |-> k, obj |-> obj]}
  BY ReportStored
<1>2. obj # NoCRD BY ReportsAssumption
<1>3. Reports!WillForget(r, j)' => Reports!WillForget(r, j)
  BY <1>1, <1>2 DEF Reports!WillForget
<1>4. store'[j] # NoCRD => /\ store[j] # NoCRD
                           /\ store'[j].generation = store[j].generation
                           /\ store'[j].subject = store[j].subject
  BY <1>1
<1> QED BY <1>3, <1>4, SayKept

\* The server that sent it has had its say: a deletion that it was yet to be told
\* of would have made the store refuse the update.
LEMMA Said ==
  ASSUME ReportTypes, Reports!ReportInv, Fight, UNCHANGED setting,
         NEW s \in Servers, NEW k \in Reported, Reports!UpdateAccepted(s, k)
  PROVE  Reports!MaySay(s, k) /\ ~ Reports!MaySay(s, k)'
<1>1. PICK crd : crd = task[s][k].crd OBVIOUS
<1>2. task[s][k].step = "update" /\ Reports!Current(crd) /\ UNCHANGED lastSeen
  BY <1>1 DEF Reports!UpdateAccepted, Reports!Updating
<1>3. crd \in Reports!CRD /\ crd.name = k /\ crd.subject = store[k].subject
  BY <1>1, <1>2 DEF ReportTypes, Reports!ReportInv, Reports!TaskInv
<1>4. /\ ~ Reports!Covers(lastSeen[s][k], crd)
      /\ cache[s][k] = store[k] /\ crd.generation = store[k].generation
  BY <1>1, <1>2 DEF Fight, Reports!SayInv
<1>5. store[k] # NoCRD BY <1>2, <1>3 DEF Reports!Current
<1>6. Reports!MaySay(s, k)
  <2>1. Reports!Upcoming(s, k) = lastSeen[s][k] BY <1>2 DEF Reports!Upcoming
  <2>2. ~ Reports!Covers(Reports!Upcoming(s, k), store[k])
    BY <1>3, <1>4, <2>1 DEF Reports!Covers
  <2> QED BY <1>5, <2>2 DEF Reports!MaySay, Reports!Live
<1>7. PICK obj \in Reports!CRD :
        /\ ReportStores(k, obj)
        /\ obj.subject = store[k].subject
        /\ obj.generation = store[k].generation
  BY StatusStores
<1>8. obj # NoCRD BY ReportsAssumption
<1>9. ~ Reports!WillForget(s, k)
  <2>1. ASSUME NEW e \in watch[s], e.name = k
        PROVE  FALSE
    <3>1. store[k].rv \in Nat /\ e.rv \in Nat BY <1>5, ReportNumbers
    <3>2. store[k].rv < e.rv /\ e.rv <= store[k].rv
      BY <1>4, <1>5, <2>1 DEF Reports!ReportInv, Reports!StoreInv, Reports!CacheInv
    <3> QED BY <3>1, <3>2
  <2> QED BY <2>1 DEF Reports!WillForget
<1>10. ~ Reports!WillForget(s, k)'
  <2>1. watch'[s] = watch[s] \cup {[rv |-> rv + 1, name |-> k, obj |-> obj]}
    BY <1>7, ReportStored
  <2> QED BY <1>8, <1>9, <2>1 DEF Reports!WillForget
<1>11. Reports!Covers(Reports!Upcoming(s, k), store[k])'
  <2>1. PICK t : t = [task[s][k] EXCEPT !.step = "remember"] OBVIOUS
  <2>2. task[s][k] \in Reports!Task BY DEF ReportTypes
  <2>3. t \in Reports!Task /\ t.step = "remember" /\ t.crd = crd
    BY <1>1, <2>1, <2>2 DEF Reports!Task
  <2>4. task' = [task EXCEPT ![s][k] = t] BY <2>1 DEF Reports!UpdateAccepted, Reports!SetTask
  <2>5. Reports!Upcoming(s, k)' = Reports!SeenOf(crd)
    BY <1>2, <2>3, <2>4, UpcomingKept DEF Fight
  <2>6. store'[k] = obj BY <1>7, ReportStored
  <2>7. Reports!SeenOf(crd) # Unseen
    BY <1>3, ReportsAssumption DEF Reports!SeenOf, Reports!Seen, Reports!CRD
  <2>8. IF Reports!ByGeneration THEN obj.generation <= Reports!SeenOf(crd)
        ELSE obj.subject = Reports!SeenOf(crd)
    BY <1>3, <1>4, <1>7 DEF Reports!SeenOf, Reports!CRD
  <2>9. Reports!ByGeneration' = Reports!ByGeneration BY DEF Reports!ByGeneration
  <2> QED BY <2>5, <2>6, <2>7, <2>8, <2>9 DEF Reports!Covers
<1>12. ~ Reports!MaySay(s, k)' BY <1>10, <1>11 DEF Reports!MaySay
<1> QED BY <1>6, <1>12

LEMMA AcceptedFights ==
  ASSUME ReportTypes, Reports!ReportInv, Fight, UNCHANGED setting,
         NEW s \in Servers, NEW k \in Reported, Reports!UpdateAccepted(s, k)
  PROVE  Fight'
<1>1. UNCHANGED <<userWrites, lastSeen, faults>>
  BY DEF Reports!UpdateAccepted, Reports!Updating
<1>2. PICK t : t = [task[s][k] EXCEPT !.step = "remember"] OBVIOUS
<1>3. t \in Reports!Task /\ t.step = "remember" /\ t.crd \in Reports!CRD
  <2>1. task[s][k] \in Reports!Task /\ task[s][k].step = "update"
    BY DEF ReportTypes, Reports!UpdateAccepted, Reports!Updating
  <2>2. task[s][k].crd \in Reports!CRD BY <2>1 DEF ReportTypes
  <2> QED BY <1>2, <2>1, <2>2 DEF Reports!Task
<1>4. task' = [task EXCEPT ![s][k] = t] BY <1>2 DEF Reports!UpdateAccepted, Reports!SetTask
<1>5. TasksKept BY <1>3, <1>4, TaskEnds
<1>6. /\ store[k] # NoCRD
      /\ \E obj \in Reports!CRD :
           /\ ReportStores(k, obj)
           /\ obj.subject = store[k].subject
           /\ obj.generation = store[k].generation
  BY StatusStores
<1>7. PICK obj \in Reports!CRD :
        /\ ReportStores(k, obj)
        /\ obj.subject = store[k].subject
        /\ obj.generation = store[k].generation
  BY <1>6
<1>8. FightTypes' BY <1>1, <1>3, <1>4, TaskRemembers DEF Fight, FightTypes
<1>9. Reports!SayInv' BY <1>1, <1>5, <1>7, SaidUnchanged, SayWrite DEF Fight
<1>10. ASSUME NEW r \in Servers, NEW j \in Reported, ~ (r = s /\ j = k), Reports!MaySay(r, j)'
       PROVE  Reports!MaySay(r, j)
  <2>1. FightTypes BY DEF Fight
  <2>2. \A p \in Servers, i \in Reported :
          ~ (p = s /\ i = k) => Reports!Upcoming(p, i)' = Reports!Upcoming(p, i)
    BY <1>1, <1>3, <1>4, <2>1, UpcomingKept
  <2>3. Reports!Upcoming(r, j)' = Reports!Upcoming(r, j) BY <1>10, <2>2
  <2> QED BY <1>6, <1>7, <1>10, <2>3, StatusSays
<1>11. Reports!MaySay(s, k) /\ ~ Reports!MaySay(s, k)' BY Said
<1>12. /\ <<s, k>> \in Reports!Undecided
       /\ Reports!Undecided' \subseteq Reports!Undecided \ {<<s, k>>}
  BY <1>10, <1>11 DEF Reports!Undecided
<1>13. rv' = rv + 1 BY <1>7, ReportStored
<1>14. Reports!FightInv' BY <1>1, <1>12, <1>13, SaidFight DEF Fight
<1> QED BY <1>8, <1>9, <1>14 DEF Fight

\* Any other end of a sync, its beginning too, leaves what was and will be
\* remembered.
LEMMA TaskSays ==
  ASSUME ReportTypes, FightTypes, UNCHANGED <<setting, lastSeen>>,
         NEW s \in Servers, NEW k \in Reported, NEW t \in Reports!Task,
         t.step # "remember", task[s][k].step # "remember", task' = [task EXCEPT ![s][k] = t]
  PROVE  /\ \A r \in Servers, j \in Reported :
              Reports!Upcoming(r, j)' = Reports!Upcoming(r, j)
         /\ \A r \in Servers, j \in Reported :
              task'[r][j].step = "remember" => task'[r][j].crd \in Reports!CRD
<1>1. /\ \A r \in Servers, j \in Reported :
           ~ (r = s /\ j = k) => Reports!Upcoming(r, j)' = Reports!Upcoming(r, j)
      /\ Reports!Upcoming(s, k)' = Reports!Upcoming(s, k)
  BY UpcomingKept
<1>2. \A r \in Servers, j \in Reported : Reports!Upcoming(r, j)' = Reports!Upcoming(r, j)
  BY <1>1
<1>3. \A r \in Servers, j \in Reported :
        task'[r][j].step = "remember" => task'[r][j].crd \in Reports!CRD
  BY TaskRemembers
<1> QED BY <1>2, <1>3

LEMMA IdleTask ==
  Reports!Idle \in Reports!Task /\ Reports!Idle.step = "idle"
  BY DEF Reports!Idle, Reports!Task

LEMMA LostFights ==
  ASSUME ReportTypes, Reports!ReportInv, Fight, UNCHANGED setting,
         NEW s \in Servers, NEW k \in Reported, Reports!ResponseLost(s, k)
  PROVE  Fight'
<1>1. /\ UNCHANGED <<userWrites, lastSeen>> /\ faults' = faults + 1
      /\ task[s][k].step = "update"
      /\ task' = [task EXCEPT ![s][k] = Reports!Idle]
  BY DEF Reports!ResponseLost, Reports!Updating, Reports!Fault, Reports!SetTask
<1>2. TasksKept BY <1>1, IdleTask, TaskEnds
<1>3. /\ \A r \in Servers, j \in Reported : Reports!Upcoming(r, j)' = Reports!Upcoming(r, j)
      /\ \A r \in Servers, j \in Reported :
           task'[r][j].step = "remember" => task'[r][j].crd \in Reports!CRD
  BY <1>1, IdleTask, TaskSays DEF Fight
<1>4. store[k] # NoCRD BY StatusStores
<1>5. PICK obj \in Reports!CRD :
        /\ ReportStores(k, obj)
        /\ obj.subject = store[k].subject
        /\ obj.generation = store[k].generation
  BY StatusStores
<1>6. FightTypes' BY <1>1, <1>3 DEF Fight, FightTypes
<1>7. Reports!SayInv' BY <1>1, <1>2, <1>5, SaidUnchanged, SayWrite DEF Fight
<1>8. Reports!Undecided' \subseteq Reports!Undecided
  BY <1>3, <1>4, <1>5, StatusSays, SaysKept
<1>9. rv' = rv + 1 BY <1>5, ReportStored
<1>10. Reports!FightInv' BY <1>1, <1>8, <1>9, LostFight DEF Fight
<1> QED BY <1>6, <1>7, <1>10 DEF Fight

\* A step of a sync, or of the informer, that is no write.
LEMMA NoWriteFights ==
  ASSUME ReportTypes, FightTypes, Reports!FightInv, UNCHANGED <<rv, store, userWrites, setting>>,
         faults' = faults \/ faults' = faults + 1,
         \A r \in Servers, j \in Reported :
           /\ Reports!WillForget(r, j)' => Reports!WillForget(r, j)
           /\ store[j] # NoCRD
                => \/ Reports!Upcoming(r, j)' = Reports!Upcoming(r, j)
                   \/ Reports!WillForget(r, j)
  PROVE  Reports!FightInv'
<1>1. ASSUME NEW r \in Servers, NEW j \in Reported, Reports!MaySay(r, j)'
      PROVE  Reports!MaySay(r, j)
  <2>1. store[j] # NoCRD BY <1>1 DEF Reports!MaySay, Reports!Live
  <2> QED BY <1>1, <2>1, SayKept
<1>2. Reports!Undecided' \subseteq Reports!Undecided BY <1>1, SaysKept
<1> QED BY <1>2, QuietFight

\* A sync begins only with what its server has not had a say on, and with what is
\* cached: if the store has the same version, it has the same object.
LEMMA BeginFights ==
  ASSUME ReportTypes, Reports!ReportInv, Fight, UNCHANGED setting,
         NEW s \in Servers, NEW k \in Reported, Reports!Begin(s, k)
  PROVE  Fight'
<1>1. /\ UNCHANGED <<rv, store, cache, watch, userWrites, lastSeen, faults>>
      /\ task[s][k] = Reports!Idle
  BY DEF Reports!Begin, Reports!storageVars
<1>2. Reports!TaskInv /\ Reports!CacheInv /\ Reports!NameInv
  BY DEF Reports!ReportInv, Reports!StoreInv
<1>3. PICK crd : crd = cache[s][k] OBVIOUS
<1>4. crd \in Reports!CRD \cup {NoCRD} BY <1>3 DEF ReportTypes
<1>5. PICK t : t = IF crd = NoCRD \/ Reports!UpToDate(s, crd) THEN Reports!Idle
                   ELSE [step |-> "update",
                         crd |-> [crd EXCEPT !.condition = Reports!Calculate[s][crd.subject]]]
  OBVIOUS
<1>6. task' = [task EXCEPT ![s][k] = t]
  BY <1>3, <1>5 DEF Reports!Begin, Reports!SetTask
<1>7. t.step # "remember"
  BY <1>5, IdleTask
<1>8. task' \in [Servers -> [Reported -> Reports!Task]]
  BY BeginReport DEF ReportTypes
<1>9. task'[s][k] = t BY <1>6 DEF ReportTypes
<1>10. t \in Reports!Task BY <1>8, <1>9
<1>11. /\ \A r \in Servers, j \in Reported : Reports!Upcoming(r, j)' = Reports!Upcoming(r, j)
       /\ \A r \in Servers, j \in Reported :
            task'[r][j].step = "remember" => task'[r][j].crd \in Reports!CRD
  <2>1. task[s][k].step # "remember" BY <1>1, IdleTask
  <2> QED BY <1>1, <1>6, <1>7, <1>10, <2>1, TaskSays DEF Fight
<1>12. FightTypes' BY <1>1, <1>11 DEF Fight, FightTypes
<1>13. ASSUME t.step = "update"
       PROVE  /\ ~ Reports!Covers(lastSeen[s][k], t.crd)
              /\ store[k] # NoCRD /\ store[k].rv = t.crd.rv
                 => cache[s][k] = store[k] /\ t.crd.generation = store[k].generation
              /\ t.crd.name = k
  <2>1. crd # NoCRD /\ ~ Reports!UpToDate(s, crd)
        /\ t.crd = [crd EXCEPT !.condition = Reports!Calculate[s][crd.subject]]
    BY <1>5, <1>13, IdleTask
  <2>2. crd \in Reports!CRD BY <1>4, <2>1
  <2>3. /\ t.crd.name = crd.name /\ t.crd.rv = crd.rv
        /\ t.crd.subject = crd.subject /\ t.crd.generation = crd.generation
    BY <2>1, <2>2 DEF Reports!CRD
  <2>4. crd.name = k BY <1>2, <1>3, <2>1 DEF Reports!NameInv, Reports!Present
  <2>5. ~ Reports!Covers(lastSeen[s][k], t.crd)
    BY <2>1, <2>3, <2>4 DEF Reports!UpToDate, Reports!SeenBefore, Reports!Covers
  <2>6. store[k] # NoCRD /\ store[k].rv = crd.rv => cache[s][k] = store[k]
    BY <1>2, <1>3, <2>1 DEF Reports!CacheInv
  <2> QED BY <1>3, <2>3, <2>4, <2>5, <2>6
<1>14. Reports!SayInv'
  <2> SUFFICES ASSUME NEW r \in Servers, NEW j \in Reported, task'[r][j].step = "update"
               PROVE  /\ ~ Reports!Covers(lastSeen[r][j], task'[r][j].crd)
                      /\ Reports!Current(task'[r][j].crd)
                         => /\ cache[r][j] = store[j]
                            /\ task'[r][j].crd.generation = store[j].generation
    BY <1>1 DEF Reports!SayInv, Reports!Covers, Reports!ByGeneration, Reports!Current
  <2>1. CASE r = s /\ j = k BY <1>9, <1>13, <2>1 DEF Reports!Current
  <2>2. CASE ~ (r = s /\ j = k)
    <3>1. task'[r][j] = task[r][j] BY <1>6, <2>2 DEF ReportTypes
    <3> QED BY <3>1 DEF Fight, Reports!SayInv
  <2> QED BY <2>1, <2>2
<1>15. \A r \in Servers, j \in Reported : Reports!WillForget(r, j)' => Reports!WillForget(r, j)
  BY <1>1 DEF Reports!WillForget
<1>16. Reports!FightInv' BY <1>1, <1>11, <1>15, NoWriteFights DEF Fight
<1> QED BY <1>12, <1>14, <1>16 DEF Fight

\* The other ends of a sync: refused, failed or remembered.
LEMMA EndFights ==
  ASSUME ReportTypes, Reports!ReportInv, Fight, UNCHANGED setting,
         NEW s \in Servers, NEW k \in Reported,
         Reports!UpdateRefused(s, k) \/ Reports!UpdateFailed(s, k) \/ Reports!Remember(s, k)
  PROVE  Fight'
<1> USE DEF Fight
<1>1. /\ UNCHANGED <<rv, store, cache, watch, userWrites>>
      /\ faults' = faults \/ faults' = faults + 1
      /\ task' = [task EXCEPT ![s][k] = Reports!Idle]
  BY DEF Reports!UpdateRefused, Reports!UpdateFailed, Reports!Remember, Reports!Updating,
         Reports!Fault, Reports!SetTask, Reports!storageVars
<1>2. TasksKept BY <1>1, IdleTask, TaskEnds
<1>3. \A r \in Servers, j \in Reported :
        task'[r][j].step = "remember" => task'[r][j].crd \in Reports!CRD
  BY <1>1, IdleTask, TaskRemembers
<1>4. /\ lastSeen' \in [Servers -> [Reported -> Reports!Seen \cup {Unseen}]]
      /\ SaidKept
      /\ \A r \in Servers, j \in Reported : Reports!Upcoming(r, j)' = Reports!Upcoming(r, j)
  <2>1. CASE Reports!UpdateRefused(s, k) \/ Reports!UpdateFailed(s, k)
    <3>1. UNCHANGED lastSeen /\ task[s][k].step = "update"
      BY <2>1 DEF Reports!UpdateRefused, Reports!UpdateFailed, Reports!Updating
    <3>2. \A r \in Servers, j \in Reported : Reports!Upcoming(r, j)' = Reports!Upcoming(r, j)
      BY <1>1, <3>1, IdleTask, TaskSays
    <3> QED BY <3>1, <3>2, SaidUnchanged DEF FightTypes
  <2>2. CASE Reports!Remember(s, k)
    <3>1. PICK seen : seen = Reports!SeenOf(task[s][k].crd) OBVIOUS
    <3>2. task[s][k].step = "remember" /\ lastSeen' = [lastSeen EXCEPT ![s][k] = seen]
      BY <2>2, <3>1 DEF Reports!Remember
    <3>3. seen \in Reports!Seen
      <4>1. task[s][k].crd \in Reports!CRD BY <3>2 DEF FightTypes
      <4> QED BY <3>1, <4>1 DEF Reports!SeenOf, Reports!Seen, Reports!CRD
    <3>4. lastSeen' \in [Servers -> [Reported -> Reports!Seen \cup {Unseen}]]
      BY <3>2, <3>3 DEF FightTypes
    <3>5. \A r \in Servers, j \in Reported :
            /\ ~ (r = s /\ j = k) => task'[r][j] = task[r][j] /\ lastSeen'[r][j] = lastSeen[r][j]
            /\ r = s /\ j = k => task'[r][j] = Reports!Idle /\ lastSeen'[r][j] = seen
      BY <1>1, <3>2 DEF ReportTypes, FightTypes
    <3>6. Reports!ByGeneration' = Reports!ByGeneration BY DEF Reports!ByGeneration
    <3>7. ASSUME NEW r \in Servers, NEW j \in Reported
          PROVE  Reports!Upcoming(r, j)' = Reports!Upcoming(r, j)
      <4>1. CASE r = s /\ j = k
        BY <3>1, <3>2, <3>5, <4>1, IdleTask DEF Reports!Upcoming
      <4>2. CASE ~ (r = s /\ j = k)
        BY <3>5, <3>6, <4>2 DEF Reports!Upcoming, Reports!SeenOf
      <4> QED BY <4>1, <4>2
    <3>8. SaidKept BY <3>5, IdleTask DEF SaidKept
    <3> QED BY <3>4, <3>7, <3>8
  <2> QED BY <2>1, <2>2
<1>5. FightTypes' BY <1>1, <1>3, <1>4 DEF FightTypes
<1>6. Reports!SayInv' BY <1>1, <1>2, <1>4, SayQuiet
<1>7. \A r \in Servers, j \in Reported : Reports!WillForget(r, j)' => Reports!WillForget(r, j)
  BY <1>1 DEF Reports!WillForget
<1>8. Reports!FightInv' BY <1>1, <1>4, <1>7, NoWriteFights
<1> QED BY <1>5, <1>6, <1>8

\* A delivered deletion makes a server forget what it was to be told to forget.
LEMMA DeliverFights ==
  ASSUME ReportTypes, Reports!ReportInv, Fight, UNCHANGED setting,
         NEW s \in Servers, Reports!Deliver(s)
  PROVE  Fight'
<1> USE DEF Fight
<1>1. PICK e \in watch[s] :
        /\ Reports!Receive(s, e)
        /\ IF e.obj = NoCRD THEN Reports!Forget(s, {e.name}) ELSE UNCHANGED lastSeen
        /\ UNCHANGED <<task, faults>>
  BY DEF Reports!Deliver
<1>2. /\ UNCHANGED <<rv, store, userWrites>>
      /\ watch'[s] = watch[s] \ {e}
      /\ \A r \in Servers \ {s} : watch'[r] = watch[r]
  BY <1>1 DEF Reports!Receive, ReportTypes
<1>3. /\ lastSeen' \in [Servers -> [Reported -> Reports!Seen \cup {Unseen}]]
      /\ SaidKept
      /\ \A r \in Servers, k \in Reported :
           \/ lastSeen'[r][k] = lastSeen[r][k]
           \/ r = s /\ k = e.name /\ e.obj = NoCRD
  <2>1. CASE e.obj = NoCRD BY <1>1, <2>1, Forgotten
  <2>2. CASE e.obj # NoCRD BY <1>1, <2>2, SaidUnchanged DEF FightTypes
  <2> QED BY <2>1, <2>2
<1>4. FightTypes' BY <1>1, <1>2, <1>3 DEF FightTypes
<1>5. Reports!SayInv' BY <1>1, <1>3, TasksUnchanged, SayInformed
<1>6. ASSUME NEW r \in Servers, NEW k \in Reported
      PROVE  /\ Reports!WillForget(r, k)' => Reports!WillForget(r, k)
             /\ \/ Reports!Upcoming(r, k)' = Reports!Upcoming(r, k)
                \/ Reports!WillForget(r, k)
  <2>1. watch'[r] \subseteq watch[r] BY <1>2
  <2>2. Reports!WillForget(r, k)' => Reports!WillForget(r, k)
    BY <2>1 DEF Reports!WillForget
  <2>3. CASE lastSeen'[r][k] = lastSeen[r][k]
    BY <1>1, <2>2, <2>3 DEF Reports!Upcoming, Reports!SeenOf, Reports!ByGeneration
  <2>4. CASE r = s /\ k = e.name /\ e.obj = NoCRD
    BY <2>2, <2>4 DEF Reports!WillForget
  <2> QED BY <1>3, <2>3, <2>4
<1>7. Reports!FightInv' BY <1>1, <1>2, <1>6, NoWriteFights
<1> QED BY <1>4, <1>5, <1>7

\* A list makes a server forget only what is no longer stored.
LEMMA RelistFights ==
  ASSUME ReportTypes, Reports!ReportInv, Fight, UNCHANGED setting,
         NEW s \in Servers, Reports!Relist(s)
  PROVE  Fight'
<1> USE DEF Fight
<1>1. /\ Reports!List(s) /\ faults' = faults + 1 /\ UNCHANGED task
      /\ Reports!Forget(s, Reports!Changed(s) \ Reports!Live)
  BY DEF Reports!Relist, Reports!Fault
<1>2. /\ UNCHANGED <<rv, store, userWrites>>
      /\ watch'[s] = {}
      /\ \A r \in Servers \ {s} : watch'[r] = watch[r]
  BY <1>1 DEF Reports!List, ReportTypes
<1>3. /\ lastSeen' \in [Servers -> [Reported -> Reports!Seen \cup {Unseen}]]
      /\ SaidKept
      /\ \A r \in Servers, k \in Reported :
           store[k] # NoCRD => lastSeen'[r][k] = lastSeen[r][k]
  BY <1>1, Forgotten DEF Reports!Live
<1>4. FightTypes' BY <1>1, <1>2, <1>3 DEF FightTypes
<1>5. Reports!SayInv' BY <1>1, <1>3, TasksUnchanged, SayInformed
<1>6. ASSUME NEW r \in Servers, NEW k \in Reported
      PROVE  /\ Reports!WillForget(r, k)' => Reports!WillForget(r, k)
             /\ store[k] # NoCRD => Reports!Upcoming(r, k)' = Reports!Upcoming(r, k)
  <2>1. watch'[r] \subseteq watch[r] BY <1>2
  <2>2. Reports!WillForget(r, k)' => Reports!WillForget(r, k)
    BY <2>1 DEF Reports!WillForget
  <2>3. store[k] # NoCRD => Reports!Upcoming(r, k)' = Reports!Upcoming(r, k)
    BY <1>1, <1>3 DEF Reports!Upcoming, Reports!SeenOf, Reports!ByGeneration
  <2> QED BY <2>2, <2>3
<1>7. Reports!FightInv' BY <1>1, <1>2, <1>6, NoWriteFights
<1> QED BY <1>4, <1>5, <1>7

LEMMA RestartFights ==
  ASSUME ReportTypes, Reports!ReportInv, Fight, UNCHANGED setting,
         NEW s \in Servers, Reports!Restart(s)
  PROVE  Fight'
<1> USE DEF Fight
<1>1. /\ Reports!List(s) /\ faults' = faults + 1
      /\ task' = [task EXCEPT ![s] = [k \in Reported |-> Reports!Idle]]
      /\ Reports!Forget(s, Reported)
  BY DEF Reports!Restart, Reports!Fault
<1>2. /\ UNCHANGED <<rv, store, userWrites>>
      /\ \A r \in Servers \ {s} : watch'[r] = watch[r]
  BY <1>1 DEF Reports!List, ReportTypes
<1>3. /\ lastSeen' \in [Servers -> [Reported -> Reports!Seen \cup {Unseen}]]
      /\ SaidKept
      /\ \A r \in Servers \ {s}, k \in Reported : lastSeen'[r][k] = lastSeen[r][k]
  BY <1>1, Forgotten
<1>4. /\ \A k \in Reported : task'[s][k] = Reports!Idle
      /\ \A r \in Servers \ {s} : task'[r] = task[r]
  BY <1>1 DEF ReportTypes
<1>5. FightTypes' BY <1>1, <1>2, <1>3, <1>4, IdleTask DEF FightTypes
<1>6. Reports!SayInv' BY <1>1, <1>3, RestartTasks, SayInformed
<1>7. ASSUME NEW r \in Servers \ {s}, NEW k \in Reported, Reports!MaySay(r, k)'
      PROVE  Reports!MaySay(r, k)
  <2>1. Reports!WillForget(r, k)' => Reports!WillForget(r, k)
    BY <1>2 DEF Reports!WillForget
  <2>2. Reports!Upcoming(r, k)' = Reports!Upcoming(r, k)
    BY <1>3, <1>4 DEF Reports!Upcoming, Reports!SeenOf, Reports!ByGeneration
  <2> QED BY <1>2, <1>7, <2>1, <2>2, SayKept
<1>8. Reports!Undecided' \subseteq Reports!Undecided \cup ({s} \X Reported)
  BY <1>7 DEF Reports!Undecided
<1>9. Reports!FightInv' BY <1>1, <1>2, <1>8, RestartFight
<1> QED BY <1>5, <1>6, <1>9

LEMMA QuietFights ==
  ASSUME ReportTypes, Reports!ReportInv, Fight,
         UNCHANGED <<rv, store, cache, watch, userWrites, task, lastSeen, faults, setting>>
  PROVE  Fight'
<1> USE DEF Fight
<1>1. FightTypes' BY DEF FightTypes
<1>2. Reports!SayInv' BY TasksUnchanged, SaidUnchanged, SayQuiet
<1>3. \A r \in Servers, k \in Reported :
        /\ Reports!WillForget(r, k)' => Reports!WillForget(r, k)
        /\ Reports!Upcoming(r, k)' = Reports!Upcoming(r, k)
  BY DEF Reports!WillForget, Reports!Upcoming, Reports!SeenOf, Reports!ByGeneration
<1>4. Reports!FightInv' BY <1>3, NoWriteFights
<1> QED BY <1>1, <1>2, <1>4

LEMMA FightStep ==
  ASSUME ReportTypes, Reports!ReportInv, Fight, Reports!Next
  PROVE  Fight'
<1>1. UNCHANGED setting BY DEF Reports!Next
<1>2. CASE Reports!UserNext BY <1>1, <1>2, UserFights
<1>3. ASSUME NEW s \in Servers, NEW k \in Reported, Reports!Sync(s, k)
      PROVE  Fight'
  BY <1>1, <1>3, BeginFights, AcceptedFights, LostFights, EndFights DEF Reports!Sync
<1>4. ASSUME NEW s \in Servers,
             Reports!Deliver(s) \/ Reports!Resync(s) \/ Reports!Relist(s) \/ Reports!Restart(s)
      PROVE  Fight'
  <2>1. CASE Reports!Resync(s)
    BY <1>1, <2>1, QuietFights DEF Reports!Resync, Reports!storageVars
  <2> QED BY <1>1, <1>4, <2>1, DeliverFights, RelistFights, RestartFights
<1> QED BY <1>2, <1>3, <1>4 DEF Reports!Next

LEMMA NextFights ==
  ASSUME ReportTypes, Reports!ReportInv, Fight, [Next]_vars
  PROVE  Fight'
<1>1. CASE Report BY <1>1, FightStep DEF Report
<1>2. CASE UNCHANGED reportVars BY <1>2, QuietFights DEF reportVars
<1> QED BY <1>1, <1>2 DEF Next, ChangeCache, Discovery, OpenAPI, OpenAPIV3, vars

LEMMA FightStarts ==
  ASSUME Init
  PROVE  Fight
<1>1. /\ rv = 0 /\ userWrites = 0 /\ faults = 0
      /\ store = [k \in Reported |-> NoCRD]
      /\ task = [s \in Servers |-> [k \in Reported |-> Reports!Idle]]
      /\ lastSeen = [s \in Servers |-> [k \in Reported |-> Unseen]]
  BY DEF Init, Reports!Init, Reports!StorageInit
<1>2. \A s \in Servers, k \in Reported : task[s][k].step = "idle" BY <1>1, IdleTask
<1>3. FightTypes BY <1>1, <1>2 DEF FightTypes
<1>4. Reports!SayInv BY <1>2 DEF Reports!SayInv
<1>5. Reports!Undecided = {} BY <1>1 DEF Reports!Undecided, Reports!MaySay, Reports!Live
<1>6. Reports!FightInv
  <2>1. Cardinality(Reports!Undecided) = 0 BY <1>5, FS_EmptySet
  <2>2. Cardinality(Servers) * 0 = 0 /\ Cardinality(Reported) * 0 = 0 BY Sizes
  <2>3. rv + Cardinality(Reports!Undecided)
          <= userWrites + Cardinality(Servers) * userWrites + Cardinality(Reported) * faults
    BY <1>1, <2>1, <2>2
  <2> QED BY <1>3, <2>3, ReportStarts, FightNumbers
<1> QED BY <1>3, <1>4, <1>6 DEF Fight

LEMMA FightBounds ==
  ASSUME ReportTypes, Fight
  PROVE  ServersDoNotFight
<1>1. rv + Cardinality(Reports!Undecided)
        <= userWrites + Cardinality(Servers) * userWrites + Cardinality(Reported) * faults
  BY FightNumbers DEF Fight
<1>2. Cardinality(Servers) * userWrites \in Nat /\ Cardinality(Reported) * faults \in Nat
  BY Sizes, BoundGrows DEF Fight, FightTypes
<1>3. rv <= userWrites + Cardinality(Servers) * userWrites + Cardinality(Reported) * faults
  BY <1>1, <1>2, Sizes DEF ReportTypes, Fight, FightTypes
<1> QED BY <1>3, SameSize DEF ServersDoNotFight, Reports!ServersDoNotFight

\* Servers of different versions would have different conditions, and each reads
\* its own cache: still every write of a controller is for a server's say on what
\* a user wrote or a fault made it forget, and each has one.  So the writes end
\* when users and faults do, whatever the servers would have, and however many.
THEOREM ServersStopFighting == PublishingSpec => []ServersDoNotFight
<1> DEFINE Inv == ReportTypes /\ Reports!ReportInv /\ Fight
<1>1. Init => Inv BY ReportStarts, FightStarts
<1>2. Inv /\ [Next]_vars => Inv' BY NextReport, NextFights
<1>3. Inv => ServersDoNotFight BY FightBounds
<1> QED BY <1>1, <1>2, <1>3, PTL DEF PublishingSpec

=============================================================================
