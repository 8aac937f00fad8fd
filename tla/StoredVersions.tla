--------------------------- MODULE StoredVersions ---------------------------
(***************************************************************************)
(* In which versions the objects of a CRD are stored, and which versions   *)
(* the CRD remembers in status.storedVersions.  Each server stores objects *)
(* in the storage version of the CRD as its handler saw it last; a client  *)
(* of the API migrates the objects and then forgets the older versions.    *)
(***************************************************************************)
EXTENDS Naturals, FiniteSets

CONSTANTS Versions, Servers, Instances,
          MaxUpdates   \* bound of the model: updates of the CRD

VARIABLES crd,        \* its versions, its storage version and status.storedVersions
          updates,    \* its resource version
          views,      \* of each server: versions and storage version
          instances,  \* of each object: the version it is stored in, or NotStored
          migration   \* the revision of the CRD it started at, and what it has yet to rewrite

vars == <<crd, updates, views, instances, migration>>

ASSUME VersionsAssumption == "NotStored" \notin Versions

NotStored == "NotStored"
NoMigration == [revision |-> 0, rest |-> {}]

View(c) == [versions |-> c.versions, storage |-> c.storage]

\* PrepareForCreate and the defaults of the status.
Created(versions, storage) ==
  [versions |-> versions, storage |-> storage, storedVersions |-> {storage}]

Init ==
  /\ \E vs \in SUBSET Versions : \E v \in vs : crd = Created(vs, v)
  /\ updates = 1
  /\ views = [s \in Servers |-> View(crd)]
  /\ instances = [o \in Instances |-> NotStored]
  /\ migration = NoMigration

ValidateStoredVersions(c) ==
  /\ c.storage \in c.storedVersions
  /\ c.storedVersions \subseteq c.versions

\* As if the storage version took the place of the former one.
PrepareReplacing(versions, storage, old) == Created(versions, storage)

PrepareForUpdate(versions, storage, old) ==
  [versions |-> versions, storage |-> storage, storedVersions |-> old.storedVersions \cup {storage}]

\* Other fields of the CRD change as well, in updates that leave these.
UpdateSpec ==
  /\ updates < MaxUpdates
  /\ \E vs \in SUBSET Versions : \E v \in vs :
       LET new == PrepareForUpdate(vs, v, crd)
       IN ValidateStoredVersions(new) /\ crd' = new
  /\ updates' = updates + 1
  /\ UNCHANGED <<views, instances, migration>>

\* The handler of a server learns of the CRD and builds its storages anew.
Sync(s) ==
  /\ views[s] # View(crd)
  /\ views' = [views EXCEPT ![s] = View(crd)]
  /\ UNCHANGED <<crd, updates, instances, migration>>

\* An object is read to be written: its version must be known.
Written(s, o) ==
  /\ instances[o] \in views[s].versions \cup {NotStored}
  /\ instances' = [instances EXCEPT ![o] = views[s].storage]

Write(s, o) == Written(s, o) /\ UNCHANGED <<crd, updates, views, migration>>

DeleteInstance(o) ==
  /\ instances[o] # NotStored
  /\ instances' = [instances EXCEPT ![o] = NotStored]
  /\ UNCHANGED <<crd, updates, views, migration>>

-----------------------------------------------------------------------------
(* The migration of crd-lifecycle.md: the objects are read and written back, *)
(* and the status then updated.  That it waits for all servers to store in *)
(* the storage version is asked of whoever migrates, not of this code.      *)

StartMigration ==
  /\ migration = NoMigration
  /\ crd.storedVersions # {crd.storage}
  /\ \A s \in Servers : views[s] = View(crd)
  /\ migration' = [revision |-> updates, rest |-> {o \in Instances : instances[o] # NotStored}]
  /\ UNCHANGED <<crd, updates, views, instances>>

Migrate(s, o) ==
  /\ o \in migration.rest
  /\ IF instances[o] = NotStored THEN UNCHANGED instances ELSE Written(s, o)
  /\ migration' = [migration EXCEPT !.rest = @ \ {o}]
  /\ UNCHANGED <<crd, updates, views>>

\* The update of the status is refused if the CRD is not the one that was read.
UpdateStatus ==
  /\ updates = migration.revision
  /\ crd' = [crd EXCEPT !.storedVersions = {crd.storage}]
  /\ updates' = updates + 1

FinishMigration ==
  /\ migration # NoMigration /\ migration.rest = {}
  /\ \/ UpdateStatus
     \/ updates # migration.revision /\ UNCHANGED <<crd, updates>>
  /\ migration' = NoMigration
  /\ UNCHANGED <<views, instances>>

Next ==
  \/ UpdateSpec
  \/ \E s \in Servers : Sync(s) \/ \E o \in Instances : Write(s, o) \/ Migrate(s, o)
  \/ \E o \in Instances : DeleteInstance(o)
  \/ StartMigration
  \/ FinishMigration

Spec == Init /\ [][Next]_vars

-----------------------------------------------------------------------------

\* No object is stored in a version that the CRD no longer has, nor in one that its
\* status does not list (v1/types.go StoredVersions: "all versions of
\* CustomResources that were ever persisted").
StoredVersionsCover ==
  /\ \A o \in Instances : instances[o] # NotStored => instances[o] \in crd.storedVersions
  /\ crd.storedVersions \subseteq crd.versions

=============================================================================
