------------------------ MODULE StoredVersions_proofs ------------------------
(***************************************************************************)
(* That no object is stored in a version its CRD has forgotten, for any    *)
(* number of versions, servers, objects and updates.                       *)
(***************************************************************************)
EXTENDS StoredVersions, TLAPS

CRDs == [versions : SUBSET Versions, storage : Versions, storedVersions : SUBSET Versions]

TypeOK ==
  /\ crd \in CRDs
  /\ updates \in Nat \ {0}
  /\ views \in [Servers -> [versions : SUBSET Versions, storage : Versions]]
  /\ instances \in [Instances -> Versions \cup {NotStored}]
  /\ migration \in [revision : Nat, rest : SUBSET Instances]
  /\ migration.revision <= updates

\* The storage version is listed.
StorageListed == crd.storage \in crd.storedVersions

\* What a server may yet write is listed as well.
ViewsCovered == \A s \in Servers : views[s].storage \in crd.storedVersions

\* While the CRD that a migration read is the current one, all servers store in its
\* storage version, and so are all objects stored that the migration is done with.
MigrationSound ==
  migration.revision = updates =>
    /\ \A s \in Servers : views[s] = View(crd)
    /\ \A o \in Instances \ migration.rest : instances[o] \in {NotStored, crd.storage}

IInv == TypeOK /\ StoredVersionsCover /\ StorageListed /\ ViewsCovered /\ MigrationSound

\* The initial states satisfy the invariant.
LEMMA InitIInv == Init => IInv
<1> SUFFICES ASSUME Init PROVE IInv
  OBVIOUS
<1> USE VersionsAssumption DEF NotStored
<1>1. PICK vs \in SUBSET Versions : \E v \in vs : crd = Created(vs, v)
  BY DEF Init
<1>2. PICK v \in vs : crd = Created(vs, v)
  BY <1>1
<1>3. TypeOK
  BY <1>2 DEF Init, TypeOK, CRDs, Created, View, NoMigration
<1>4. StoredVersionsCover /\ StorageListed
  BY <1>2 DEF Init, StoredVersionsCover, StorageListed, Created
<1>5. ViewsCovered
  BY <1>2 DEF Init, ViewsCovered, Created, View
<1>6. MigrationSound
  BY DEF Init, MigrationSound, NoMigration
<1> QED
  BY <1>3, <1>4, <1>5, <1>6 DEF IInv

\* An update of the spec keeps every version that is listed.
LEMMA UpdateSpecIInv == IInv /\ UpdateSpec => IInv'
<1> SUFFICES ASSUME IInv, UpdateSpec PROVE IInv'
  OBVIOUS
<1>1. PICK vs \in SUBSET Versions : \E v \in vs :
        LET new == PrepareForUpdate(vs, v, crd)
        IN ValidateStoredVersions(new) /\ crd' = new
  BY DEF UpdateSpec
<1>2. PICK v \in vs :
        LET new == PrepareForUpdate(vs, v, crd)
        IN ValidateStoredVersions(new) /\ crd' = new
  BY <1>1
<1>3. /\ crd' = [versions |-> vs, storage |-> v, storedVersions |-> crd.storedVersions \cup {v}]
      /\ crd.storedVersions \cup {v} \subseteq vs
  BY <1>2 DEF PrepareForUpdate, ValidateStoredVersions, IInv, TypeOK, CRDs
<1>4. /\ updates' = updates + 1
      /\ views' = views /\ instances' = instances /\ migration' = migration
  BY DEF UpdateSpec
<1>5. TypeOK'
  BY <1>3, <1>4 DEF IInv, TypeOK, CRDs
<1>6. (StoredVersionsCover /\ StorageListed)'
  BY <1>3, <1>4 DEF IInv, StoredVersionsCover, StorageListed
<1>7. ViewsCovered'
  BY <1>3, <1>4 DEF IInv, ViewsCovered
<1>8. MigrationSound'
  BY <1>4 DEF IInv, TypeOK, MigrationSound
<1> QED
  BY <1>5, <1>6, <1>7, <1>8 DEF IInv

\* A server that learns of the CRD stores in its storage version, which is listed.
LEMMA SyncIInv == ASSUME NEW s \in Servers PROVE IInv /\ Sync(s) => IInv'
<1> SUFFICES ASSUME IInv, Sync(s) PROVE IInv'
  OBVIOUS
<1>1. TypeOK'
  BY DEF IInv, TypeOK, CRDs, Sync, View
<1>2. (StoredVersionsCover /\ StorageListed)'
  BY DEF IInv, StoredVersionsCover, StorageListed, Sync
<1>3. ViewsCovered'
  BY DEF IInv, TypeOK, ViewsCovered, StorageListed, Sync, View
<1>4. MigrationSound'
  BY DEF IInv, TypeOK, MigrationSound, Sync, View
<1> QED
  BY <1>1, <1>2, <1>3, <1>4 DEF IInv

\* A write stores an object in the version that the server has for it.
LEMMA WrittenIInv ==
  ASSUME NEW s \in Servers, NEW o \in Instances, IInv, Written(s, o),
         UNCHANGED <<crd, updates, views>>,
         \/ UNCHANGED migration
         \/ migration' = [migration EXCEPT !.rest = @ \ {o}]
  PROVE  IInv'
<1>1. /\ instances' = [instances EXCEPT ![o] = views[s].storage]
      /\ crd' = crd /\ updates' = updates /\ views' = views
  BY DEF Written
<1>2. TypeOK'
  BY <1>1 DEF IInv, TypeOK
<1>3. (StoredVersionsCover /\ StorageListed)'
  BY <1>1 DEF IInv, TypeOK, StoredVersionsCover, StorageListed, ViewsCovered
<1>4. ViewsCovered'
  BY <1>1 DEF IInv, ViewsCovered
<1>5. MigrationSound'
  BY <1>1 DEF IInv, TypeOK, MigrationSound, View
<1> QED
  BY <1>2, <1>3, <1>4, <1>5 DEF IInv

LEMMA DeleteInstanceIInv ==
  ASSUME NEW o \in Instances PROVE IInv /\ DeleteInstance(o) => IInv'
<1> SUFFICES ASSUME IInv, DeleteInstance(o) PROVE IInv'
  OBVIOUS
<1>1. /\ instances' = [instances EXCEPT ![o] = NotStored]
      /\ crd' = crd /\ updates' = updates /\ views' = views /\ migration' = migration
  BY DEF DeleteInstance
<1>2. TypeOK' /\ StorageListed' /\ ViewsCovered'
  BY <1>1 DEF IInv, TypeOK, StorageListed, ViewsCovered
<1>3. StoredVersionsCover'
  BY <1>1 DEF IInv, TypeOK, StoredVersionsCover
<1>4. MigrationSound'
  BY <1>1 DEF IInv, TypeOK, MigrationSound
<1> QED
  BY <1>2, <1>3, <1>4 DEF IInv

\* A migration starts when every server stores in the storage version.
LEMMA StartMigrationIInv == IInv /\ StartMigration => IInv'
<1> SUFFICES ASSUME IInv, StartMigration PROVE IInv'
  OBVIOUS
<1>1. /\ migration' = [revision |-> updates, rest |-> {o \in Instances : instances[o] # NotStored}]
      /\ \A s \in Servers : views[s] = View(crd)
      /\ crd' = crd /\ updates' = updates /\ views' = views /\ instances' = instances
  BY DEF StartMigration
<1>2. TypeOK'
  BY <1>1 DEF IInv, TypeOK
<1>3. (StoredVersionsCover /\ StorageListed /\ ViewsCovered)'
  BY <1>1 DEF IInv, StoredVersionsCover, StorageListed, ViewsCovered
<1>4. MigrationSound'
  BY <1>1 DEF MigrationSound, View
<1> QED
  BY <1>2, <1>3, <1>4 DEF IInv

\* An object that the migration comes to is written, or deleted already.
LEMMA MigrateIInv ==
  ASSUME NEW s \in Servers, NEW o \in Instances PROVE IInv /\ Migrate(s, o) => IInv'
<1> SUFFICES ASSUME IInv, Migrate(s, o) PROVE IInv'
  OBVIOUS
<1>1. /\ migration' = [migration EXCEPT !.rest = @ \ {o}]
      /\ crd' = crd /\ updates' = updates /\ views' = views
  BY DEF Migrate
<1>2. CASE instances[o] = NotStored
  <2>1. instances' = instances
    BY <1>2 DEF Migrate
  <2>2. TypeOK'
    BY <1>1, <2>1 DEF IInv, TypeOK
  <2>3. (StoredVersionsCover /\ StorageListed /\ ViewsCovered)'
    BY <1>1, <2>1 DEF IInv, StoredVersionsCover, StorageListed, ViewsCovered
  <2>4. MigrationSound'
    BY <1>1, <1>2, <2>1 DEF IInv, TypeOK, MigrationSound, View
  <2> QED
    BY <2>2, <2>3, <2>4 DEF IInv
<1>3. CASE instances[o] # NotStored
  <2>1. Written(s, o)
    BY <1>3 DEF Migrate
  <2> QED
    BY <1>1, <2>1, WrittenIInv
<1> QED
  BY <1>2, <1>3

\* The older versions are forgotten when nothing is stored in them, nor will be.
LEMMA FinishMigrationIInv == IInv /\ FinishMigration => IInv'
<1> SUFFICES ASSUME IInv, FinishMigration PROVE IInv'
  OBVIOUS
<1>1. /\ migration.rest = {} /\ migration' = NoMigration
      /\ views' = views /\ instances' = instances
  BY DEF FinishMigration
<1>2. CASE UpdateStatus
  <2>1. /\ crd' = [crd EXCEPT !.storedVersions = {crd.storage}]
        /\ updates' = updates + 1 /\ updates = migration.revision
    BY <1>2 DEF UpdateStatus
  <2>2. TypeOK'
    BY <1>1, <2>1 DEF IInv, TypeOK, CRDs, NoMigration
  <2>3. (StoredVersionsCover /\ StorageListed)'
    BY <1>1, <2>1 DEF IInv, TypeOK, CRDs, StoredVersionsCover, StorageListed, MigrationSound
  <2>4. ViewsCovered'
    BY <1>1, <2>1 DEF IInv, TypeOK, CRDs, ViewsCovered, MigrationSound, View
  <2>5. MigrationSound'
    BY <1>1, <2>1 DEF IInv, TypeOK, MigrationSound, NoMigration
  <2> QED
    BY <2>2, <2>3, <2>4, <2>5 DEF IInv
<1>3. CASE UNCHANGED <<crd, updates>>
  <2>1. TypeOK'
    BY <1>1, <1>3 DEF IInv, TypeOK, NoMigration
  <2>2. (StoredVersionsCover /\ StorageListed /\ ViewsCovered)'
    BY <1>1, <1>3 DEF IInv, StoredVersionsCover, StorageListed, ViewsCovered
  <2>3. MigrationSound'
    BY <1>1, <1>3 DEF IInv, TypeOK, MigrationSound, NoMigration
  <2> QED
    BY <2>1, <2>2, <2>3 DEF IInv
<1> QED
  BY <1>2, <1>3 DEF FinishMigration

LEMMA NextIInv == IInv /\ [Next]_vars => IInv'
<1> SUFFICES ASSUME IInv, [Next]_vars PROVE IInv'
  OBVIOUS
<1>1. CASE UpdateSpec
  BY <1>1, UpdateSpecIInv
<1>2. ASSUME NEW s \in Servers, Sync(s) PROVE IInv'
  BY <1>2, SyncIInv
<1>3. ASSUME NEW s \in Servers, NEW o \in Instances, Write(s, o) PROVE IInv'
  BY <1>3, WrittenIInv DEF Write
<1>4. ASSUME NEW s \in Servers, NEW o \in Instances, Migrate(s, o) PROVE IInv'
  BY <1>4, MigrateIInv
<1>5. ASSUME NEW o \in Instances, DeleteInstance(o) PROVE IInv'
  BY <1>5, DeleteInstanceIInv
<1>6. CASE StartMigration
  BY <1>6, StartMigrationIInv
<1>7. CASE FinishMigration
  BY <1>7, FinishMigrationIInv
<1>8. CASE UNCHANGED vars
  BY <1>8 DEF vars, IInv, TypeOK, StoredVersionsCover, StorageListed, ViewsCovered, MigrationSound, View
<1> QED
  BY <1>1, <1>2, <1>3, <1>4, <1>5, <1>6, <1>7, <1>8 DEF Next

\* No object is stored in a version that its CRD no longer has or no longer lists,
\* if whoever migrates waits for the servers: strategy.go PrepareForUpdate lists
\* each storage version, and validation.go keeps the listed ones in the spec.
THEOREM StoredVersionsCovered == Spec => []StoredVersionsCover
<1>1. IInv => StoredVersionsCover
  BY DEF IInv
<1> QED
  BY InitIInv, NextIInv, <1>1, PTL DEF Spec

=============================================================================
