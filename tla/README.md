# Verification of apiextensions-apiserver

TLA+ models of the API server that serves CustomResourceDefinitions (CRDs) and
the resources they define, TLC runs that check them on small instances, and
theorems about them that TLAPS checks. Paths below are relative to the root of
the repository.

1. [The system](#the-system)
2. [Modules](#modules)
3. [What the runs check](#what-the-runs-check)
4. [Bounds](#bounds)
5. [Fairness](#fairness)
6. [What is proved](#what-is-proved)
7. [Where the code departs from its documents](#where-the-code-departs-from-its-documents)
8. [Assumptions and abstractions](#assumptions-and-abstractions)
9. [Not modelled](#not-modelled)
10. [Plan](#plan)

## The system

A user creates a CRD: an object that names a resource (plural, singular, short
names, kind, list kind), its versions and their schemas. Controllers write what
they find into conditions of the CRD's status, and a handler serves the resource
according to these conditions. Any number of API servers run the same program
against one etcd; each has its own controllers, caches and queues, and *there is
no leader election*: every controller runs on every server. What keeps them from
harming each other is the resource version that the store checks when an object
is updated.

| component | source | state | operations |
|---|---|---|---|
| registry of CRDs | `pkg/registry/customresourcedefinition/{strategy,etcd}.go` | the stored objects | create, update, status update, two-phase delete |
| informer | client-go, configured in `pkg/apiserver/apiserver.go` | a cache per server, watch events under way | deliver, list again, resync every 5 minutes |
| naming controller | `pkg/controller/status/naming_controller.go` | work queue, mutation cache, 1 worker per server | reserve names in a group: `acceptedNames`, `NamesAccepted`, first `Established` condition |
| establishing controller | `pkg/controller/establish/establishing_controller.go` | work queue, 1 worker | set `Established`, or report an invalid CA bundle |
| finalizer | `pkg/controller/finalizer/crd_finalizer.go` | work queue, 5 workers | set `Terminating`, delete the instances, wait for them to go, remove the finalizer |
| condition controllers | `pkg/controller/{nonstructuralschema,apiapproval}` | work queue, `lastSeen` map, 5 workers each | set one condition from the schema or the annotation |
| handler of custom resources | `pkg/apiserver/customresource_handler.go` | the storage map, waiting requests | serve a request from a storage built on demand; drop stale and dead storages, tear them down; queue CRDs to establish |
| discovery controller | `pkg/apiserver/customresource_discovery_controller.go` | work queue, handlers per group and version | rebuild the discovery documents of a group version |
| OpenAPI controllers | `pkg/controller/openapi`, `pkg/controller/openapiv3` | specs per CRD or per group version, under a lock | rebuild and publish documents |
| conversion | `pkg/apiserver/conversion` | - | convert objects and lists between versions, through a webhook |
| schemas | `pkg/apiserver/schema` | - | structural schemas, pruning, defaulting, list types, object metadata |
| API types | `pkg/apis/apiextensions/{v1,v1beta1}` | - | defaults, conversions through the internal version, protobuf encoding |
| validation | `pkg/apiserver/validation`, `pkg/apis/apiextensions/validation`, `pkg/apiserver/schema/cel` | - | validate CRDs and custom resources, ratcheting, CEL rules |
| registry of custom resources | `pkg/registry/customresource` | the stored instances | generation, status and scale subresources |

How they interact: the registry's writes reach every informer as events; the
informers' handlers fill the queues of the controllers; a controller reads its
cache, decides, and sends a status update, which the store refuses when the
object has changed. The handler of custom resources reads the same cache at
every request and hears of changes after the cache has them; it also queues
CRDs for the establishing controller. The finalizer deletes instances through
the storages of the handler, which in turn refuses creates by the `Terminating`
condition the finalizer sets.

What is hard about it, and what therefore the properties are about:

- **naming**: names are checked against a cache that lags behind the writes of
  the very worker that checks; names pass from one CRD to another; the fields
  of the names are accepted one by one, in several syncs.
- **establishing**: the decision is made on a cached object, and fed by update
  events only, of which a restart or a lost watch can swallow the only one.
- **finalizing**: several servers clean up one CRD, each with failures at every
  step, while creates that were admitted earlier still arrive, while others
  hold finalizers and while the name may be taken by a new CRD.
- **serving**: a request looks a CRD up, finds or builds a storage and registers
  with it, in steps between which the CRD may be updated, deleted and created
  again, and the storage torn down.
- **conditions**: servers of different versions compute different conditions
  and must not overwrite each other for ever; what is remembered to prevent
  that can be out of date.
- **publishing**: documents are put together from what the informer says of
  several CRDs, one event at a time; what is left over from a CRD or a version
  that is gone must be found and removed.
- **versions**: an object stays in etcd in the version it was written in, and is
  decoded by a CRD that has changed since, on servers that learn of the change
  at different times; a webhook converts it and may answer anything.
- **schemas**: one schema has several readers (pruning, defaulting, validation,
  OpenAPI v2), each of which reduces it in its own way; rules that were tightened
  must not lock up what was accepted before, nor be undone by an update.
- **subresources**: an object is written through three endpoints, each of which
  overwrites a part of what it was sent with a part of what is stored.
- **API versions**: v1 says of each version what v1beta1 may say of all of
  them at once; a CRD is stored in the older one.

The list `hazards` in `PROJECT.json` gives each of these at its line.

## Modules

```
ObjectStore                     the store and the informers' caches
  CustomResourceDefinition      the CRD object and helpers.go
    CRDStorage                  the registry: user requests and status updates
      CRDWriters                the controllers as each other sees them
        NamingController        naming_controller.go in full
        EstablishingController  establishing_controller.go in full
        CRDFinalizer            crd_finalizer.go in full, with creates
  ConditionController           both condition controllers
CustomResourceHandler           the storages of customresource_handler.go
NameReservation                 abstract: a register of names per group
CRDLifecycle                    abstract: the life of a CRD

PublishedCRDs                   informer, queue and worker of the next three
  DiscoveryController           customresource_discovery_controller.go in full
  OpenAPIController             openapi/controller.go in full
  OpenAPIV3Controller           openapiv3/controller.go in full
Publishing                      these and ConditionController

JSONValues                      values and their fields
  StructuralSchema              schemas, what is valid, structural schemas
    ObjectMeta                  metadata of embedded resources
      Defaulting                pruning, defaults, and their validation
        CustomResourceCodec     decoding, storing and reading an object
        CRDValidation           which CRDs and updates of CRDs are accepted
          CRDRoundTrip          a specification on its way to the store and back
    CustomResourceValidation    validation of objects, ratcheting, list types
  CustomResourceConversion      the webhook converter
  CustomResourceStrategy        generations, statuses and scales
CRDConversion                   the specification of a CRD in v1, v1beta1, internal
CustomResource                  one object under all its subresources
StoredVersions                  status.storedVersions and the objects in etcd
ProtobufCodec                   generated.pb.go: how a message becomes bytes
ProtobufV1, ProtobufV1beta1     the messages of both versions
MCMessages, MCObjects           all of these, for TLC

MCNaming, MCEstablishing, MCFinalizer, MCPublishing      instances for TLC
CRDWriters_proofs, NamingController_proofs,
EstablishingController_proofs, CRDFinalizer_proofs,
CustomResourceHandler_proofs, Publishing_proofs,
StoredVersions_proofs, Objects_proofs                    theorems
```

### The store and its writers

**ObjectStore.** `rv` is the revision of etcd, `store` the objects by key,
`cache[s]` the indexer of server `s` and `watch[s]` the events it has yet to
receive. `Write` gives a write the next version and sends it to every watch;
`Current` is the check of the resource version; `Receive` and `List` are the
informer. It is a library of the code under study, modelled from its use.

**CustomResourceDefinition, CRDStorage.** The object with the fields that
controllers decide on, and the functions of `pkg/apihelpers/helpers.go` on
conditions and finalizers. `CreateCRD`, `UpdateSpec`, `DeleteCRD` and
`UpdateStatus` are the strategies: a create clears the status, a spec update
keeps it, a status update keeps the stored spec and everything else from the
caller, and removes an object that is being deleted and has no finalizer left.

**CRDWriters.** Because the store refuses an update of an old version, an
accepted update of a controller is one atomic step on the stored object. A
module that models one controller in detail takes the others from here, as
`Name`, `Establish`, `BeginFinalize`, `Finalize` and `RemoveFinalizer`.

**NamingController.** `queue`, `mutationCache` and `worker` (the status update
in flight) per server. `SyncDeleted`, `SyncUpToDate` and `SyncUpdate` are the
three ways through `sync` up to the request; `UpdateAccepted`, `UpdateRefused`,
`UpdateFailed` and `ResponseLost` are the answers. `View` is the lister overlaid
with the mutation cache, `Conflicts` is `equalToAcceptedOrFresh`.

**NameReservation** is what the naming controller promises: per group and name
space (resources, kinds) a register in which each CRD holds a set of names,
disjoint from that of every other. The accepted names implement it (`Held` is
the refinement mapping).

**EstablishingController.** `ToQueue` is the part of the handler that queues;
`Sync` and the four answers are the worker.

**CRDLifecycle** is what conditions promise: a CRD exists, is named, is
established only while named, is deleted, and is removed only after it was
deleted. Both controllers implement it (`Life` is the refinement mapping).

**CRDFinalizer.** A task per server and key holds the object as last returned by
the store. Its steps are those of `sync`: announce (`begin`), list, delete
namespace by namespace, poll, and the update that reports the failure (`fail`)
or removes the finalizer (`finish`). `instances` are the stored custom
resources, `requests` the creates that a server admitted by its cache and has
not carried out yet. The history field `owed` says of an instance that it was
stored while its CRD was established and not being deleted.

**ConditionController.** The two controllers are one program. A setting says
what is computed (`calculate[s]`, of a schema or an annotation by server `s`: a
constant function, for the computation is a pure one), what `lastSeen` holds
(`byGeneration`), and which disturbances there are.

### The handler and what it serves

**CustomResourceHandler.** The cache changes first and the handler is notified
later, in order. `storages` is every storage built, `customStorage` the map.
`Lookup`, `Resolve`, `Build`, `Register` and `Finish` are the steps of a
request; `HandleUpdate`, `HandleDelete` and `RemoveDeadStorage` those of the
informer's handlers (`removeDeadStorage` lists before it locks); `Close`,
`Destroy` and `Overrun` are `tearDown`.

**CustomResourceCodec, CustomResourceStrategy, CustomResource.** `DecodeRequest`, `Encode` and
`DecodeStored` are what the codec of the handler does with a request and with
the store: `Apply` prunes, drops null where a default applies or null is not
allowed, and coerces metadata; then defaults are filled in, those of a request
or those of the store. `CustomResource` has one object, its revision, and what
each client read last; `Create`, `Update`, `UpdateStatus`, `UpdateScale` and
`Remove` are the endpoints, each with its `PrepareFor...`, of
`CustomResourceStrategy`, and its validation.

**StoredVersions.** A CRD (its versions, its storage version, and
`status.storedVersions`), the version each object is stored in, and what each
server knew of the CRD when it last built its storages. `UpdateSpec` is
`PrepareForUpdate` with `ValidateStoredVersions`, `Sync` the handler's rebuild,
`Write` any write of an object. `StartMigration`, `Migrate` and
`FinishMigration` are the migration that `docs/architecture` describes.

**CustomResourceConversion.** `ObjectsToConvert` picks the objects of a list
that are sent, the checks of the response follow the code one by one, and
`FillIn` puts the answers back by an index of its own, as the code does
(`AnswerTo`, next to the `Places` of what is sent). The webhook's answer is an
input.

### Publishing

**PublishedCRDs.** The cache changes (`Informer`), and notifications are handled
later in order. Each of three modules adds what its controller keeps:
`DiscoveryController` the documents of groups and of versions and the aggregated
document, with a `syncing` between the list and the writes that are made of it;
`OpenAPIController` an object per CRD, the part built from it when a request
needs one, and the merged document; `OpenAPIV3Controller` a part per group
version and CRD and the merged document of each, which stays as it was when
parts conflict. `Publishing` runs one of them, or `ConditionController`, in
each behaviour: they share nothing but the informer.

### Schemas and API types

**JSONValues, StructuralSchema, ObjectMeta, Defaulting.** Values are tagged
(`is`), objects have fields and arrays items; a schema is a record of
`JSONSchemaProps`. `NewStructural`, `ToKubeOpenAPI`, `ToStructuralOpenAPIV2`,
`Prune`, `Default`, `PruneNonNullableNullsWithoutDefaults`, `Coerce` and
the rest are recursive operators under the names of the functions. `Valid` is
validation by the library that the code calls.

**CRDValidation.** `ValidateCreate` and `ValidateUpdate` of the internal CRD. The
checks that were added over the releases are members of `Tightened`; an update
makes those that the stored CRD passes (`UpdateOptions`). **CustomResourceValidation**
has the same for objects: `ValidateCustomResourceUpdate` follows the correlation
of old and new values of `ratcheting.go`.

**CRDConversion, CRDRoundTrip.** Three records for the three forms of a
specification, the defaults of the two external ones, and the conversions
between them. `Moved` are the fields that all versions have in common, which the
internal version has at the top. `CRDRoundTrip` adds the schemas, and validation
at its place on the way: `LosslessInV1`, `KeepsMeaning` and `VersionsIndependent`
are about the whole way of a specification from a client to the store and back.

**ProtobufCodec, ProtobufV1, ProtobufV1beta1.** The generated code repeats one
pattern per kind of field. The codec has the patterns (`Marshal` from the last
byte to the first, `Size`, `Unmarshal`); the two modules have, of each message,
its fields and the keys and sizes that its `MarshalToSizedBuffer`, `Size` and
`Unmarshal` use, each read from the function it stands for, so that a number
that differs between them would show.

Definitions whose comment begins with "As if" are mutants: variants of the
definition below them with a mistake the code could have had. No specification
uses them; `PROJECT.json` says which property each one breaks.

## What the runs check

| run | module | properties | states | shows |
|---|---|---|---|---|
| `naming` | MCNaming | `TypeOK`, `NamesUnique`, `ReservationInv`, `ReservesNames`, `NamesSettle` | 0.30 M | with one worker and answered updates no name is accepted twice, through stale caches, lost watches, restarts and failures; a name that becomes free reaches the CRD that waits for it, without the periodic resync |
| `naming_faults` | MCNaming | `ServedHasEstablishedCondition`, `ServedHasNames`, `AcceptsOnlyRequested`, `EstablishedStays` | 1.3 M | what remains true with two servers and lost responses: the version check makes every write one of an up-to-date decision, and a served CRD has what the handler reads without checking |
| `establishing` | MCEstablishing | `EstablishedHasBundle`, `FollowsLifecycle`, `AcceptedIsEstablished`, `BadBundleReported` | 0.18 M | the decision on a cached object is never stored wrongly; a CRD with accepted names is established in the end; the report of a bad bundle, which queues the CRD again, does not go on for ever |
| `finalizer` | MCFinalizer | `CleanupIsTerminating`, `CleanupComplete`, `FollowsLifecycle`, `LiveInstancesKept`, `DeletedIsRemoved` | 0.79 M | one server: no instance the cleanup is responsible for outlives its CRD, none of a CRD that is not deleted is touched, and a deleted CRD is removed in the end |
| `handler_storages` | CustomResourceHandler | `StaleIsHandled`, `NoneForgotten`, `ServedByLiveStorage`, `DrainedIsDestroyed` | 1.9 M | a storage in the map is that of the cached CRD or about to be removed; none is lost while it serves; none is destroyed while a request within its time uses it; all are destroyed in the end |
| `publishing` | MCPublishing | `PublishedConsistent`, `DiscoverySettles`, `OpenAPISettles`, `OpenAPIV3Settles`, `ConditionDescribesStored`, `ServersDoNotFight`, `ConditionSettles` | 0.48 M | a document of discovery, and what an OpenAPI controller keeps of a CRD, is right or will be synced again; all documents come to show the CRDs as they are, also after parts were in conflict; servers that word a condition differently write it at most once each for what a user wrote, and once more per fault |
| `objects` | MCObjects | `DecodeStable`, `PublishedAcceptsValid`, `RatchetingExact`, `ConversionFaithful`, `StoredIsAccepted`, `UpdatesDoNotLoosen`, `ObservedIsCurrent`, `StoredIsValid`, `StoredVersionsCover`, `WireFaithful`, `ConversionLossless` | 7352 | see below |

The run `objects` has a subject in each behaviour, of one of seven kinds:

- *schema*: a schema and all values of a small depth. What decoding makes of a
  request it leaves alone ever after (`DecodeStable`); the reduced schema that
  OpenAPI v2 publishes, by which clients validate, refuses nothing the server
  accepts (`PublishedAcceptsValid`); of an update exactly those errors are
  forgiven that are at values it did not change (`RatchetingExact`, against a
  definition that has no traversal of pairs).
- *conversion*: a list or an object to convert, and every answer of the webhook
  that is right but for one thing. Never does an object take the place or the
  identity of another, and a right answer is accepted (`ConversionFaithful`).
- *CRD*: a CRD and each update of it. What was accepted once can still be
  updated (`StoredIsAccepted`), and an update cannot turn a CRD that new rules
  accept into one that they refuse (`UpdatesDoNotLoosen`).
- *registry*: one object, its endpoints and two clients. A status that reports on
  the current generation reports on the current spec (`ObservedIsCurrent`);
  whatever the endpoint, what is stored is valid and a Scale shows what is stored
  (`StoredIsValid`).
- *migration*: a CRD whose versions change, servers that learn of it late, and
  migrations. Every object's version is one the CRD lists and has
  (`StoredVersionsCover`).
- *message*: a message of either version of the API. What is written is as long
  as it was measured and is read as what it was (`WireFaithful`).
- *specification*: a CRD as a client writes it in v1, or as an old store holds it
  in v1beta1. Accepted v1 is read back as written, and v1beta1 means the same in
  v1 (`ConversionLossless`).

Five more runs end in a counterexample: `naming_reverted`,
`finalizer_recreated`, `publishing_unserved`, `status_embedded` and
`crd_versions` (see [below](#where-the-code-departs-from-its-documents)).

## Bounds

All bounds are constants of the modules, in guards:

- `MaxUserWrites` bounds create, update and delete requests, and with them the
  resource versions. With 3 a CRD is created, updated and deleted, or two CRDs
  are created and one of them changed: the shortest histories in which a name
  passes from one CRD to another or a name is taken again. (With 4 the naming
  runs exceed eleven million states.) `naming_faults`, with two servers, has 2.
- `MaxFaults` bounds lost watches, restarts and failed requests together. One
  fault anywhere in a history is what each handler must survive; liveness is
  then claimed after the last.
- `MaxCreates` (finalizer): two creates are needed for one that is cleaned up
  and one that arrives late.
- `MaxChanges`, `MaxStorages` (handler): three changes of the cache are a CRD
  created, deleted and created again, or two CRDs of which one is updated; two
  storages are a stale one and its replacement, or one of each CRD.
- `MaxChanges` (publishing): three changes of a cache that holds two CRDs of one
  group, each with two versions or one of them, which then differs in its
  subresource; the list kind of one may be the kind of the other, or its list
  kind. A conflict
  arises in two changes and is resolved by the third.
- Two CRDs of one group compete for names, in both name spaces and across
  fields: a short name of one is the singular of the other, the list kind of one
  the kind of the other. One CRD is enough elsewhere, for the finalizer and the
  condition and establishing controllers never read another.
- Two servers are enough for two writers of one object; a third would be
  another of the same.
- The condition controllers run in two settings: from a schema, by generation,
  with deletions, lost responses and resyncs; and from the annotation, by its
  value, without them (`ConditionSettles` does not hold of the annotation when
  responses are lost, see below).
- Schemas (`objects`) have one field `f`, and at that field each kind of schema
  alone and below properties, items and additional properties, with and without
  defaults and extensions; values are those of each type with known, unknown and
  null fields, and lists of up to two. `MaxObjects`: pairs of old and new values
  are taken of schemas with fewer than 200 values.
- Lists to convert have up to three objects, of two versions: the third tells
  the first answer from the next. Answers are the right one, one too short, one
  too long, one in another order, and those with one change in one object.
- Of 438 accepted v1 specifications in 1153, some have three versions, the second
  of which differs while the first and last are equal. `VersionsIndependent` and
  `Identical` need no more. In v1beta1, 150 of 1826 are valid.
- `Int32Bits` is the width of the replicas of a Scale: two bits make the largest
  one. `MaxRevision` = 4 lets an object be created, changed by one client, and
  reported on by another.
- `MaxUpdates` = 5 (stored versions) lets the storage version change to the other
  and back with a migration between, on two servers.
- A message differs from its zero value in one field, recursively, or in all;
  one string is longer than 127 bytes, so that its length takes two.

## Fairness

- `Deliver` (WF): the reflector's goroutine delivers events; a lost watch is
  followed by a list.
- `Sync` of a key (SF in the naming and establishing controllers): one worker
  serves all keys, so a key is not enabled while the worker is busy; the queue
  is first in, first out, and so no key in it waits for ever. The finalizer and
  the condition controllers have five workers and a task per key (WF).
- `Answer` (WF): every request has a timeout.
- `Resync` (WF) where `Resyncs = TRUE`: the shared informer is started with five
  minutes (`pkg/apiserver/apiserver.go`). The naming controller does not need
  it. The other two do: the handler queues no CRD for establishing when it is
  *added* (which is all a restarted server sees), and the finalizer's filter
  drops an update in nothing but `Terminating`, also when it was that of another
  server and refused the finalizer's own.
- `Release` (WF): the owner of an instance's finalizer removes it some time.
- `Overrun` and `TearDown` (WF): time passes, and the goroutine that tears a
  storage down runs.
- In `Publishing` the informer's notifications, the start and the worker's loop
  of the controller that runs, together (WF): each handles what there is and
  then waits, and the cache stops changing. Requests for the OpenAPI v2 document
  need not come. The condition controllers have `Deliver` and `Sync` (WF) without
  `Resync`.

No fairness is assumed of users, of other controllers or of faults, and none at
all in the run `objects`.

## What is proved

For all values of the constants: any numbers of CRDs, servers, names,
namespaces, requests and storages, and any bounds.

**`CRDWriters_proofs`** has what the proofs about the three controllers share:
every action that writes is one `Write` of a typed object (`Stores`), what users
and other controllers leave alone (`Keeps`), the order of versions (`StoreInv`: a
cache is behind its events, and these are behind the store, because a write takes
a version above all others and the informer delivers in order), and that each
writer but the controller in detail keeps to `CRDLifecycle` (`WritersLife`).

**`NamingController_proofs`**, for any number of servers and any faults:

- `TypeCorrect`, and `InformerInvariant`: `InformerInv` is `StoreInv`, the same of
  the mutation cache, and that an update in flight that the store would accept was
  computed from the stored object.
- `OnlyRequestedAccepted`, `EstablishedForGood`: the action properties
  `AcceptsOnlyRequested` and `EstablishedStays` follow from it.
- `EstablishedConditionServed`: the handler finds an `Established` condition in
  every CRD it serves for its names.
- `ServedNames`: a CRD that is served has the names that the handler, and the
  controllers of documents, take for granted. The invariant `NamesInv` says of
  every copy of an object (stored, cached, in an event, in an update in flight) that
  its spec gives the required names and that those are accepted when it is served.
  Names may be accepted by different syncs, so that the proof follows each name:
  `NamesAccepted` becomes true only when none is in conflict. That a spec gives the
  required names is the part of `StorageAssumption` that stands for
  `ValidateCustomResourceDefinitionNames`.

The rest is for one worker whose updates are answered (`OneWorker`):
`ReservationInvariant`, `UniqueNames` and `ReservationImplemented`. `NamesUnique`
is not inductive: the names accepted by a sync are free only in the view of the
worker. `ReservationInv` adds that the view (cache and mutation cache) shows the
accepted names of every CRD whatever events are still to come (`ViewInv`), and
that the names an update in flight would accept are still free (`ClaimInv`). That
`OneWorker` is needed is shown in the next section.

**`EstablishingController_proofs`**, for any number of servers and any faults:
`TypeCorrect`; `BundlesCallable`, from `StoreInv` and the controller's `WorkerInv`
(an update in flight that the store would accept is what the stored object asks
for); and `ImplementsLifecycle`, the refinement of `CRDLifecycle`.

**`CRDFinalizer_proofs`**, for any number of servers and any faults unless it is
said:

- `TypeCorrect`, with the invariant `TaskInv` that every task is about the CRD of
  its key and still holds it.
- `BuiltInsUntouched`: no step deletes an instance of a resource that a built-in
  API also stores (`Overlapping`). Its invariant `BuiltInInv` says that no task of
  such a CRD comes to the steps that list, delete or poll. No run checks this one.
- `CleanupMarked` (`CleanupIsTerminating`), `NothingOutlives` (`CleanupComplete`)
  and `ImplementsLifecycle`, from `CleanupInv`. It says that every copy of an object
  is marked (`MarkedInv`); that a sync whose update the store would accept says of
  the CRD's life what is stored, and after its last poll has no instance left that
  is owed (`SyncInv`); and that an owed instance belongs to the stored CRD, which is
  established and waits for the finalizer (`OwedInv`). `CleanupComplete` alone is
  not inductive: that no instance is created behind the poll follows from the mark,
  which the handler sees in its cache, and from the order of versions.
- `OneServerKeepsInstances`: with one server `LiveInstancesKept` holds, from
  `SoleInv`: a sync that cleans up does so for the stored CRD. The run
  `finalizer_recreated` shows what two servers do.

**`CustomResourceHandler_proofs`**: `TypeCorrect`, `HandlerInvariant`, and from it
`StaleAreHandled`, `StoragesKept` and `ServedAreLive`, the three invariants of the
run `handler_storages`. `StaleIsHandled` alone is not inductive: a notification
that is handled must not have been the last that would remove the storage. The
invariant adds that the notifications are the history of the cache
(`NotificationInv`: what one brings is cached, or is what a later one takes away),
that uids are not used again (`UidInv`), and that a request holds a storage that
was built (`RequestInv`).

**`Publishing_proofs`**:

- `NothingMissed` (`PublishedConsistent`): what each of the three controllers of
  documents publishes of a CRD is what the cache prescribes, or the key will be
  taken.
  - Discovery: a sync lists the CRDs, replaces the document of the group, and later
    those of the version, from the same list, while the cache changes.
    `DiscoveryConsistent` alone is not inductive: the second step writes what the
    first one has read. `SyncInv` adds that the document of the group is that of the
    list, and that the list and the cache differ in a version of this group only if
    that version is to be synced again; also for the other versions, whose entries
    go when a group is removed. `StartInv` says that there are no documents before
    the worker starts, which begins with every version in the cache.
  - OpenAPI v2: the part of a CRD is built when a request needs it, and again only
    if its hash, of uid and generation, changed. `HashInv` says that of all versions
    of a CRD that are somewhere (cached, kept, built from) two with one hash have
    one spec, for which it needs that the cache has the last generation of each uid
    and that uids grow; `KeptInv`, that what is kept is what is cached, or the key
    will be taken.
  - OpenAPI v3: a group version is merged again only when its parts change, and not
    if they conflict. `OpenAPIV3Inv` says which parts are kept, and that they are
    published unless they conflict.
- `ConditionsDescribe` (`ConditionDescribesStored`), for any number of servers that
  compute different conditions, and any faults. `ReportInv` is `StoreInv`, that
  every copy of an object bears the name of its key, and that an update in flight
  which the store would accept was computed from the stored schema or annotation
  (`TaskInv`).
- `ServersStopFighting` (`ServersDoNotFight`): the bound on all writes, in user
  writes, servers, CRDs and faults. It counts the past, of which the state keeps no
  record; the invariant `FightInv` bounds instead the writes so far plus those that
  can still come. A pair of a server and a CRD is `Undecided` if the server has not
  had its say on the CRD as it is stored, or has been told of a deletion that will
  make it forget (`WillForget`). A user's write makes at most the pairs of its CRD
  undecided, a fault those of one server; a write of a controller takes one away,
  for by `SayInv` an update in flight that the store would accept is for what its
  server has not had a say on, and is remembered in the step after.

**`StoredVersions_proofs`**: `StoredVersionsCovered`, for any versions, servers and
objects. `StoredVersionsCover` is not inductive: a server that has not heard of
an update writes in the former storage version. The invariant adds that the
storage version is listed, that what any server still writes in is listed
(`ViewsCovered`: an update never removes a version from the list), and that while
the CRD a migration read is the current one, all servers write in its storage
version and so are all objects the migration is done with (`MigrationSound`).
The update of the status that forgets the others is refused otherwise.

**`Objects_proofs`**, about operators, for all their inputs:

`NothingIsLost` is the part of `ConversionLossless` that
does not depend on validation, which recurses over schemas. Whatever a v1
specification with any number of versions says, what is stored of it in v1beta1
is read as it was and served as it was. The argument is that a field moves to
the top exactly when every version has the same, so that it can be given back
to each (`MovedIsCommon`, `VersionKept`), and that the defaults of v1beta1 find
nothing left to do after those of v1 (`ReadAsIs`). Its hypotheses say what
validation would ensure (a scope, and review versions of a webhook) and what the
conversion drops: a webhook that says nothing, and defaults of null inside
schemas (`SchemaToV1(s) = s`).

`ConversionKeepsObjects`, `OnlyItsAnswerIsTaken` and `EachGetsItsOwn` are three of
the four parts of `Faithful`, which `ConversionFaithful` checks of short lists, for
every input (`IsInput`, which the run checks of its inputs), every answer, and every
function as the webhook. The code goes twice through the items, when it picks those
to send and when it puts the answers back, with an index of its own each time.
`PlaceInEnumeration` says that the two agree: the place of an item among those sent
is the number of such items up to it (a set of n numbers has one increasing
enumeration). `GoodAnswersAreTaken` is the fourth, with the hypothesis that each
object the webhook made could take the place of the one it was made of, which the
webhook of the run does.

`StatusIsOfItsSpec` is the step of `ObservedIsCurrent`: of what is created, updated
or reported, the status is of the spec of its generation or of a generation before
(`Reports`, which the run checks). `ObservedIsCurrent` itself also depends on the
codec, which prunes what is written by its schema, recursively. `ScaleShowsReplicas`
is the part of `StoredIsValid` about the replicas, for integers of any width.

The assumptions are those that the modules name (`ConstantsAssumption`,
`StorageAssumption`, `WritersAssumption`, `NamingAssumption`,
`EstablishingAssumption`, `FinalizerAssumption`, `HandlerAssumption`,
`PublishedAssumption`, `SettingsAssumption`, `ReportsAssumption`,
`VersionsAssumption`): types of the constants, that there are finitely many servers
and CRDs with a condition, that `NoCRD` is not a CRD, `NotStored` not a version and
`Unseen` nothing that is seen, and the required names of a spec. TLC evaluates them
in every run of these modules. The theorems about operators state what they assume.

Only model-checked:

- everything about liveness, for which TLAPS has no rule here: that names, documents
  and conditions settle, that a deleted CRD is removed, that storages are drained;
- what is defined by recursion over schemas, values or messages, of which an
  induction over data would be needed: `DecodeStable`, `PublishedAcceptsValid`,
  `RatchetingExact`, `StoredIsAccepted`, `UpdatesDoNotLoosen`, `WireFaithful`, and of
  `ObservedIsCurrent`, `StoredIsValid` and `ConversionLossless` what is not said
  above. `StructuralSchema` and all that builds on it and `ProtobufCodec` are evaluated by
  TLC only.

## Where the code departs from its documents

Five runs show it:

- `naming_reverted`. `sync` returns early when spec and accepted names are equal
  (`naming_controller.go:257`). When the names of a CRD that is not established
  conflict and the spec then returns to the names accepted before,
  `NamesAccepted` stays false for ever, and so the CRD is never served, which
  the handler's comment calls self-healing (`customresource_handler.go:288`).
- `finalizer_recreated`. `deleteInstances` works by the name of the CRD. A sync
  of a slower server that holds the former CRD deletes the instances of the one
  created since. Its resource version does not protect them: it is checked only
  by the updates before and after the deletion.
- `publishing_unserved`. The OpenAPI v3 controller builds the parts of the
  versions that a CRD serves and removes no other (`openapiv3/controller.go:166`):
  the document of a version goes on to describe a resource that is no longer
  served there, until the CRD is deleted.
- `status_embedded`. An update of the status is not checked for the metadata of
  embedded resources (`status_strategy.go:93`), which every later update of the
  object is refused for.
- `crd_versions`. A CRD may be refused for selectable fields although each of its
  versions alone would be accepted: identical selectable fields go to the top of
  the internal version while schemas that differ stay with the versions, and
  validation looks for both in one place (`validation.go:482`).

Found while modelling, without a run of their own:

- The condition controllers keep `lastSeen` by name and forget it in the delete
  handler only (`apiapproval_controller.go:179`). After a list that merges a
  deletion and a creation into one update, or when a sync remembers after the
  delete handler ran, the CRD created next under the name never gets its
  condition. `ConditionSettles` is therefore claimed of CRDs that are not
  deleted.
- `complete.go:34` looks for incomplete schemas below the root's validations only,
  where its comment (`:25`) speaks of every level.
- Defaults below `additionalProperties` are not validated
  (`defaulting/validation.go:61`), and nulls in a default that decoding drops are
  accepted in schemas that preserve unknown fields without a type. `DecodeStable`
  leaves these out (`IsSubject`).
- `openapi/v2/conversion.go:91` overwrites `changed` where it should keep it true.
- The conversion to the internal version and back drops a webhook that says nothing
  and defaults of null.
- Responses of conversion webhooks in v1beta1 are checked neither for their kind
  nor for their UID.
- `/status` updates of a CRD do not validate `storedVersions`
  (`validation.go:288`), and `docs/architecture`'s migration does not wait until
  all servers store in the new version, which `StoredVersionsCover` needs.
- Discovery prefers the served version that is highest in the order of Kubernetes,
  where `discovery-openapi.md:102` puts the storage version first; and a storage
  version need not be served, which `version-conversion.md:257` asks for.

The models also fix the limits of the properties that hold; each condition below
was found necessary by a counterexample:

- `NamesUnique` needs one naming worker in all. Two servers with caches behind
  the store accept one name for two CRDs, because the mutation cache is local.
- It also needs answered updates: one that was stored but reported as failed is
  not in the mutation cache. (`LosesResponses` in the naming module.)
- `ConditionSettles` needs answered updates too when `lastSeen` holds the
  annotation: after a lost response a value that changes back is taken for one
  already seen.
- `CleanupComplete` is about instances stored while the CRD was established. A
  CRD is served as soon as its names are accepted, and instances created before
  it is established are not deleted with it (`crd_finalizer.go:154`).
- The handler refuses creates while `Terminating` is true. After the cleanup it
  is false, and a deleted CRD that waits for the finalizer of another controller
  admits creates again.
- The kind of a CRD may change until `Established` is stored; the accepted kind
  of an established CRD can therefore still change once, when the spec was
  updated just before.
- `removeDeadStorage` lists the CRDs before it takes the lock, so that a storage
  built in between is dropped with the dead ones. The next request builds
  another: `StaleIsHandled` and `NoneForgotten` hold all the same.

## Assumptions and abstractions

- An event is put into the cache and handled by a controller in one step; the
  queues deduplicate, so the order of the two does not show. In the handler of
  custom resources, which acts on the event itself, they are two steps.
- A sync reads the cache (get and list) in one step: the naming controller's
  list may in fact be newer than its get, which only brings its view closer to
  the store.
- The mutation cache forgets nothing: its entries live for a minute and a hundred
  of them fit. A server whose informer lags by more loses the guarantee of
  `NamesUnique`.
- Retries after an error are immediate, and rate limits and the five seconds for
  which several servers delay establishing are unspecified delays.
- A restart drops the requests under way, of which the store may yet have
  committed one; this is `ResponseLost` followed by `Restart`.
- The condition's message is the set of names in conflict; transition times and
  wording are left out, and so are categories, which are copied unchecked.
- A request to delete reads the CRD and updates it in one step, which may also
  find it already deleting: two of them may overlap, and the second resets
  `Terminating`. The resource version that a second, later request leaves is
  not modelled.
- In the modules of controllers, validation of CRDs is two rules: an established
  CRD keeps its kind, and a valid CA bundle stays valid. `CRDValidation` has the
  others.
- For the establishing controller the conversion webhook is one bit, whether its CA
  bundle is valid.
- One instance per namespace. Users do not delete instances, and the generic
  registry deletes one at once unless it has a finalizer.
- Polling for instances times out after a minute. Where only the owner of a
  finalizer can hold it up the timeout counts as a fault; where an instance is
  left that nobody deletes it comes without one.
- In the handler module the cache changes from any CRD to any other, more than
  the controllers ever do. That a served CRD has names, which it assumes, is
  `ServedHasNames` of the naming module.
- `tearDown` waits for the registered requests or twice the request timeout;
  `Overrun` is a request that outlasts that. Watches, which are not registered,
  and the shutdown of the server are left out.
- A storage is built in one step, under the lock.
- For the condition controllers a deletion with its finalization is one write.
- The publishing controllers see a CRD as versions, what it serves and stores, the
  versions with a status subresource, a list kind, and whether it is established
  and terminating; that is all their documents depend on here.
- The content of an OpenAPI part is the CRD it was built from; a hash is that of
  what is hashed, and does not collide.
- Lists of versions for the documents are numbered by their priority.
- Formats, patterns, lengths and numeric limits of schemas are one enumeration.
  Three fields stand for the metadata of objects: one that is text, one that is
  an object of texts, one that is a number.
- The list of a webhook's answers is any; its transport is a request that answers
  or fails.
- A refused write of a custom resource has no effect but that its client reads
  again: it is no step.
- An object is stored and read in one version in `CustomResource`; `StoredVersions`
  has the versions without the content.
- A migration waits until every server's handler has the current CRD, and nobody
  else updates `status.storedVersions`.
- Doubles are their eight bytes, messages of other packages their encoding; a map
  is written in the order of its keys.

## Not modelled

- CEL rules: compiled, costed and evaluated by a library.
- The paths and parameters that the OpenAPI builder writes for each operation: one
  document translated to another, without a state.
- Watches, tables, server-side apply and the shutdown of the server in the handler
  of custom resources; warnings and the dropping of disabled fields in the
  registry of CRDs.
- The defaults of names and of a service's port, the JSON form of the helper types
  of schemas, deep copies; of protobuf, what a reader does with bytes that no
  writer of this code wrote.
- Validation of names, of the content of columns and of the number of selectable
  fields.
- Clients, informers and listers beyond what `ObjectStore` and `PublishedCRDs` say
  of them: generated. Schemes, feature gates, flags and start-up: tables.

Two hazards have no property of a run: the storage that a CRD shares with a
built-in resource, about which there is the theorem `BuiltInsUntouched`, and the
subresources of a request, which the handler decides from the CRD it looked up
first while the storage may be of a later one (`customresource_handler.go:337`).

## Plan

The modules are written, and every safety property of the runs that is within reach
of the provers is a theorem. What may be added is the composition of
`StatusIsOfItsSpec` with the codec, for schemas that keep a status and a spec as they
are: that needs first a definition of such schemas that does not recurse.
