--------------------------- MODULE CustomResource ---------------------------
(***************************************************************************)
(* One custom resource in the registry (registry/customresource): what the *)
(* endpoints of the object, of its status and of its scale make of what    *)
(* clients write.  Clients write what they have read, changed; a write is  *)
(* refused if the object changed since.                                    *)
(***************************************************************************)
EXTENDS CustomResourceCodec, CustomResourceValidation, CustomResourceStrategy

CONSTANTS Clients,
          Schema,          \* the schema of the CRD, of JSONSchemaProps
          Specs, Statuses, \* what clients write
          MaxRevision      \* bound of the model

VARIABLES stored,    \* the object in the store, decoded, or None
          revision,  \* of the store
          copies     \* what each client has read: the object, and its revision

vars == <<stored, revision, copies>>

Version == "v1"
Schemas == [v \in {Version} |-> NewStructural(Schema)]
S == Schemas[Version]

-----------------------------------------------------------------------------
(* Validation.                                                             *)

Validate(u) ==
  /\ IsOfKind(u)
  /\ Valid(Schema, u)
  /\ ValidateScaleSpec(u) /\ ValidateScaleStatus(u)
  /\ MetaValid(u, Some(S))
  /\ ValidListSetsAndMaps(u, S)

ValidateUpdate(new, old) ==
  /\ IsOfKind(new)
  /\ ValidateCustomResourceUpdate(Schema, new, old)
  /\ ValidateScaleSpec(new) /\ ValidateScaleStatus(new)
  /\ MetaValid(new, Some(S))
  /\ ValidListSetsAndMaps(old, S) => ValidListSetsAndMaps(new, S)

StatusSchema ==
  IF "status" \in DOMAIN Schema.properties THEN Schema.properties["status"] ELSE JSONSchemaProps

ValidateStatusUpdate(new, old) ==
  /\ \A x \in Elements(At(new, "status")) : ValidUpdate(StatusSchema, x, At(old, "status"), TRUE)
  /\ ValidateScaleStatus(new)
  /\ ValidListSetsAndMaps(old, S) => ValidListSetsAndMaps(new, S)

-----------------------------------------------------------------------------
(* The endpoints.                                                          *)

Init == stored = None /\ revision = 0 /\ copies = [c \in Clients |-> None]

\* What is written is encoded, and decoded when it is read.
Store(u) ==
  LET encoded == Encode(u, Version, Schemas, FALSE)
      decoded == DecodeStored(encoded[1], Version, Schemas, FALSE)
  IN /\ encoded # None /\ decoded # None
     /\ stored' = decoded
     /\ IF decoded = stored THEN revision' = revision
        ELSE revision < MaxRevision /\ revision' = revision + 1

Read(c) ==
  /\ stored # None
  /\ copies' = [copies EXCEPT ![c] = Some([object |-> stored[1], revision |-> revision])]
  /\ UNCHANGED <<stored, revision>>

Blank(spec, status) ==
  Object([k \in {"apiVersion", "kind", "metadata", "spec", "status"} |->
    CASE k = "apiVersion" -> Text(Version) [] k = "kind" -> Kind
      [] k = "metadata" -> Object(NoFields) [] k = "spec" -> spec [] k = "status" -> status])

\* A write has no more effect than that the client has to read once more if it
\* is refused: only what is accepted is a step.
Create(c) ==
  /\ stored = None
  /\ \E spec \in Specs, status \in Statuses :
       \E u \in Elements(DecodeRequest(Blank(spec, status), Schemas, FALSE)) :
         Validate(PrepareForCreate(u)) /\ Store(PrepareForCreate(u))
  /\ UNCHANGED copies

Current(c) == stored # None /\ copies[c] # None /\ copies[c][1].revision = revision

Update(c) ==
  /\ Current(c)
  /\ \E spec \in Specs, status \in Statuses :
       \E new \in Elements(DecodeRequest(
                    Set(Set(copies[c][1].object, "spec", spec), "status", status), Schemas, FALSE)) :
         LET u == PrepareForUpdate(new, stored[1])
         IN ValidateUpdate(u, stored[1]) /\ Store(u)
  /\ UNCHANGED copies

\* A controller may have changed its copy otherwise.
UpdateStatus(c) ==
  /\ StatusEnabled /\ Current(c)
  /\ \E spec \in Specs, status \in Statuses :
       \E new \in Elements(DecodeRequest(
                    Set(Set(copies[c][1].object, "spec", spec),
                        "status", Reported(copies[c][1].object, status)), Schemas, FALSE)) :
         LET u == PrepareForStatusUpdate(new, stored[1])
         IN ValidateStatusUpdate(u, stored[1]) /\ Store(u)
  /\ UNCHANGED copies

\* Without a copy read before: a patch of the scale.
UpdateScale(c) ==
  /\ ScaleEnabled /\ stored # None
  /\ \E n \in 0 .. MaxInt32 :
       LET u == PrepareForUpdate(Scaled(stored[1], n), stored[1])
       IN ValidateUpdate(u, stored[1]) /\ Store(u)
  /\ UNCHANGED copies

Remove(c) ==
  /\ stored # None /\ revision < MaxRevision
  /\ stored' = None /\ revision' = revision + 1
  /\ UNCHANGED copies

Next ==
  \E c \in Clients :
    Read(c) \/ Create(c) \/ Update(c) \/ UpdateStatus(c) \/ UpdateScale(c) \/ Remove(c)

-----------------------------------------------------------------------------

\* A status that reports on the generation of an object is a status of its spec, and none
\* reports on a generation to come:
\* no interleaving of writes to the object, its status and its scale, nor of its
\* deletion and creation, lets a change of the spec pass without a generation of
\* its own (strategy.go PrepareForUpdate, status_strategy.go PrepareForUpdate).
ObservedIsCurrent ==
  stored # None /\ StatusEnabled => Reports(stored[1])

\* What is stored is valid, whichever endpoints it came through: by its schema,
\* the uniqueness of its lists, and the range of its replicas, so that a Scale
\* shows the replicas that are stored (validator.go, etcd.go scaleFromCustomResource).
StoredIsValid ==
  \A u \in Elements(stored) :
    /\ Valid(Schema, u)
    /\ ValidListSetsAndMaps(u, S)
    /\ ScaleEnabled =>
         ScaleOf(u).replicas = Replicas(u, "spec") /\ ScaleOf(u).status = Replicas(u, "status")

\* The resources embedded in what is stored have a type and valid metadata, wherever
\* they are (types_jsonschema.go XEmbeddedResource).
EmbeddedAreValid == \A u \in Elements(stored) : MetaValid(u, Some(S))

=============================================================================
