----------------------- MODULE CustomResourceStrategy -----------------------
(***************************************************************************)
(* What the registry makes of a custom resource that is written: to the     *)
(* object, to its status or to its scale (registry/customresource).        *)
(***************************************************************************)
EXTENDS JSONValues

CONSTANTS StatusEnabled, ScaleEnabled,   \* the subresources of the CRD
          Int32Bits                      \* the width of the int32 of a Scale

-----------------------------------------------------------------------------
(* Objects.                                                                *)

At(u, f) == IF u.is = "object" /\ f \in Fields(u) THEN Some(u.fields[f]) ELSE None

Nested(u, f, g) == IF At(u, f) = None THEN None ELSE At(At(u, f)[1], g)

Put(u, f, x) == IF x = None THEN Delete(u, {f}) ELSE Set(u, f, x[1])

Generation(u) ==
  LET g == Nested(u, "metadata", "generation") IN IF g = None THEN 0 ELSE g[1].number

WithGeneration(u, n) ==
  Set(u, "metadata", Set(u.fields["metadata"], "generation", Number(n)))

-----------------------------------------------------------------------------
(* Scale.                                                                  *)

Int32(n) == LET m == 2 ^ (Int32Bits - 1) IN ((n + m) % (2 * m)) - m

MaxInt32 == 2 ^ (Int32Bits - 1) - 1

Replicas(u, f) ==
  LET r == Nested(u, f, "replicas") IN IF r = None THEN 0 ELSE r[1].number

\* scaleFromCustomResource.
ScaleOf(u) ==
  [ replicas |-> Int32(Replicas(u, "spec")), status |-> Int32(Replicas(u, "status")),
    found |-> Nested(u, "spec", "replicas") # None ]

\* As if an int32 held every integer.
IntegerReplicas(u, f) ==
  \A r \in Elements(Nested(u, f, "replicas")) : r.is = "integer" /\ r.number >= 0

ValidReplicas(u, f) ==
  \A r \in Elements(Nested(u, f, "replicas")) : r.is = "integer" /\ r.number \in 0 .. MaxInt32

ValidateScaleSpec(u) == ScaleEnabled => ValidReplicas(u, "spec")

ValidateScaleStatus(u) == ScaleEnabled => ValidReplicas(u, "status")

\* scaleUpdatedObjectInfo.UpdatedObject: the object with the replicas of a Scale.
Scaled(u, n) ==
  LET spec == IF At(u, "spec") = None THEN Object(NoFields) ELSE u.fields["spec"]
  IN Set(u, "spec", Set(spec, "replicas", Number(n)))

-----------------------------------------------------------------------------
(* The strategies of the object and of its status.                         *)

PrepareForCreate(u) ==
  WithGeneration(IF StatusEnabled THEN Delete(u, {"status"}) ELSE u, 1)

NonMetadata(u) == Delete(u, {"metadata"})

\* The registry has set the generation to that of the old object before.
PrepareForUpdate(new, old) ==
  LET same == WithGeneration(new, Generation(old))
      u == IF StatusEnabled THEN Put(same, "status", At(old, "status")) ELSE same
  IN IF NonMetadata(u) = NonMetadata(old) THEN u ELSE WithGeneration(u, Generation(old) + 1)

\* As if a write of the status wrote the object.
PrepareForObjectUpdate(new, old) == new

PrepareForStatusUpdate(new, old) == Put(old, "status", At(new, "status"))

\* The status that a controller reports: of what it read.
Reported(u, status) ==
  Set(Set(status, "observedGeneration", Number(Generation(u))), "of", u.fields["spec"])

-----------------------------------------------------------------------------

\* A status that reports on the generation of an object is a status of its spec.
Observed(u) ==
  Nested(u, "status", "observedGeneration") = Some(Number(Generation(u)))
    => Nested(u, "status", "of") = At(u, "spec")

\* No status reports on a generation that is to come.
NotAhead(u) ==
  Elements(Nested(u, "status", "observedGeneration")) \subseteq {Number(n) : n \in 0 .. Generation(u)}

\* A status is of the spec of its generation, or of one before.
Reports(u) == Observed(u) /\ NotAhead(u)

=============================================================================
