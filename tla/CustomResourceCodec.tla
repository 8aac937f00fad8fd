------------------------ MODULE CustomResourceCodec ------------------------
(***************************************************************************)
(* How custom resources are decoded from requests and from the store, and  *)
(* encoded for it (apiserver/customresource_handler.go).  schemas are the  *)
(* structural schemas of a CRD by version.  What may fail gives None.      *)
(***************************************************************************)
EXTENDS Defaulting

Kind == Text("Kind")

TypeMetaDecodes(u) == \A k \in Fields(u) \cap {"kind", "apiVersion"} : u.fields[k].is = "string"

VersionOf(u) == u.fields["apiVersion"].text

IsOfKind(u) == {"kind", "apiVersion"} \subseteq Fields(u) /\ u.fields["kind"] = Kind

\* The metadata that are restored, with the generation that very old objects lack.
RestoredMeta(v, repairGeneration) ==
  LET m == RoundTripMeta(v)
  IN IF repairGeneration /\ "generation" \notin Fields(m) THEN Set(m, "generation", Number(1)) ELSE m

\* unstructuredSchemaCoercer.apply, of the stored objects and of others.
Apply(u, schemas, preserveUnknownFields, stored) ==
  LET s == schemas[VersionOf(u)]
      pruned == IF preserveUnknownFields THEN u
                ELSE PruneNonNullableNullsWithoutDefaults(PruneResource(u, s), Some(s))
      coerced == IF IsOfKind(u) THEN Coerce(pruned, Some(s)) ELSE u
      restored == Fields(u) \cap metaFields
  IN IF \/ ~ TypeMetaDecodes(u)
        \/ "metadata" \in Fields(u) /\ ~ MetaDecodes(u.fields["metadata"], stored)
        \/ IsOfKind(u) /\ ~ stored /\ CoerceFails(pruned, Some(s))
     THEN None
     ELSE Some(Object([k \in Fields(coerced) \cup restored |->
                 IF k = "metadata" /\ k \in restored
                 THEN RestoredMeta(u.fields[k], stored /\ IsOfKind(u))
                 ELSE IF k \in restored THEN u.fields[k] ELSE coerced.fields[k]]))

DefaultResource(u, schemas) ==
  IF IsOfKind(u) THEN Default(u, Some(schemas[VersionOf(u)])) ELSE u

\* The body of a request.
DecodeRequest(u, schemas, preserveUnknownFields) ==
  Each(Apply(u, schemas, preserveUnknownFields, FALSE), LAMBDA x : DefaultResource(x, schemas))

\* By a CRD without a webhook: the version is set, and nothing else.
Convert(u, version) == Set(u, "apiVersion", Text(version))

\* What is stored of an object.
Encode(u, version, schemas, preserveUnknownFields) ==
  Apply(Convert(u, version), schemas, preserveUnknownFields, FALSE)

\* Of the version that is stored the defaults apply, of the one asked for the schema.
DecodeStored(u, version, schemas, preserveUnknownFields) ==
  LET decoded == Each(Apply(u, schemas, preserveUnknownFields, TRUE),
                      LAMBDA x : DefaultResource(x, schemas))
  IN IF decoded = None THEN None
     ELSE Apply(Convert(decoded[1], version), schemas, preserveUnknownFields, FALSE)

-----------------------------------------------------------------------------
(* What is written is what is read.                                        *)

\* A decoded object is stored and read as it is, and decoding it once more
\* changes nothing.
StableOnce(d, schemas) ==
  LET version == VersionOf(d)
      stored == Encode(d, version, schemas, FALSE)
  IN /\ DecodeRequest(d, schemas, FALSE) = Some(d)
     /\ stored = Some(d)
     /\ DecodeStored(d, version, schemas, FALSE) = Some(d)

=============================================================================
