--------------------------- MODULE CRDValidation ---------------------------
(***************************************************************************)
(* Which CRDs are accepted (apis/apiextensions/validation).  What was       *)
(* tightened over the releases is asked of an update only if the CRD that  *)
(* it replaces satisfies it already: options is the set of the checks that *)
(* are made.                                                               *)
(***************************************************************************)
EXTENDS Defaulting

Types == {"array", "boolean", "integer", "number", "object", "string"}

Tightened ==
  {"OpenAPISchema", "ValidPropertyType", "StructuralSchema", "PrunedDefaults",
   "AtomicSetType", "MapListKeysMapSetValidation"}

-----------------------------------------------------------------------------
(* Schemas.                                                                *)

RECURSIVE Within(_)
Within(p) == {p} \cup UNION {Within(q) : q \in SubSchemas(p)}

SchemaHas(p, Pred(_)) == \E q \in Within(p) : Pred(q)

HasDefault(p) == p.default # None

HasKubernetesExtension(p) ==
  p.embedded \/ p.preserve \/ p.intOrString \/ p.keys # <<>> \/ p.listType # ""

HasInvalidType(p) == p.type \notin Types \cup {""}

SchemaIsNonStructural(p) == ~ Convertible(p) \/ ~ ValidateStructural(NewStructural(p))

SchemaHasUnprunedDefaults(p) ==
  /\ SchemaHas(p, HasDefault)
  /\ ~ SchemaIsNonStructural(p)
  /\ PruneDefaults(NewStructural(p)) # NewStructural(p)

\* The items of a set are atomic.
IsNonAtomicSet(p) ==
  /\ p.listType = "set"
  /\ \E x \in Elements(p.items) :
       \/ x.type = "array" /\ x.listType \notin {"", "atomic"}
       \/ x.type = "object" /\ x.mapType # "atomic"

\* The items of sets and maps are not null, the keys of maps always there.
IsInvalidMapListKeysMapSet(p) ==
  /\ p.listType \in {"set", "map"}
  /\ \E x \in Elements(p.items) :
       \/ x.nullable
       \/ /\ p.listType = "map"
          /\ \E k \in Elements(p.keys) \cap DOMAIN x.properties :
               \/ k \notin x.required /\ x.properties[k].default = None
               \/ x.properties[k].nullable

ListMapAllowed(p) ==
  /\ p.keys # <<>>
  /\ \A i, j \in DOMAIN p.keys : p.keys[i] = p.keys[j] => i = j
  /\ \E x \in Elements(p.items) :
       /\ x.type = "object"
       /\ \A k \in Elements(p.keys) :
            k \in DOMAIN x.properties /\ x.properties[k].type \notin {"array", "object"}

\* What is inherited by the schemas inside of one: whether defaults are allowed,
\* and whether these are the metadata of a resource.
OfRoot == [defaults |-> TRUE, insideMeta |-> FALSE]

InsideProperty(place, p, k, isRoot) ==
  LET meta == (isRoot \/ p.embedded) /\ k \in metaFields
  IN [defaults |-> place.defaults /\ ~ (meta /\ isRoot), insideMeta |-> place.insideMeta \/ meta]

InsideAdditionalProperties(place) == [place EXCEPT !.defaults = @ /\ ~ place.insideMeta]

RECURSIVE ValidateOpenAPISchema(_, _, _, _)
ValidateOpenAPISchema(p, place, isRoot, options) ==
  /\ ~ p.unsupported
  /\ "ValidPropertyType" \in options => ~ HasInvalidType(p)
  /\ p.type # "null"
  /\ p.default # None => place.defaults
  /\ place.insideMeta => ~ p.embedded
  /\ p.additional # None /\ p.properties # NoFields => p.additional = Some(SchemaOrBool(TRUE, None))
  /\ p.mapType # "" => p.type = "object" /\ p.mapType \in {"atomic", "granular"}
  /\ p.listType # "" => p.type = "array" /\ p.listType \in {"atomic", "set", "map"}
  /\ p.keys # <<>> => p.listType = "map"
  /\ p.listType = "map" => ListMapAllowed(p)
  /\ "AtomicSetType" \in options => ~ IsNonAtomicSet(p)
  /\ "MapListKeysMapSetValidation" \in options => ~ IsInvalidMapListKeysMapSet(p)
  /\ \A x \in Elements(p.additional) : \A q \in Elements(x.schema) :
       ValidateOpenAPISchema(q, InsideAdditionalProperties(place), FALSE, options)
  /\ \A k \in DOMAIN p.properties :
       ValidateOpenAPISchema(p.properties[k], InsideProperty(place, p, k, isRoot), FALSE, options)
  /\ \A q \in UNION {Elements(f) : f \in {p.items, p.not, p.allOf, p.anyOf, p.oneOf}} :
       ValidateOpenAPISchema(q, place, FALSE, options)

\* At the root there is only what the schema of the status can be told apart from.
AllowedAtRoot(p) ==
  /\ p.type \in {"", "object"}
  /\ p = [ JSONSchemaProps EXCEPT !.type = p.type, !.required = p.required, !.items = p.items,
             !.properties = p.properties, !.preserve = p.preserve ]

ValidateSchema(p, statusEnabled, options) ==
  /\ statusEnabled => AllowedAtRoot(p)
  /\ ~ p.nullable
  /\ "StructuralSchema" \in options =>
       /\ ~ SchemaIsNonStructural(p)
       /\ ValidateDefaults(NewStructural(p), "PrunedDefaults" \in options)
  /\ ValidateOpenAPISchema(p, OfRoot, TRUE, options)

-----------------------------------------------------------------------------
(* Specifications.  The schema and the subresources are those of all        *)
(* versions, or each version has its own.  A CRD here is                    *)
(* [spec, established, protected, approval], with a spec of                 *)
(* [preserve, scope, kind, version, versions, conversion] and the fields    *)
(* [validation, subresources, columns, selectable] of all versions.  The    *)
(* selectable fields are those at the root of a schema that paths name.    *)

SchemasOf(spec) ==
  Elements(spec.validation) \cup UNION {Elements(v.schema) : v \in Elements(spec.versions)}

SpecHas(spec, Pred(_)) == \E p \in SchemasOf(spec) : SchemaHas(p, Pred)

AllVersionsSpecifySchema(spec) ==
  spec.validation # None \/ \A v \in Elements(spec.versions) : v.schema # None

HasPerVersion(versions, field) == \E v \in Elements(versions) : v[field] # None

HasIdenticalPerVersion(versions, field) ==
  /\ versions # <<>>
  /\ \A v \in Elements(versions) : v[field] # None /\ v[field] = versions[1][field]

SubresourcesForVersion(spec, v) ==
  IF HasPerVersion(spec.versions, "subresources") THEN v.subresources ELSE spec.subresources

HasStatusEnabled(subresources) == \E x \in Elements(subresources) : x.status

HasAnyStatusEnabled(spec) ==
  \E x \in {spec} \cup Elements(spec.versions) : HasStatusEnabled(x.subresources)

Preserves(spec) == spec.preserve = Some(TRUE)

\* Pruning, defaults and extensions are for structural schemas only.
OptionsFor(spec, options) ==
  IF \/ ~ Preserves(spec)
     \/ SpecHas(spec, HasDefault) \/ SpecHas(spec, HasKubernetesExtension)
  THEN options \cup {"StructuralSchema"} ELSE options

ReviewVersions == {"v1", "v1beta1"}

\* A URL or service of the webhook is not told apart from another.
ValidateConversion(c, options) ==
  IF c.strategy = "Webhook"
  THEN /\ c.webhook # None
       /\ "ValidCABundle" \in options => c.webhook[1].caBundle # "invalid"
       /\ c.reviewVersions # <<>>
       /\ \A i, j \in DOMAIN c.reviewVersions : c.reviewVersions[i] = c.reviewVersions[j] => i = j
       /\ "RecognizedReviewVersion" \in options => Elements(c.reviewVersions) \cap ReviewVersions # {}
  ELSE c.webhook = None /\ c.reviewVersions = <<>>

ValidateSelectableFields(selectable, schema) ==
  selectable # <<>> =>
    \E p \in Elements(schema) :
      /\ Convertible(p)
      /\ \A k \in Elements(selectable) :
           k # "metadata" /\ k \in DOMAIN p.properties
             /\ p.properties[k].type \in {"string", "boolean", "integer"}
      /\ \A i, j \in DOMAIN selectable : selectable[i] = selectable[j] => i = j

ValidateSpec(spec, given) ==
  LET options == OptionsFor(spec, given)
      versions == spec.versions
  IN /\ "OpenAPISchema" \in options => AllVersionsSpecifySchema(spec)
     /\ ~ Preserves(spec) =>
          \/ spec.validation # None
          \/ \A v \in Elements(versions) : v.served => v.schema # None
     /\ SpecHas(spec, HasDefault) => spec.preserve = Some(FALSE)
     /\ Cardinality({i \in DOMAIN versions : versions[i].storage}) = 1
     /\ \A i, j \in DOMAIN versions : versions[i].name = versions[j].name => i = j
     /\ \A v \in Elements(versions) : \A p \in Elements(v.schema) :
          ValidateSchema(p, HasStatusEnabled(SubresourcesForVersion(spec, v)), options)
     /\ spec.version # None /\ versions # <<>> => versions[1].name = spec.version[1]
     /\ \A field \in {"schema", "subresources", "columns"} :
          /\ ~ HasIdenticalPerVersion(versions, field)
          /\ HasPerVersion(versions, field)
               => spec[IF field = "schema" THEN "validation" ELSE field] = None
     /\ \A v \in Elements(versions) : ValidateSelectableFields(v.selectable, v.schema)
     /\ ValidateSelectableFields(spec.selectable, spec.validation)
     /\ \A p \in Elements(spec.validation) : ValidateSchema(p, HasAnyStatusEnabled(spec), options)
     /\ \A c \in Elements(spec.conversion) :
          /\ c.strategy # "None" => spec.preserve = Some(FALSE)
          /\ ValidateConversion(c, options)

-----------------------------------------------------------------------------
(* Creation and update.                                                    *)

Approved == {"approved", "bypassed"}

ValidateCreate(crd) ==
  /\ ValidateSpec(crd.spec, Tightened \cup {"RecognizedReviewVersion"})
  /\ crd.protected => crd.approval \in Approved
  /\ ~ Preserves(crd.spec)

\* The checks that the old CRD passes, where they are not made in any case.
AllowInvalidCABundle(old) ==
  ~ old.established
    \/ \E c \in Elements(old.spec.conversion) : \E w \in Elements(c.webhook) : w.caBundle = "invalid"

RequireRecognizedReviewVersion(spec) ==
  \A c \in Elements(spec.conversion) :
    c.reviewVersions # <<>> => Elements(c.reviewVersions) \cap ReviewVersions # {}

Required(option, old) ==
  LET spec == old.spec
  IN CASE option = "OpenAPISchema" -> AllVersionsSpecifySchema(spec)
       [] option = "ValidPropertyType" -> ~ SpecHas(spec, HasInvalidType)
       [] option = "StructuralSchema" -> ~ \E p \in SchemasOf(spec) : SchemaIsNonStructural(p)
       [] option = "PrunedDefaults" -> ~ \E p \in SchemasOf(spec) : SchemaHasUnprunedDefaults(p)
       [] option = "AtomicSetType" -> ~ SpecHas(spec, IsNonAtomicSet)
       [] option = "MapListKeysMapSetValidation" -> ~ SpecHas(spec, IsInvalidMapListKeysMapSet)
       [] option = "RecognizedReviewVersion" -> RequireRecognizedReviewVersion(spec)
       [] option = "ValidCABundle" -> ~ AllowInvalidCABundle(old)

\* As if a check had been added without regard to the CRDs that are stored.
UpdateOptionsTightened(old) ==
  {option \in Tightened : Required(option, old)} \cup {"AtomicSetType"}

\* As if a check were made of new CRDs only.
UpdateOptionsUntyped(old) ==
  {option \in Tightened \ {"ValidPropertyType"} : Required(option, old)}

UpdateOptions(old) ==
  {option \in Tightened \cup {"RecognizedReviewVersion", "ValidCABundle"} : Required(option, old)}

ValidateUpdate(new, old) ==
  /\ ValidateSpec(new.spec, UpdateOptions(old))
  /\ old.established => new.spec.scope = old.spec.scope /\ new.spec.kind = old.spec.kind
  /\ new.protected = old.protected
  /\ new.protected /\ new.approval # old.approval => new.approval \in Approved
  /\ ~ Preserves(old.spec) => ~ Preserves(new.spec)

-----------------------------------------------------------------------------

\* What was accepted before any of the checks was made, and is now stored, may be
\* written back unchanged, and so may what is accepted by the checks of any update:
\* "don't tighten validation on existing persisted data" (validation.go:1599).
UnchangedIsAccepted(crd) == ValidateSpec(crd.spec, {}) => ValidateUpdate(crd, crd)

\* No update of a CRD that could be created makes it one that could not be
\* (strategy.go ValidateUpdate): what is let pass for the sake of old CRDs is not
\* let pass in others.
NoLoosening(new, old) == ValidateCreate(old) /\ ValidateUpdate(new, old) => ValidateCreate(new)

=============================================================================
