-------------------------- MODULE StructuralSchema --------------------------
(***************************************************************************)
(* The schemas of CRDs (JSONSchemaProps), and what it means for a value to *)
(* be valid: as a library, kube-openapi, decides.  The structural schemas  *)
(* of custom resources (apiserver/schema): those of CRDs converted,        *)
(* checked, converted back, and reduced to what OpenAPI v2 can express.    *)
(***************************************************************************)
EXTENDS JSONValues

-----------------------------------------------------------------------------
(* JSONSchemaProps, of which a schema sets some fields with EXCEPT.  The    *)
(* numeric and textual bounds are represented by enum; unsupported stands  *)
(* for the fields that no structural schema may have.                      *)

JSONSchemaProps ==
  [ type |-> "", nullable |-> FALSE, default |-> None,
    properties |-> NoFields, items |-> None, additional |-> None,
    preserve |-> FALSE, embedded |-> FALSE, intOrString |-> FALSE,
    listType |-> "", keys |-> <<>>, mapType |-> "",
    required |-> {}, enum |-> {}, not |-> None,
    allOf |-> <<>>, anyOf |-> <<>>, oneOf |-> <<>>, unsupported |-> FALSE ]

\* additionalProperties: a schema, or a Boolean.
SchemaOrBool(bool, schema) == [bool |-> bool, schema |-> schema]

-----------------------------------------------------------------------------
(* Validation.                                                             *)

HasType(s, v) ==
  \/ s.type = "" /\ ~ s.intOrString
  \/ s.type = v.is
  \/ s.nullable /\ v = Null
  \/ s.intOrString /\ v.is \in {"integer", "string"}

RECURSIVE Valid(_, _)

ValidFields(s, v) ==
  /\ s.required \subseteq Fields(v)
  /\ \A k \in Fields(v) :
       IF k \in DOMAIN s.properties THEN Valid(s.properties[k], v.fields[k])
       ELSE \A x \in Elements(s.additional) :
              x.bool /\ \A y \in Elements(x.schema) : Valid(y, v.fields[k])

\* Of null only the type and the enum are checked.
Valid(s, v) ==
  /\ HasType(s, v)
  /\ s.enum # {} => v \in s.enum
  /\ v # Null =>
       /\ v.is = "object" => ValidFields(s, v)
       /\ v.is = "array" => \A x \in Elements(s.items) : \A y \in Elements(v.items) : Valid(x, y)
       /\ \A x \in Elements(s.not) : ~ Valid(x, v)
       /\ \A x \in Elements(s.allOf) : Valid(x, v)
       /\ s.anyOf # <<>> => \E x \in Elements(s.anyOf) : Valid(x, v)
       /\ s.oneOf # <<>> => Cardinality({i \in DOMAIN s.oneOf : Valid(s.oneOf[i], v)}) = 1

-----------------------------------------------------------------------------
(* Structural schemas.                                                     *)

Generic(p) == [type |-> p.type, nullable |-> p.nullable, default |-> p.default]

Extensions(p) ==
  [preserve |-> p.preserve, embedded |-> p.embedded, intOrString |-> p.intOrString,
   listType |-> p.listType, keys |-> p.keys, mapType |-> p.mapType]

\* The schemas that a schema is directly made of.
SubSchemas(p) ==
  UNION {Elements(q) : q \in {p.properties, p.items, p.not, p.allOf, p.anyOf, p.oneOf}}
    \cup UNION {Elements(x.schema) : x \in Elements(p.additional)}

\* Whether NewStructural returns no error.
RECURSIVE Convertible(_)
Convertible(p) == ~ p.unsupported /\ \A q \in SubSchemas(p) : Convertible(q)

\* Schemas below logical junctors validate values and do not specify fields.
RECURSIVE NewNestedValueValidation(_)

NewValueValidation(p) ==
  [ required |-> p.required, enum |-> p.enum,
    not |-> Each(p.not, NewNestedValueValidation),
    allOf |-> Each(p.allOf, NewNestedValueValidation),
    anyOf |-> Each(p.anyOf, NewNestedValueValidation),
    oneOf |-> Each(p.oneOf, NewNestedValueValidation) ]

NewNestedValueValidation(p) ==
  [ generic |-> Generic(p), extensions |-> Extensions(p), validation |-> NewValueValidation(p),
    items |-> Each(p.items, NewNestedValueValidation),
    properties |-> Each(p.properties, NewNestedValueValidation),
    additional |->
      IF p.additional = None THEN None
      ELSE IF p.additional[1].schema # None THEN Each(p.additional[1].schema, NewNestedValueValidation)
      ELSE IF p.additional[1].bool THEN Some(NewNestedValueValidation(JSONSchemaProps))
      ELSE None ]

RECURSIVE NewStructural(_)
NewStructural(p) ==
  [ generic |-> Generic(p), extensions |-> Extensions(p), validation |-> NewValueValidation(p),
    items |-> Each(p.items, NewStructural),
    properties |-> Each(p.properties, NewStructural),
    additional |->
      Each(p.additional,
           LAMBDA x : [ bool |-> x.schema # None \/ x.bool,
                        structural |-> Each(x.schema, NewStructural) ]) ]

NoValidation == NewValueValidation(JSONSchemaProps)

-----------------------------------------------------------------------------
(* ValidateStructural.                                                     *)

IntOrStringAnyOf ==
  Each(<<"integer", "string">>,
       LAMBDA t : NewNestedValueValidation([JSONSchemaProps EXCEPT !.type = t]))

IsIntOrStringAnyOf(s) == s.validation.anyOf = IntOrStringAnyOf

IsIntOrStringAllOf(s) ==
  s.validation.allOf # <<>> /\ s.validation.allOf[1].validation.anyOf = IntOrStringAnyOf

RECURSIVE NestedAllowed(_, _)

ValidationAllowed(v, skipAnyOf, skipFirstAllOfAnyOf) ==
  /\ skipAnyOf \/ \A x \in Elements(v.anyOf) : NestedAllowed(x, FALSE)
  /\ \A i \in DOMAIN v.allOf : NestedAllowed(v.allOf[i], skipFirstAllOfAnyOf /\ i = 1)
  /\ \A x \in Elements(v.oneOf) \cup Elements(v.not) : NestedAllowed(x, FALSE)

NestedAllowed(v, skipAnyOf) ==
  /\ ValidationAllowed(v.validation, skipAnyOf, FALSE)
  /\ \A x \in Elements(v.items) \cup Elements(v.properties) : NestedAllowed(x, FALSE)
  /\ v.generic = Generic(JSONSchemaProps)
  /\ v.extensions = Extensions(JSONSchemaProps)
  /\ v.additional = None
  /\ "metadata" \notin DOMAIN v.properties

\* The metadata of a resource may be restricted in its name, and not otherwise.
RootMetadataAllowed(s) ==
  /\ DOMAIN s.properties \subseteq {"name", "generateName"}
  /\ [s EXCEPT !.properties = NoFields, !.generic.type = "", !.generic.default = None]
       = NewStructural(JSONSchemaProps)

MetadataAllowed(s, level) ==
  LET checked == level = "root" \/ s.extensions.embedded
      types == [kind |-> "string", apiVersion |-> "string", metadata |-> "object"]
  IN /\ \A k \in DOMAIN s.properties \cap DOMAIN types :
          checked => s.properties[k].generic.type = types[k]
     /\ level = "root" /\ "metadata" \in DOMAIN s.properties
          => RootMetadataAllowed(s.properties["metadata"])

RECURSIVE InvariantsHold(_, _)
InvariantsHold(s, level) ==
  LET type == s.generic.type
      x == s.extensions
  IN /\ type = "array" => s.items # None
     /\ \A y \in Elements(s.items) : InvariantsHold(y, "item")
     /\ \A y \in Elements(s.properties) : InvariantsHold(y, "field")
     /\ \A a \in Elements(s.additional) :
          level # "root" /\ \A y \in Elements(a.structural) : InvariantsHold(y, "field")
     /\ x.intOrString => ~ x.preserve /\ ~ x.embedded
     /\ ValidationAllowed(s.validation, IsIntOrStringAnyOf(s), IsIntOrStringAllOf(s))
     /\ x.embedded =>
          /\ type = "object"
          /\ s.additional = None
          /\ x.preserve \/ s.properties # NoFields
     /\ type = "" => x.intOrString \/ x.preserve
     /\ level = "root" => type \in {"", "object"}
     /\ MetadataAllowed(s, level)

\* What junctors validate is specified outside of them.
RECURSIVE NestedComplete(_, _)

Complete(v, s) ==
  \A x \in UNION {Elements(q) : q \in {v.not, v.allOf, v.anyOf, v.oneOf}} : NestedComplete(x, s)

NestedComplete(v, s) ==
  /\ Complete(v.validation, s)
  /\ \A x \in Elements(v.items) : \E y \in Elements(s.items) : NestedComplete(x, y)
  /\ \A k \in DOMAIN v.properties :
       k \in DOMAIN s.properties /\ NestedComplete(v.properties[k], s.properties[k])

ValidateStructural(s) == InvariantsHold(s, "root") /\ Complete(s.validation, s)

\* getSchemaForField: that of a field, or of the values of a map.
SchemaForField(k, s) ==
  IF k \in DOMAIN s.properties THEN Some(s.properties[k])
  ELSE IF s.additional = None THEN None ELSE s.additional[1].structural

\* The schema of a resource: its root has type and metadata like an embedded one.
AsResource(s) == [s EXCEPT !.extensions.embedded = TRUE]

-----------------------------------------------------------------------------
(* Back to the schemas by which objects are validated.                     *)

SchemaOf(generic, extensions, v) ==
  [ JSONSchemaProps EXCEPT
      !.type = generic.type, !.nullable = generic.nullable, !.default = generic.default,
      !.preserve = extensions.preserve, !.embedded = extensions.embedded,
      !.intOrString = extensions.intOrString, !.listType = extensions.listType,
      !.keys = extensions.keys, !.mapType = extensions.mapType, !.required = v.required, !.enum = v.enum ]

RECURSIVE NestedToKubeOpenAPI(_)

WithJunctors(p, v) ==
  [ p EXCEPT !.not = Each(v.not, NestedToKubeOpenAPI), !.allOf = Each(v.allOf, NestedToKubeOpenAPI),
             !.anyOf = Each(v.anyOf, NestedToKubeOpenAPI), !.oneOf = Each(v.oneOf, NestedToKubeOpenAPI) ]

NestedToKubeOpenAPI(v) ==
  [ WithJunctors(SchemaOf(v.generic, v.extensions, v.validation), v.validation) EXCEPT
      !.items = Each(v.items, NestedToKubeOpenAPI),
      !.properties = Each(v.properties, NestedToKubeOpenAPI) ]

RECURSIVE ToKubeOpenAPI(_)
ToKubeOpenAPI(s) ==
  [ WithJunctors(SchemaOf(s.generic, s.extensions, s.validation), s.validation) EXCEPT
      !.items = Each(s.items, ToKubeOpenAPI),
      !.properties = Each(s.properties, ToKubeOpenAPI),
      !.additional =
        Each(s.additional, LAMBDA x : SchemaOrBool(x.bool, Each(x.structural, ToKubeOpenAPI))) ]

-----------------------------------------------------------------------------
(* Visitors.                                                               *)

Below(s, Visit(_)) ==
  [ s EXCEPT !.items = Each(@, Visit),
             !.properties = Each(@, Visit),
             !.additional = Each(@, LAMBDA x : [x EXCEPT !.structural = Each(@, Visit)]) ]

UnfoldOne(s) ==
  IF ~ s.extensions.intOrString \/ IsIntOrStringAnyOf(s) \/ IsIntOrStringAllOf(s) THEN s
  ELSE IF s.validation.anyOf = <<>> THEN [s EXCEPT !.validation.anyOf = IntOrStringAnyOf]
  ELSE [ s EXCEPT !.validation.allOf =
           <<[NewNestedValueValidation(JSONSchemaProps)
                EXCEPT !.validation.anyOf = IntOrStringAnyOf]>> \o @ ]

\* Adds the alternatives that x-kubernetes-int-or-string stands for.
RECURSIVE Unfold(_)
Unfold(s) == Below(UnfoldOne(s), Unfold)

RECURSIVE StripNullable(_)
StripNullable(s) == Below([s EXCEPT !.generic.nullable = FALSE], StripNullable)

RECURSIVE StripValueValidations(_)
StripValueValidations(s) == Below([s EXCEPT !.validation = NoValidation], StripValueValidations)

WithoutJunctors(s) ==
  [s EXCEPT !.validation.allOf = <<>>, !.validation.oneOf = <<>>, !.validation.anyOf = <<>>,
            !.validation.not = None]

\* The clients of OpenAPI v2 know neither null nor the fields of what is untyped.
WithoutFields(s) ==
  IF s.generic.nullable \/ s.extensions.preserve
  THEN [s EXCEPT !.items = None, !.properties = NoFields] ELSE s

\* As if what may be null kept its type.
NeverNull(s) == [s EXCEPT !.generic.nullable = FALSE]

Untyped(s) ==
  IF \/ s.generic.nullable
     \/ s.items = None /\ s.generic.type = "array"
     \/ s.extensions.preserve /\ s.generic.type = "object"
  THEN [s EXCEPT !.generic.type = "", !.generic.nullable = FALSE] ELSE s

WithoutNullableRequired(s) ==
  IF \E x \in Elements(s.additional) : \E y \in Elements(x.structural) : y.generic.nullable
  THEN [s EXCEPT !.validation.required = {}]
  ELSE [s EXCEPT !.validation.required =
          @ \ {k \in DOMAIN s.properties : s.properties[k].generic.nullable}]

RECURSIVE ToStructuralOpenAPIV2(_)
ToStructuralOpenAPIV2(s) ==
  Below(WithoutNullableRequired(Untyped(WithoutFields(WithoutJunctors(s)))), ToStructuralOpenAPIV2)

=============================================================================
