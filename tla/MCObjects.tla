------------------------------ MODULE MCObjects ------------------------------
(***************************************************************************)
(* Instances for TLC of what concerns custom resources: in each behaviour  *)
(* the subject is a schema, a request of conversion or a CRD, of which an  *)
(* invariant checks every value, answer or update; or the registry of a    *)
(* resource runs, or the stored versions of a CRD change.                  *)
(***************************************************************************)
EXTENDS StoredVersions, CRDRoundTrip, CustomResourceConversion, CustomResourceCodec,
        CustomResourceValidation

CONSTANTS Subjects,   \* the kinds of subjects
          Clients, Schema, StatusEnabled, ScaleEnabled, Specs, Statuses, Int32Bits, MaxRevision,
          MaxObjects  \* bound: of how many objects of a schema all pairs are checked

VARIABLES subject, stored, revision, copies

Registry == INSTANCE CustomResource
API == INSTANCE MCMessages

registryVars == <<stored, revision, copies>>

allVars == <<vars, registryVars, subject>>

J == JSONSchemaProps

OfType(t) == [J EXCEPT !.type = t]
ObjectWith(f) == [J EXCEPT !.type = "object", !.properties = f]
ListOf(p) == [J EXCEPT !.type = "array", !.items = Some(p)]
MapOf(p) == [J EXCEPT !.type = "object", !.additional = Some(SchemaOrBool(TRUE, Some(p)))]
Nullable(p) == [p EXCEPT !.nullable = TRUE]
Defaulted(p, d) == [p EXCEPT !.default = Some(d)]
Preserving(p) == [p EXCEPT !.preserve = TRUE]
EmbeddedIn(p) == [p EXCEPT !.embedded = TRUE]
Requiring(p, k) == [p EXCEPT !.required = {k}]

-----------------------------------------------------------------------------
(* Schemas, of a resource with one field f, and their values.              *)

MCLeaves ==
  { OfType("string"), Nullable(OfType("string")), [J EXCEPT !.intOrString = TRUE],
    Preserving(J), [OfType("string") EXCEPT !.enum = {Text("a")}] }

MCDefaulted ==
  { Defaulted(OfType("string"), Text("a")), Defaulted(Nullable(OfType("string")), Null),
    Defaulted(OfType("integer"), Number(1)) }

MCStructs == {ObjectWith(Field("x", p)) : p \in MCLeaves \cup MCDefaulted}

MCRequiring == {Requiring(p, "x") : p \in MCStructs}

MCLists ==
  {ListOf(p) : p \in MCLeaves \cup MCStructs}
    \cup {[ListOf(p) EXCEPT !.listType = "map", !.keys = <<"x">>] : p \in MCStructs \cup MCRequiring}
    \cup {[ListOf(p) EXCEPT !.listType = "set"] : p \in MCLeaves}

MCDefaults ==
  {Object(NoFields), Object(Field("x", Text("a"))), Object(Field("x", Null)), Object(Field("y", Text("a")))}

MCNodes ==
  UNION { MCLeaves, MCDefaulted, MCStructs, MCRequiring, MCLists,
          {MapOf(p) : p \in MCLeaves \cup MCStructs},
          {Nullable(p) : p \in MCStructs}, {Preserving(p) : p \in MCStructs},
          {EmbeddedIn(p) : p \in MCStructs \cup {Preserving(OfType("object"))}},
          {Defaulted(p, d) : p \in MCStructs \cup MCRequiring, d \in MCDefaults},
          {Defaulted(ListOf(p), List(<<Object(NoFields)>>)) : p \in MCStructs} }

MCSchemas == {ObjectWith(Field("f", p)) : p \in MCNodes}

Atoms == {Null, Number(1), Text("a"), Text("b")}

\* Values that are, or nearly are, of a schema.
RECURSIVE MCValues(_)
MCValues(p) ==
  LET inside == UNION {MCValues(q) : q \in SubSchemas([p EXCEPT !.items = None])}
      items == IF p.items = None THEN {Text("a")} ELSE MCValues(p.items[1])
      keys == DOMAIN p.properties \cup IF p.additional = None THEN {} ELSE {"x"}
  IN Atoms
     \cup {Object([k \in K |-> IF k = "y" THEN Text("a") ELSE f[k]]) :
             K \in SUBSET (keys \cup {"y"}), f \in [keys -> inside]}
     \cup {List(q) : q \in {<<>>} \cup {<<a>> : a \in items} \cup {<<a, b>> : a \in items, b \in items}}

MCObjectsOf(p) == {v \in MCValues(p) : v.is = "object"}

\* Structural schemas whose defaults have no null that decoding drops.
IsSubject(p) ==
  /\ ValidateSchema(p, FALSE, Tightened)
  /\ \A q \in Within(p) : \A d \in Elements(q.default) :
       PruneNonNullableNullsWithoutDefaults(d, Some(NewStructural(q))) = d
       /\ ~ (d.is = "object" /\ Null \in Elements(d.fields) /\ Preserving(J) \in SubSchemas(q))

Resource(v) == Set(Set(v, "kind", Kind), "apiVersion", Text("v1"))

SchemasOfV1(p) == [v \in {"v1"} |-> NewStructural(p)]

-----------------------------------------------------------------------------
(* Requests of conversion, and answers.                                    *)

MCItem(version, name) ==
  Object([k \in {"apiVersion", "kind", "metadata", "spec"} |->
    CASE k = "apiVersion" -> Text(version) [] k = "kind" -> Kind [] k = "spec" -> Text(name)
      [] OTHER -> Object([f \in {"name", "generation", "labels"} |->
           CASE f = "name" -> Text(name) [] f = "generation" -> Number(1)
             [] OTHER -> Object(Field("l", Text("a")))])])

MCNames == <<"a", "b", "c">>

MCInputs ==
  {[is |-> "list", version |-> Text("v1"), items |-> [i \in DOMAIN q |-> MCItem(q[i], MCNames[i])]] :
     q \in UNION {[1 .. n -> {"v1", "v2"}] : n \in 0 .. 3}}
    \cup {MCItem("v1", "a"), MCItem("v2", "a"), Resource(Object(NoFields))}

\* What an honest webhook makes of an object.
MCConverted(to, u) ==
  Set(Set(Set(u, "apiVersion", to), "spec", List(<<FieldOf(u, "spec")>>)),
      "metadata", Set(Metadata(u), "labels", Object(Field("l", Text("b")))))

MetaWith(u, k, x) == Set(u, "metadata", Set(Metadata(u), k, x))

\* The objects of an answer, one of them perhaps not as it should be.
MCAnswers(sent, to) ==
  LET honest == Each(sent, LAMBDA u : MCConverted(to, u))
      Changes(u) ==
        { Set(u, "apiVersion", Text("v3")), Set(u, "kind", Text("Other")), Delete(u, {"metadata"}),
          MetaWith(u, "name", Text("z")), MetaWith(u, "generation", Number(9)),
          MetaWith(u, "labels", Object(Field("l", InvalidLabel))), MetaWith(u, "labels", Null) }
  IN {honest, Append(honest, MCItem("v2", "a"))}
       \cup {SubSeq(honest, 1, Len(honest) - 1), [i \in DOMAIN honest |-> honest[Len(honest) + 1 - i]]}
       \cup UNION {{[honest EXCEPT ![i] = u] : u \in Changes(honest[i])} : i \in DOMAIN honest}

MCResponses(sent, to) ==
  {[gvk |-> "v1", body |-> None]}
    \cup {[gvk |-> gvk, body |-> Some([uid |-> uid, status |-> status, objects |-> q])] :
            gvk \in {"v1", "other"}, uid \in {1, 2}, status \in {"Success", "Failure"},
            q \in MCAnswers(sent, to)}

MCConversions ==
  {[versions |-> {Text("v1"), Text("v2")}, strategy |-> strategy, reviewVersions |-> q] :
     strategy \in {"None", "Webhook"}, q \in {<<"v1">>, <<"v9", "v1beta1">>, <<"v9">>}}

-----------------------------------------------------------------------------
(* CRDs.                                                                   *)

\* Schemas some of which were not always refused.
MCPublished ==
  LET x == ObjectWith(Field("x", OfType("string")))
      map == [ListOf(x) EXCEPT !.listType = "map", !.keys = <<"x">>]
      odd == Object(Field("y", Text("a")))
  IN {ObjectWith(Field("f", p)) :
        p \in { OfType("string"), J, OfType("odd"), x, Defaulted(x, Object(NoFields)), Defaulted(x, odd),
                MapOf(x), Preserving(J), map, [map EXCEPT !.items = Some(Requiring(x, "x"))],
                [ListOf(x) EXCEPT !.listType = "set"], [ListOf(OfType("string")) EXCEPT !.listType = "set"] }}

MCVersion(name, schema, status) ==
  [name |-> name, storage |-> name = "v1", served |-> TRUE, schema |-> schema,
   subresources |-> IF status THEN Some([status |-> TRUE]) ELSE None, columns |-> <<>>, selectable |-> <<>>]

MCSpec(preserve, versions, validation, conversion) ==
  [preserve |-> Some(preserve), scope |-> "Cluster", kind |-> Kind, version |-> None, versions |-> versions,
   validation |-> validation, subresources |-> None, columns |-> <<>>, selectable |-> <<>>,
   conversion |-> conversion]

MCWebhook(bundle, reviewVersions) ==
  Some([strategy |-> "Webhook", webhook |-> Some([caBundle |-> bundle]), reviewVersions |-> reviewVersions])

MCCRDSpecs ==
  LET p == ObjectWith(Field("f", OfType("string")))
      one == <<MCVersion("v1", None, FALSE)>>
  IN {MCSpec(preserve, one, Some(q), None) : preserve \in BOOLEAN, q \in MCPublished}
       \cup {MCSpec(preserve, <<MCVersion("v1", s, TRUE), MCVersion("v2", t, FALSE)>>, None, None) :
               preserve \in BOOLEAN, s \in {None, Some(p)}, t \in {None, Some(J), Some(p)}}
       \cup {MCSpec(FALSE, one, Some(p), MCWebhook(bundle, q)) :
               bundle \in {"", "invalid"}, q \in {<<"v1">>, <<"v9">>}}
       \cup {[MCSpec(FALSE, one, Some(p), None) EXCEPT !.kind = Text("Other")]}

MCCRDs ==
  {[spec |-> s, established |-> e, protected |-> FALSE, approval |-> "missing"] :
     s \in MCCRDSpecs, e \in BOOLEAN}
    \cup {[spec |-> MCSpec(FALSE, <<MCVersion("v1", None, FALSE)>>,
                           Some(ObjectWith(Field("f", OfType("string")))), None),
           established |-> FALSE, protected |-> TRUE, approval |-> a] :
            a \in {"missing", "invalid", "approved", "bypassed"}}

-----------------------------------------------------------------------------
(* Specifications of CRDs in v1 and in v1beta1.                            *)

MCSaid ==
  LET p == ObjectWith(Field("f", OfType("string")))
      q == ObjectWith([f |-> OfType("string"), x |-> OfType("string")])
      r == ObjectWith([f |-> OfType("string"), x |-> Defaulted(Nullable(OfType("string")), Null)])
  IN [ schema : {None, Some(p), Some(q), Some(r)}, subresources : {None, Some([status |-> TRUE])},
       columns : {<<>>, <<"c">>}, selectable : {<<>>, <<"f">>} ]

MCSaying(name, said) ==
  [ name |-> name, served |-> TRUE, storage |-> name = "v1", schema |-> said.schema,
    subresources |-> said.subresources, columns |-> said.columns, selectable |-> said.selectable ]

\* What is said of a version where nothing but a field is varied.
MCVaried(field) ==
  {said \in MCSaid :
     \A k \in DOMAIN said \ {field} :
       said[k] = IF k = "schema" THEN Some(ObjectWith(Field("f", OfType("string")))) ELSE <<>>}

MCWebhooks == [clientConfig : {None, Some([caBundle |-> ""])}, reviewVersions : {<<>>, <<"v1">>}]

MCV1Conversions ==
  {None} \cup {Some(c) : c \in [strategy : {"None", "Webhook"}, webhook : {None} \cup {Some(w) : w \in MCWebhooks}]}

MCV1Spec(versions, conversion) ==
  [preserve |-> FALSE, scope |-> "Cluster", kind |-> Kind, versions |-> versions, conversion |-> conversion]

MCV1Specs ==
  {MCV1Spec(<<MCSaying("v1", a), MCSaying("v2", b)>>, None) : a \in MCSaid, b \in MCSaid}
    \cup UNION {{MCV1Spec(<<MCSaying("v1", a), MCSaying("v2", b), MCSaying("v3", c)>>, None) :
                   a \in MCVaried(field), b \in MCVaried(field), c \in MCVaried(field)} :
                  field \in Version!PerVersion}
    \cup {MCV1Spec(<<MCSaying("v1", a)>>, c) : a \in MCVaried("schema"), c \in MCV1Conversions}

\* In v1beta1 a field is of all versions, of each or of both; there may be no list of
\* versions, and nothing said of what has a default.
MCOldSpecs ==
  LET conversions == {None} \cup [strategy : {"None", "Webhook"}, webhook : {None, Some([caBundle |-> ""])},
                                  reviewVersions : {<<>>, <<"v1">>}]
      Of(version, versions, top, preserve, scope, c) ==
        [ preserve |-> preserve, scope |-> scope, kind |-> Kind, version |-> version, versions |-> versions,
          validation |-> top.schema, subresources |-> top.subresources, columns |-> top.columns,
          selectable |-> top.selectable, conversion |-> IF c = None THEN None ELSE Some(c) ]
      nothing == CHOOSE said \in MCSaid : \A k \in DOMAIN said : said[k] = <<>>
  IN {Of(version, <<MCSaying("v1", a), MCSaying("v2", b)>>, top, Some(FALSE), "Cluster", None) :
        version \in {None, Some("v1"), Some("v2")}, a \in MCVaried("schema"), b \in MCVaried("schema"),
        top \in MCSaid}
       \cup UNION {{Of(Some("v1"), <<MCSaying("v1", a), MCSaying("v2", b)>>, [nothing EXCEPT !.schema = top.schema],
                       preserve, "Cluster", None) :
                      a \in MCVaried(field), b \in MCVaried(field), top \in MCVaried(field),
                      preserve \in {None, Some(TRUE)}} :
                     field \in Version!PerVersion}
       \cup {Of(Some("v1"), <<>>, top, preserve, scope, c) :
               top \in MCVaried("schema"), preserve \in {None, Some(FALSE)}, scope \in {"", "Cluster"},
               c \in conversions}

-----------------------------------------------------------------------------
(* A resource, and its schema.                                             *)

MCSchema ==
  ObjectWith(
    [ spec |-> ObjectWith([x |-> OfType("string"), replicas |-> OfType("integer")]),
      status |-> ObjectWith(
        [ observedGeneration |-> OfType("integer"), of |-> Preserving(OfType("object")),
          replicas |-> OfType("integer"), last |-> EmbeddedIn(Preserving(OfType("object"))) ]) ])

MCSpecOf(x) == Object(Field("x", Text(x)))

MCSpecs == {MCSpecOf("a"), Set(MCSpecOf("b"), "replicas", Number(2))}

MCStatuses == {Object(NoFields), Object(Field("replicas", Number(2))), Object(Field("last", Object(NoFields)))}

-----------------------------------------------------------------------------

NoSubject == [kind |-> "", schema |-> None, input |-> None, crd |-> None, message |-> None,
              v1 |-> None, v1beta1 |-> None]

SubjectsOf(kind) ==
  LET subjectOfKind == [NoSubject EXCEPT !.kind = kind]
  IN CASE kind = "schema" -> {[subjectOfKind EXCEPT !.schema = Some(p)] : p \in {q \in MCSchemas : IsSubject(q)}}
       [] kind = "conversion" -> {[subjectOfKind EXCEPT !.input = Some(in)] : in \in MCInputs}
       [] kind = "CRD" -> {[subjectOfKind EXCEPT !.crd = Some(c)] : c \in MCCRDs}
       [] kind = "message" ->
            {[subjectOfKind EXCEPT !.message = Some(x)] : x \in API!Messages("v1") \cup API!Messages("v1beta1")}
       [] kind = "specification" ->
            {[subjectOfKind EXCEPT !.v1 = Some(x)] : x \in MCV1Specs}
              \cup {[subjectOfKind EXCEPT !.v1beta1 = Some(x)] : x \in MCOldSpecs}
       [] OTHER -> {subjectOfKind}

\* The stored versions of a CRD change where they are the subject.
MCInit ==
  /\ subject \in UNION {SubjectsOf(kind) : kind \in Subjects}
  /\ Init
  /\ subject.kind # "migration" => crd = Created(Versions, CHOOSE v \in Versions : TRUE)
  /\ Registry!Init

MCNext ==
  \/ subject.kind = "migration" /\ Next /\ UNCHANGED <<registryVars, subject>>
  \/ subject.kind = "registry" /\ Registry!Next /\ UNCHANGED <<vars, subject>>

MCSpecification == MCInit /\ [][MCNext]_allVars

-----------------------------------------------------------------------------

\* What a request is decoded to is stored, read and decoded again as it is: no
\* default, pruning or coercion undoes another (customresource_handler.go apply).
DecodeStable ==
  \A p \in Elements(subject.schema) : \A v \in MCObjectsOf(p) :
    \A d \in Elements(DecodeRequest(Resource(v), SchemasOfV1(p), FALSE)) :
      StableOnce(d, SchemasOfV1(p))

\* The schema that is published in OpenAPI v2, by which clients validate, accepts
\* all that the server accepts (controller/openapi/v2/conversion.go).
PublishedAcceptsValid ==
  \A p \in Elements(subject.schema) :
    LET published == ToKubeOpenAPI(ToStructuralOpenAPIV2(NewStructural(p)))
    IN \A v \in MCObjectsOf(p) : Valid(p, v) => Valid(published, v)

\* An update passes if and only if all that is invalid in it did not change
\* (ratcheting.go Validate).
RatchetingExact ==
  \A p \in Elements(subject.schema) :
    LET objects == MCObjectsOf(p)
    IN Cardinality(objects) < MaxObjects =>
         \A new, old \in objects :
           ValidateCustomResourceUpdate(p, new, old) <=> OnlyUnchangedErrors(p, new, old)

\* See Faithful, for every answer.
ConversionFaithful ==
  \A in \in Elements(subject.input) : IsInput(in) /\ \A to \in {Text("v1"), Text("v2")}, c \in MCConversions :
    \A response \in MCResponses(ObjectsToConvert(in, to), to) :
      Faithful(in, to, c, 1, response, LAMBDA u : MCConverted(to, u))

\* See UnchangedIsAccepted and NoLoosening.
StoredIsAccepted == \A c \in Elements(subject.crd) : UnchangedIsAccepted(c)

UpdatesDoNotLoosen ==
  \A old \in Elements(subject.crd) :
    ValidateCreate(old) => \A new \in MCCRDs : NoLoosening(new, old)

\* See FaithfulMessage (generated.pb.go of both versions).
WireFaithful == \A x \in Elements(subject.message) : API!FaithfulMessage(x)

\* See LosslessInV1 and KeepsMeaning (conversion.go of v1).
ConversionLossless ==
  /\ \A x \in Elements(subject.v1) : LosslessInV1(x)
  /\ \A x \in Elements(subject.v1beta1) : KeepsMeaning(x)

\* See VersionsIndependent.
VersionsJudgedAlone == \A x \in Elements(subject.v1) : VersionsIndependent(x)

\* Of CustomResource.
ObservedIsCurrent == Registry!ObservedIsCurrent

StoredIsValid == Registry!StoredIsValid

EmbeddedAreValid == Registry!EmbeddedAreValid

=============================================================================
