--------------------------- MODULE Objects_proofs ---------------------------
(***************************************************************************)
(* What a specification of v1 says is kept by the internal version of it,  *)
(* for any number of versions and any schemas, subresources, columns and   *)
(* selectable fields.  And custom resources: whatever a webhook answers,    *)
(* what it is asked to convert stays the same objects, and each gets the   *)
(* contents that the webhook made of it, for lists of any length; and what  *)
(* the registry writes keeps the status of an object one of its spec.      *)
(***************************************************************************)
EXTENDS CRDConversion, CustomResourceConversion, CustomResourceStrategy, FiniteSetTheorems, TLAPS

-----------------------------------------------------------------------------
(* Specifications of CRDs.                                                 *)

Optional(S) == {<<>>} \cup {<<s>> : s \in S}

V1Versions(Names, Schemas, Others) ==
  [ name : Names, served : BOOLEAN, storage : BOOLEAN, schema : Optional(Schemas),
    subresources : Optional(Others), columns : Seq(Others), selectable : Seq(Others) ]

\* Conversions that are accepted: by a webhook that is called in some version of
\* review, or none, with no webhook but one that says something.
V1Conversions(Others) ==
  {c \in [ strategy : {"None", "Webhook"},
           webhook : Optional({w \in [clientConfig : Optional(Others), reviewVersions : Seq(Others)] :
                                 w.clientConfig # <<>> \/ w.reviewVersions # <<>>}) ] :
     c.strategy = "Webhook" => c.webhook # <<>> /\ c.webhook[1].reviewVersions # <<>>}

V1Specs(Names, Schemas, Others) ==
  [ preserve : BOOLEAN, scope : Names \ {""}, kind : Names, versions : Seq(V1Versions(Names, Schemas, Others)),
    conversion : Optional(V1Conversions(Others)) ]

\* The versions of a specification are a sequence of versions.
LEMMA SequenceOf ==
  ASSUME NEW S, NEW q \in Seq(S)
  PROVE  /\ Len(q) \in Nat /\ DOMAIN q = 1 .. Len(q) /\ (q # <<>> => 1 \in DOMAIN q)
         /\ \A i \in DOMAIN q : q[i] \in S
         /\ q = [i \in DOMAIN q |-> q[i]]
OBVIOUS

\* What a specification consists of.
LEMMA SpecTyped ==
  ASSUME NEW Names, NEW Schemas, NEW Others, NEW x \in V1Specs(Names, Schemas, Others)
  PROVE  /\ x.versions \in Seq(V1Versions(Names, Schemas, Others))
         /\ x.conversion \in Optional(V1Conversions(Others))
BY DEF V1Specs

\* A webhook that says something is the same after it was flattened.
LEMMA WebhookKept ==
  ASSUME NEW Others, NEW c \in V1Conversions(Others)
  PROVE  ConversionToV1(ConversionToInternal(c)) = c
<1>1. CASE c.webhook = <<>>
  BY <1>1 DEF ConversionToV1, ConversionToInternal, V1Conversions
<1>2. CASE c.webhook # <<>>
  <2>1. PICK w \in [clientConfig : Optional(Others), reviewVersions : Seq(Others)] :
          c.webhook = <<w>> /\ (w.clientConfig # <<>> \/ w.reviewVersions # <<>>)
    BY <1>2 DEF V1Conversions, Optional
  <2>2. ConversionToInternal(c) =
          [strategy |-> c.strategy, webhook |-> w.clientConfig, reviewVersions |-> w.reviewVersions]
    BY <1>2, <2>1 DEF ConversionToInternal
  <2>3. ConversionToV1(ConversionToInternal(c)) = [strategy |-> c.strategy, webhook |-> <<w>>]
    BY <2>1, <2>2 DEF ConversionToV1
  <2> QED BY <2>1, <2>3 DEF V1Conversions
<1> QED BY <1>1, <1>2

\* A field that moved to the top is that of every version.
LEMMA MovedIsCommon ==
  ASSUME NEW versions, versions # <<>>, NEW field \in Moved(versions), NEW i \in DOMAIN versions
  PROVE  versions[i][field] = versions[1][field]
BY DEF Moved, Identical

\* An optional schema is converted to itself.
LEMMA SchemaKept ==
  ASSUME NEW Schemas, \A s \in Schemas : SchemaToV1(s) = s, NEW schema \in Optional(Schemas)
  PROVE  Converted(schema) = schema
<1>1. CASE schema = <<>>
  BY <1>1 DEF Converted
<1>2. CASE schema # <<>>
  <2>1. PICK s \in Schemas : schema = <<s>>
    BY <1>2 DEF Optional
  <2> QED BY <2>1 DEF Converted
<1> QED BY <1>1, <1>2

\* Where a specification is converted to the internal version and back, each version
\* has the field that it had.
LEMMA VersionKept ==
  ASSUME NEW Names, NEW Schemas, NEW Others,
         \A s \in Schemas : SchemaToV1(s) = s,
         NEW x \in V1Specs(Names, Schemas, Others), NEW i \in DOMAIN x.versions
  PROVE  VersionToV1(SpecToInternal(x).versions[i], SpecToInternal(x)) = x.versions[i]
<1> DEFINE in == SpecToInternal(x)
           v == x.versions[i]
           moved == Moved(x.versions)
           Of(field) == IF in[TopOf(field)] # <<>> THEN in[TopOf(field)] ELSE in.versions[i][field]
<1>0. x.versions \in Seq(V1Versions(Names, Schemas, Others))
  BY SpecTyped
<1>1. v \in V1Versions(Names, Schemas, Others) /\ x.versions # <<>>
  BY <1>0, SequenceOf
<1>2. in.versions[i] = VersionToInternal(v, moved)
  BY DEF SpecToInternal
<1>3. /\ in.validation = IF "schema" \in moved THEN x.versions[1].schema ELSE <<>>
      /\ in.subresources = IF "subresources" \in moved THEN x.versions[1].subresources ELSE <<>>
      /\ in.columns = IF "columns" \in moved THEN x.versions[1].columns ELSE <<>>
      /\ in.selectable = IF "selectable" \in moved THEN x.versions[1].selectable ELSE <<>>
  BY DEF SpecToInternal
<1>4. /\ "schema" \in moved => x.versions[1].schema = v.schema
      /\ "subresources" \in moved => x.versions[1].subresources = v.subresources
      /\ "columns" \in moved => x.versions[1].columns = v.columns
      /\ "selectable" \in moved => x.versions[1].selectable = v.selectable
  BY <1>1, MovedIsCommon
<1>5. DOMAIN v = {"name", "served", "storage", "schema", "subresources", "columns", "selectable"}
  BY <1>1 DEF V1Versions
<1>6. moved \subseteq PerVersion
  BY <1>1 DEF Moved
<1>7. /\ in.versions[i].name = v.name
      /\ in.versions[i].served = v.served
      /\ in.versions[i].storage = v.storage
  BY <1>2, <1>5, <1>6 DEF VersionToInternal, PerVersion
<1>8. /\ in.versions[i].schema = IF "schema" \in moved THEN <<>> ELSE v.schema
      /\ in.versions[i].subresources = IF "subresources" \in moved THEN <<>> ELSE v.subresources
      /\ in.versions[i].columns = IF "columns" \in moved THEN <<>> ELSE v.columns
      /\ in.versions[i].selectable = IF "selectable" \in moved THEN <<>> ELSE v.selectable
  BY <1>2, <1>5 DEF VersionToInternal
<1>9. /\ Of("schema") = v.schema
      /\ Of("subresources") = v.subresources
      /\ Of("columns") = v.columns
      /\ Of("selectable") = v.selectable
  BY <1>3, <1>4, <1>8 DEF TopOf
<1>10. Converted(v.schema) = v.schema
  BY <1>1, SchemaKept DEF V1Versions
<1>11. VersionToV1(in.versions[i], in) =
         [ name |-> v.name, served |-> v.served, storage |-> v.storage, schema |-> Converted(Of("schema")),
           subresources |-> Of("subresources"), columns |-> Of("columns"), selectable |-> Of("selectable") ]
  BY <1>7 DEF VersionToV1
<1>12. v = [ name |-> v.name, served |-> v.served, storage |-> v.storage, schema |-> v.schema,
             subresources |-> v.subresources, columns |-> v.columns, selectable |-> v.selectable ]
  BY <1>1 DEF V1Versions
<1> HIDE DEF Of, in, v
<1>13. VersionToV1(in.versions[i], in) = v
  BY <1>9, <1>10, <1>11, <1>12
<1> QED BY <1>13 DEF in, v

\* A specification of v1 is what is made of its internal version.
LEMMA SpecKept ==
  ASSUME NEW Names, NEW Schemas, NEW Others,
         \A s \in Schemas : SchemaToV1(s) = s,
         NEW x \in V1Specs(Names, Schemas, Others)
  PROVE  SpecToV1(SpecToInternal(x)) = x
<1> DEFINE in == SpecToInternal(x)
<1>1. in.versions = [i \in DOMAIN x.versions |-> VersionToInternal(x.versions[i], Moved(x.versions))]
  BY DEF SpecToInternal
<1>2. VersionsOf(in) = in.versions
  <2>1. CASE x.versions = <<>>
    BY <2>1 DEF VersionsOf, SpecToInternal
  <2>2. CASE x.versions # <<>>
    <3>1. in.versions # <<>>
      BY <1>1, <2>2, SpecTyped, SequenceOf
    <3> HIDE DEF in
    <3> QED BY <3>1 DEF VersionsOf
  <2> QED BY <2>1, <2>2
<1>3. [i \in DOMAIN in.versions |-> VersionToV1(in.versions[i], in)] = x.versions
  <2>1. \A i \in DOMAIN x.versions : VersionToV1(in.versions[i], in) = x.versions[i]
    BY VersionKept
  <2>2. x.versions = [i \in DOMAIN x.versions |-> x.versions[i]]
    BY SpecTyped, SequenceOf
  <2>3. DOMAIN in.versions = DOMAIN x.versions
    BY <1>1
  <2> HIDE DEF in
  <2> QED BY <2>1, <2>2, <2>3
<1>4. [k \in DOMAIN in.conversion |-> ConversionToV1(in.conversion[k])] = x.conversion
  <2>1. in.conversion = [k \in DOMAIN x.conversion |-> ConversionToInternal(x.conversion[k])]
    BY DEF SpecToInternal
  <2>2. CASE x.conversion = <<>>
    BY <2>1, <2>2
  <2>3. CASE x.conversion # <<>>
    <3>1. PICK c \in V1Conversions(Others) : x.conversion = <<c>>
      BY <2>3, SpecTyped DEF Optional
    <3>2. ConversionToV1(ConversionToInternal(c)) = c
      BY WebhookKept
    <3> QED BY <2>1, <3>1, <3>2
  <2> QED BY <2>2, <2>3
<1>5. (in.preserve = <<TRUE>>) = x.preserve /\ in.scope = x.scope /\ in.kind = x.kind
  BY DEF V1Specs, SpecToInternal
<1>6. SpecToV1(in) =
        [ preserve |-> in.preserve = <<TRUE>>, scope |-> in.scope, kind |-> in.kind,
          versions |-> [i \in DOMAIN in.versions |-> VersionToV1(in.versions[i], in)],
          conversion |-> [k \in DOMAIN in.conversion |-> ConversionToV1(in.conversion[k])] ]
  BY <1>2 DEF SpecToV1
<1>7. x = [ preserve |-> x.preserve, scope |-> x.scope, kind |-> x.kind, versions |-> x.versions,
            conversion |-> x.conversion ]
  BY DEF V1Specs
<1> HIDE DEF in
<1>8. SpecToV1(in) = x
  BY <1>3, <1>4, <1>5, <1>6, <1>7
<1> QED BY <1>8 DEF in

\* The defaults of v1 give a conversion to a specification that has none.
LEMMA DefaultedV1 ==
  ASSUME NEW Names, NEW Schemas, NEW Others, NEW x \in V1Specs(Names, Schemas, Others)
  PROVE  /\ SetDefaultsV1(x) \in V1Specs(Names, Schemas, Others)
         /\ SetDefaultsV1(x).conversion # <<>>
<1>1. [strategy |-> "None", webhook |-> <<>>] \in V1Conversions(Others)
  BY DEF V1Conversions, Optional
<1> QED BY <1>1 DEF SetDefaultsV1, V1Specs, Optional

\* v1beta1 stores the internal version of a specification of v1 as it is.
LEMMA StoredAsIs ==
  ASSUME NEW Names, NEW Schemas, NEW Others,
         \A s \in Schemas : SchemaToV1(s) = s,
         NEW x \in V1Specs(Names, Schemas, Others)
  PROVE  SpecToV1beta1(SpecToInternal(x)) = SpecToInternal(x)
<1> DEFINE in == SpecToInternal(x)
           moved == Moved(x.versions)
<1>1. \A i \in DOMAIN x.versions : x.versions[i] \in V1Versions(Names, Schemas, Others)
  BY SpecTyped, SequenceOf
<1>2. in.versions = [i \in DOMAIN x.versions |-> VersionToInternal(x.versions[i], moved)]
  BY DEF SpecToInternal
<1>3. ASSUME NEW i \in DOMAIN x.versions
      PROVE  VersionToV1beta1(in.versions[i]) = in.versions[i]
  <2>1. in.versions[i] = VersionToInternal(x.versions[i], moved)
    BY <1>2
  <2>2. /\ in.versions[i] = [k \in DOMAIN x.versions[i] |-> in.versions[i][k]]
        /\ in.versions[i].schema \in Optional(Schemas)
    BY <1>1, <2>1 DEF VersionToInternal, V1Versions, Optional
  <2>3. Converted(in.versions[i].schema) = in.versions[i].schema
    BY <2>2, SchemaKept
  <2> QED BY <2>2, <2>3 DEF VersionToV1beta1
<1>4. [i \in DOMAIN in.versions |-> VersionToV1beta1(in.versions[i])] = in.versions
  BY <1>2, <1>3
<1>5. in.validation \in Optional(Schemas)
  <2>1. CASE "schema" \in moved
    <3>1. x.versions # <<>>
      BY <2>1 DEF Moved
    <3>2. x.versions[1] \in V1Versions(Names, Schemas, Others)
      BY <3>1, SpecTyped, SequenceOf
    <3>3. in.validation = x.versions[1].schema
      BY <2>1 DEF SpecToInternal
    <3> QED BY <3>2, <3>3 DEF V1Versions
  <2>2. CASE "schema" \notin moved
    BY <2>2 DEF SpecToInternal, Optional
  <2> QED BY <2>1, <2>2
<1>6. Converted(in.validation) = in.validation
  BY <1>5, SchemaKept
<1>7. [in EXCEPT !.validation = in.validation, !.versions = in.versions] = in
  BY DEF SpecToInternal
<1> HIDE DEF in
<1>8. SpecToV1beta1(in) =
        [in EXCEPT !.validation = Converted(in.validation),
                   !.versions = [i \in DOMAIN in.versions |-> VersionToV1beta1(in.versions[i])]]
  BY DEF SpecToV1beta1
<1>9. SpecToV1beta1(in) = in
  BY <1>4, <1>6, <1>7, <1>8
<1> QED BY <1>9 DEF in

\* The defaults of v1beta1 change nothing of what is stored of it.
LEMMA ReadAsIs ==
  ASSUME NEW Names, NEW Schemas, NEW Others,
         NEW x \in V1Specs(Names, Schemas, Others), x.conversion # <<>>
  PROVE  SetDefaultsV1beta1(SpecToInternal(x)) = SpecToInternal(x)
<1> DEFINE in == SpecToInternal(x)
<1>1. in.scope # "" /\ in.preserve # <<>>
  BY DEF V1Specs, SpecToInternal
<1>2. VersionsOf(in) = in.versions /\ ~ (in.version = <<>> /\ in.versions # <<>>)
  <2>1. in.versions = [i \in DOMAIN x.versions |-> VersionToInternal(x.versions[i], Moved(x.versions))]
    BY DEF SpecToInternal
  <2>2. (in.versions = <<>>) = (x.versions = <<>>)
    BY <2>1, SpecTyped, SequenceOf
  <2>3. in.version = IF x.versions = <<>> THEN <<>> ELSE << x.versions[1].name >>
    BY DEF SpecToInternal
  <2> HIDE DEF in
  <2> QED BY <2>2, <2>3 DEF VersionsOf
<1>3. PICK c \in V1Conversions(Others) : x.conversion = <<c>>
  BY SpecTyped DEF Optional
<1>4. in.conversion = <<ConversionToInternal(c)>>
  BY <1>3 DEF SpecToInternal
<1>5. DefaultReviewVersions(ConversionToInternal(c)) = ConversionToInternal(c)
  BY <1>3 DEF DefaultReviewVersions, ConversionToInternal, V1Conversions
<1>6. /\ in.conversion # <<>>
      /\ [k \in DOMAIN in.conversion |-> DefaultReviewVersions(in.conversion[k])] = in.conversion
  BY <1>4, <1>5
<1>7. [in EXCEPT !.scope = in.scope, !.versions = in.versions, !.version = in.version,
                 !.conversion = in.conversion, !.preserve = in.preserve] = in
  BY DEF SpecToInternal
<1> HIDE DEF in
<1>8. SetDefaultsV1beta1(in) =
        [in EXCEPT !.scope = in.scope, !.versions = in.versions, !.version = in.version,
                   !.conversion = in.conversion, !.preserve = in.preserve]
  BY <1>1, <1>2, <1>6 DEF SetDefaultsV1beta1
<1>9. SetDefaultsV1beta1(in) = in
  BY <1>7, <1>8
<1> QED BY <1>9 DEF in

\* For any number of versions, and whatever each of them says, what is stored in
\* v1beta1 of a specification of v1 is read as it was, and served in v1 as it was
\* defaulted (v1/conversion.go, v1beta1/defaults.go): no field is lost, nor given to a
\* version that does not have it, by moving to the top what is identical.
THEOREM NothingIsLost ==
  ASSUME NEW Names, NEW Schemas, NEW Others,
         \A s \in Schemas : SchemaToV1(s) = s,
         NEW x \in V1Specs(Names, Schemas, Others)
  PROVE  Kept(x)
<1> DEFINE y == SetDefaultsV1(x)
<1>1. y \in V1Specs(Names, Schemas, Others) /\ y.conversion # <<>>
  BY DefaultedV1
<1>2. SpecToV1beta1(SpecToInternal(y)) = SpecToInternal(y)
  BY <1>1, StoredAsIs
<1>3. SetDefaultsV1beta1(SpecToInternal(y)) = SpecToInternal(y)
  BY <1>1, ReadAsIs
<1>4. SpecToV1(SpecToInternal(y)) = y
  BY <1>1, SpecKept
<1> HIDE DEF y
<1> QED BY <1>2, <1>3, <1>4 DEF Kept, y

-----------------------------------------------------------------------------
(* Objects, and what is accepted in the place of one.                      *)

\* A field that is set has its value, and the others theirs.
LEMMA SetFields ==
  ASSUME NEW u, NEW k, NEW x
  PROVE  /\ Set(u, k, x).is = "object"
         /\ \A j : FieldOf(Set(u, k, x), j) = IF j = k THEN x ELSE FieldOf(u, j)
  BY DEF Set, FieldOf, Fields, Object

\* To set a field to what it is changes nothing.
LEMMA SetSame ==
  ASSUME NEW u, IsObject(u), NEW k, NEW x, x # Null, FieldOf(u, k) = x
  PROVE  Set(u, k, x) = u
<1>1. k \in Fields(u) /\ u.fields[k] = x
  BY DEF FieldOf
<1>2. Fields(u) \cup {k} = Fields(u)
  BY <1>1
<1>3. [j \in Fields(u) \cup {k} |-> IF j = k THEN x ELSE u.fields[j]] = [j \in Fields(u) |-> u.fields[j]]
  BY <1>1, <1>2
<1>. QED
  BY <1>3 DEF Set, IsObject

\* An object that only has its version set is the same object.
LEMMA VersionSet ==
  ASSUME NEW x, IsObject(x), NEW to, to # Null
  PROVE  SameItem(x, WithVersion(x, to), to)
<1>. DEFINE y == WithVersion(x, to)
<1>1. \A j : FieldOf(y, j) = IF j = "apiVersion" THEN to ELSE FieldOf(x, j)
  BY SetFields DEF WithVersion
<1>2. ItemVersion(y) = to /\ FieldOf(x, "kind") = FieldOf(y, "kind")
  BY <1>1 DEF ItemVersion
<1>3. ItemVersion(x) = to => y = x
  BY SetSame DEF ItemVersion, WithVersion
<1>4. Metadata(x) = Metadata(y)
  <2>1. FieldOf(x, "metadata") = FieldOf(y, "metadata")
    BY <1>1
  <2>2. \A u : FieldOf(u, "metadata").is = "object" => u.fields["metadata"] = FieldOf(u, "metadata")
    BY DEF FieldOf, Null
  <2>. QED
    BY <2>1, <2>2 DEF Metadata
<1>. QED
  BY <1>2, <1>3, <1>4 DEF SameItem

\* A value that is there is not none.
LEMMA OptionalValue ==
  /\ \A x : Some(x) # None /\ Elements(Some(x)) = {x} /\ Some(x)[1] = x
  /\ Elements(None) = {}
  BY DEF Some, None, Elements

\* All metadata is that of the original but the labels, which are those of the answer.
LEMMA Restored ==
  ASSUME NEW x, NEW y, RestoreObjectMeta(x, y) # None
  PROVE  \E z : /\ RestoreObjectMeta(x, y) = Some(z)
                /\ \A k \in (Fields(Metadata(x)) \cup Fields(Metadata(z))) \ Changeable :
                     FieldOf(Metadata(x), k) = FieldOf(Metadata(z), k)
                /\ \A k : k # "metadata" => FieldOf(z, k) = FieldOf(y, k)
                /\ z.is = "object"
<1>. DEFINE old == Metadata(x)
            new == Metadata(y)
            returned == {k \in Changeable : FieldOf(new, k) # Null}
            meta == Object([k \in (Fields(old) \ Changeable) \cup returned |->
                              IF k \in returned THEN new.fields[k] ELSE old.fields[k]])
            z == Set(y, "metadata", meta)
<1>1. RestoreObjectMeta(x, y) = Some(z)
  BY DEF RestoreObjectMeta
<1>2. /\ z.is = "object" /\ FieldOf(z, "metadata") = meta
      /\ \A k : k # "metadata" => FieldOf(z, k) = FieldOf(y, k)
  BY SetFields
<1>3. meta.is = "object" /\ Fields(meta) = (Fields(old) \ Changeable) \cup returned
  BY DEF Object, Fields
<1>4. Metadata(z) = meta
  <2>1. z.fields["metadata"] = meta
    BY DEF Set, Object
  <2>. QED
    BY <1>2, <1>3, <2>1 DEF Metadata
<1>5. \A k \in Fields(meta) \ Changeable : k \in Fields(old) /\ meta.fields[k] = old.fields[k]
  BY <1>3 DEF Object
<1>6. \A k \in (Fields(old) \cup Fields(meta)) \ Changeable : FieldOf(old, k) = FieldOf(meta, k)
  BY <1>3, <1>5 DEF FieldOf
<1>. QED
  BY <1>1, <1>2, <1>4, <1>6

\* What is accepted in the place of an object is that object, with the contents it got.
LEMMA AcceptedIsSame ==
  ASSUME NEW x, NEW y, NEW to, ItemVersion(x) # to, Accept(x, y, to) # None
  PROVE  \E z : /\ Accept(x, y, to) = Some(z) /\ SameItem(x, z, to)
                /\ FieldOf(z, "spec") = FieldOf(y, "spec")
<1>1. ItemVersion(y) = to /\ ValidateConvertedObject(x, y) /\ Accept(x, y, to) = RestoreObjectMeta(x, y)
  BY DEF Accept
<1>2. PICK z : /\ RestoreObjectMeta(x, y) = Some(z)
               /\ \A k \in (Fields(Metadata(x)) \cup Fields(Metadata(z))) \ Changeable :
                    FieldOf(Metadata(x), k) = FieldOf(Metadata(z), k)
               /\ \A k : k # "metadata" => FieldOf(z, k) = FieldOf(y, k)
  BY <1>1, Restored
<1>3. FieldOf(z, "spec") = FieldOf(y, "spec") /\ FieldOf(z, "kind") = FieldOf(y, "kind")
      /\ ItemVersion(z) = ItemVersion(y)
  BY <1>2 DEF ItemVersion
<1>. QED
  BY <1>1, <1>2, <1>3 DEF SameItem, ValidateConvertedObject

\* The items of a list are taken in the same places.
LEMMA OfList ==
  ASSUME NEW in, IsListOfObjects(in), NEW to, NEW items
  PROVE  /\ [in EXCEPT !.version = to, !.items = items].is = "list"
         /\ [in EXCEPT !.version = to, !.items = items].version = to
         /\ [in EXCEPT !.version = to, !.items = items].items = items
         /\ [in EXCEPT !.version = to].is = "list"
         /\ [in EXCEPT !.version = to].version = to
         /\ [in EXCEPT !.version = to].items = in.items
         /\ in.is = "list"
<1>. PICK v, s : in = [is |-> "list", version |-> v, items |-> s]
  BY DEF IsListOfObjects
<1>. QED
  OBVIOUS

\* To set the versions alone keeps all objects.
LEMMA NothingConverted ==
  ASSUME NEW in, IsInput(in), NEW to, to # Null
  PROVE  SameObjects(in, ConvertNothing(in, to), to)
<1>1. CASE in.is = "list"
  <2>1. IsListOfObjects(in)
    BY <1>1 DEF IsInput
  <2>. DEFINE items == [i \in DOMAIN in.items |-> WithVersion(in.items[i], to)]
  <2>2. ConvertNothing(in, to) = [in EXCEPT !.version = to, !.items = items]
    BY <1>1 DEF ConvertNothing, Each
  <2>3. \A i \in DOMAIN in.items : SameItem(in.items[i], items[i], to)
    BY <2>1, VersionSet DEF IsListOfObjects
  <2>4. DOMAIN items = DOMAIN in.items
    OBVIOUS
  <2>. HIDE DEF items
  <2>. QED
    BY <1>1, <2>1, <2>2, <2>3, <2>4, OfList DEF SameObjects, ItemsOf
<1>2. CASE in.is = "object"
  <2>1. ConvertNothing(in, to) = WithVersion(in, to) /\ WithVersion(in, to).is = "object" /\ IsObject(in)
    BY <1>2, SetFields DEF ConvertNothing, WithVersion, IsInput
  <2>2. SameItem(in, WithVersion(in, to), to)
    BY <2>1, VersionSet
  <2>. QED
    BY <1>2, <2>1, <2>2 DEF SameObjects, ItemsOf
<1>. QED
  BY <1>1, <1>2 DEF IsInput

\* Nothing is sent if all is in the version asked for: no object changes.
LEMMA UnchangedIsSame ==
  ASSUME NEW x, NEW to, ItemVersion(x) = to
  PROVE  SameItem(x, x, to)
  BY DEF SameItem

\* A list that is accepted has in each place the object that was there, with the
\* contents of its answer if it was sent.
LEMMA FilledIn ==
  ASSUME NEW in, IsListOfObjects(in), NEW to, NEW objects, FillIn(in, to, objects) # None
  PROVE  \E out : /\ FillIn(in, to, objects) = Some(out) /\ SameObjects(in, out, to)
                  /\ \A i \in Unconverted(in, to) :
                       FieldOf(ItemsOf(out)[i], "spec")
                         = FieldOf(objects[AnswerTo(in.items, to, i)], "spec")
<1>. DEFINE answer(i) == objects[AnswerTo(in.items, to, i)]
            filled == [i \in DOMAIN in.items |->
                         IF ItemVersion(in.items[i]) = to THEN Some(in.items[i])
                         ELSE Accept(in.items[i], answer(i), to)]
            items == [i \in DOMAIN filled |-> filled[i][1]]
            out == [in EXCEPT !.version = to, !.items = items]
<1>1. FillIn(in, to, objects) = IF None \in Elements(filled) THEN None ELSE Some(out)
  BY DEF FillIn, Each
<1>2. None \notin Elements(filled) /\ FillIn(in, to, objects) = Some(out)
  BY <1>1
<1>3. \A i \in DOMAIN in.items :
        /\ filled[i] # None
        /\ filled[i] = IF ItemVersion(in.items[i]) = to THEN Some(in.items[i])
                       ELSE Accept(in.items[i], answer(i), to)
  BY <1>2 DEF Elements
<1>4. DOMAIN items = DOMAIN in.items /\ \A i \in DOMAIN in.items : items[i] = filled[i][1]
  OBVIOUS
<1>. HIDE DEF filled, items, answer
<1>5. ASSUME NEW i \in DOMAIN in.items
      PROVE  /\ SameItem(in.items[i], items[i], to)
             /\ ItemVersion(in.items[i]) # to => FieldOf(items[i], "spec") = FieldOf(answer(i), "spec")
  <2>1. CASE ItemVersion(in.items[i]) = to
    BY <1>3, <1>4, <2>1, UnchangedIsSame, OptionalValue
  <2>2. CASE ItemVersion(in.items[i]) # to
    BY <1>3, <1>4, <2>2, AcceptedIsSame, OptionalValue
  <2>. QED
    BY <2>1, <2>2
<1>6. out.is = "list" /\ out.version = to /\ out.items = items /\ in.is = "list"
  BY OfList
<1>. HIDE DEF out
<1>7. SameObjects(in, out, to)
  BY <1>4, <1>5, <1>6 DEF SameObjects, ItemsOf
<1>8. \A i \in Unconverted(in, to) : FieldOf(ItemsOf(out)[i], "spec") = FieldOf(answer(i), "spec")
  BY <1>5, <1>6 DEF Unconverted, ItemsOf
<1>. QED
  BY <1>2, <1>7, <1>8 DEF answer

-----------------------------------------------------------------------------
(* Sets of places: how many are up to one of them, and their order.        *)

UpTo(U, i) == {j \in U : j <= i}

Enumerates(p, U) ==
  p \in [1 .. Cardinality(U) -> U] /\ \A m, n \in DOMAIN p : m < n => p[m] < p[n]

\* The number of members up to one of them grows with it.
LEMMA CountsUp ==
  ASSUME NEW U \in SUBSET Nat, IsFiniteSet(U)
  PROVE  /\ \A i \in U : Cardinality(UpTo(U, i)) \in 1 .. Cardinality(U)
         /\ \A i, j \in U : i < j => Cardinality(UpTo(U, i)) < Cardinality(UpTo(U, j))
<1>1. \A i \in U : UpTo(U, i) \in SUBSET U /\ i \in UpTo(U, i)
  BY DEF UpTo
<1>2. ASSUME NEW i \in U
      PROVE  /\ IsFiniteSet(UpTo(U, i)) /\ Cardinality(UpTo(U, i)) \in Nat
             /\ Cardinality(UpTo(U, i)) \in 1 .. Cardinality(U)
  <2>1. /\ IsFiniteSet(UpTo(U, i)) /\ Cardinality(UpTo(U, i)) \in Nat
        /\ Cardinality(UpTo(U, i)) <= Cardinality(U) /\ Cardinality(U) \in Nat
    BY <1>1, FS_Subset, FS_CardinalityType
  <2>2. Cardinality(UpTo(U, i)) # 0
    BY <1>1, <2>1, FS_EmptySet
  <2>. QED
    BY <2>1, <2>2
<1>3. ASSUME NEW i \in U, NEW j \in U, i < j
      PROVE  Cardinality(UpTo(U, i)) < Cardinality(UpTo(U, j))
  <2>1. UpTo(U, i) \in SUBSET UpTo(U, j) /\ UpTo(U, i) # UpTo(U, j)
    <3>1. \A k \in U : k \in Nat
      OBVIOUS
    <3>2. \A k \in UpTo(U, i) : k \in UpTo(U, j)
      BY <1>3, <3>1 DEF UpTo
    <3>3. j \in UpTo(U, j) /\ j \notin UpTo(U, i)
      BY <1>3, <3>1 DEF UpTo
    <3>. QED
      BY <3>2, <3>3
  <2>2. /\ Cardinality(UpTo(U, i)) <= Cardinality(UpTo(U, j))
        /\ Cardinality(UpTo(U, i)) # Cardinality(UpTo(U, j))
    BY <1>2, <2>1, FS_Subset
  <2>. QED
    BY <1>2, <2>2
<1>. QED
  BY <1>2, <1>3

\* A finite set of places can be put in order.
LEMMA AnEnumeration ==
  ASSUME NEW U \in SUBSET Nat, IsFiniteSet(U)
  PROVE  \E p : Enumerates(p, U)
<1>. DEFINE c == [i \in U |-> Cardinality(UpTo(U, i))]
            N == Cardinality(U)
            p == [m \in 1 .. N |-> CHOOSE i \in U : c[i] = m]
<1>1. N \in Nat
  BY FS_CardinalityType
<1>2. c \in [U -> 1 .. N] /\ \A i, j \in U : i < j => c[i] < c[j]
  BY CountsUp
<1>. HIDE DEF c
<1>3. c \in Injection(U, 1 .. N)
  <2>1. \A i, j \in U : c[i] = c[j] => i = j
    <3>. SUFFICES ASSUME NEW i \in U, NEW j \in U, c[i] = c[j] PROVE i = j
      OBVIOUS
    <3>1. c[i] \in Nat /\ c[j] \in Nat /\ i \in Nat /\ j \in Nat
      BY <1>2, <1>1
    <3>. QED
      BY <1>2, <3>1
  <2>. QED
    BY <1>2, <2>1 DEF Injection, IsInjective
<1>4. IsFiniteSet(1 .. N) /\ Cardinality(1 .. N) = N
  BY <1>1, FS_Interval
<1>5. c \in Surjection(U, 1 .. N)
  BY <1>3, <1>4, FS_Injection
<1>6. \A m \in 1 .. N : \E i \in U : c[i] = m
  BY <1>5 DEF Surjection
<1>7. \A m \in 1 .. N : p[m] \in U /\ c[p[m]] = m
  BY <1>6
<1>8. p \in [1 .. N -> U] /\ DOMAIN p = 1 .. N
  BY <1>7
<1>. HIDE DEF p
<1>9. ASSUME NEW m \in 1 .. N, NEW n \in 1 .. N, m < n
      PROVE  p[m] < p[n]
  <2>1. p[m] \in Nat /\ p[n] \in Nat /\ p[m] # p[n]
    <3>1. m # n
      BY <1>1, <1>9
    <3>. QED
      BY <1>7, <3>1
  <2>2. ~ p[n] < p[m]
    <3>1. p[n] < p[m] => c[p[n]] < c[p[m]]
      BY <1>2, <1>7
    <3>. QED
      BY <1>7, <1>9, <3>1
  <2>. QED
    BY <2>1, <2>2
<1>. QED
  BY <1>8, <1>9 DEF Enumerates

\* The place of a member in an enumeration is the number of members up to it.
LEMMA PlaceInEnumeration ==
  ASSUME NEW U \in SUBSET Nat, IsFiniteSet(U), NEW p, Enumerates(p, U), NEW i \in U
  PROVE  /\ Cardinality(UpTo(U, i)) \in DOMAIN p
         /\ p[Cardinality(UpTo(U, i))] = i
<1>. DEFINE N == Cardinality(U)
<1>1. /\ N \in Nat /\ p \in [1 .. N -> U] /\ DOMAIN p = 1 .. N
      /\ \A m, n \in 1 .. N : m < n => p[m] < p[n]
  BY FS_CardinalityType DEF Enumerates
<1>. HIDE DEF N
<1>2. \A m, n \in 1 .. N : m <= n <=> p[m] <= p[n]
  <2>1. \A m \in 1 .. N : p[m] \in Nat
    BY <1>1
  <2>. SUFFICES ASSUME NEW m \in 1 .. N, NEW n \in 1 .. N PROVE m <= n <=> p[m] <= p[n]
    OBVIOUS
  <2>2. CASE m < n
    BY <1>1, <2>1, <2>2
  <2>3. CASE n < m
    <3>1. p[n] < p[m]
      BY <1>1, <2>3
    <3>. QED
      BY <1>1, <2>1, <2>3, <3>1
  <2>4. CASE m = n
    BY <1>1, <2>1, <2>4
  <2>. QED
    BY <1>1, <2>2, <2>3, <2>4
<1>3. \A m, n \in 1 .. N : p[m] = p[n] => m = n
  <2>. SUFFICES ASSUME NEW m \in 1 .. N, NEW n \in 1 .. N, p[m] = p[n] PROVE m = n
    OBVIOUS
  <2>1. p[m] \in Nat
    BY <1>1
  <2>2. m <= n /\ n <= m
    BY <1>2, <2>1
  <2>. QED
    BY <1>1, <2>2
<1>4. IsFiniteSet(1 .. N) /\ Cardinality(1 .. N) = N
  BY <1>1, FS_Interval
<1>5. p \in Surjection(1 .. N, U)
  <2>1. p \in Injection(1 .. N, U)
    BY <1>1, <1>3 DEF Injection, IsInjective
  <2>. QED
    BY <1>4, <2>1, FS_Injection DEF N
<1>6. PICK n \in 1 .. N : p[n] = i
  BY <1>5 DEF Surjection
<1>7. n \in Nat /\ 1 .. n \subseteq 1 .. N
  BY <1>1
<1>8. Cardinality(UpTo(U, i)) = n
  <2>. DEFINE q == [m \in 1 .. n |-> p[m]]
  <2>1. \A m \in 1 .. n : m \in 1 .. N /\ q[m] = p[m] /\ q[m] \in UpTo(U, i)
    BY <1>1, <1>2, <1>6, <1>7 DEF UpTo
  <2>2. q \in [1 .. n -> UpTo(U, i)]
    BY <2>1
  <2>. HIDE DEF q
  <2>3. q \in Injection(1 .. n, UpTo(U, i))
    BY <1>3, <2>1, <2>2 DEF Injection, IsInjective
  <2>4. ASSUME NEW j \in UpTo(U, i)
        PROVE  \E m \in 1 .. n : q[m] = j
    <3>1. PICK m \in 1 .. N : p[m] = j
      BY <1>5 DEF Surjection, UpTo
    <3>2. m <= n
      BY <1>2, <1>6, <3>1 DEF UpTo
    <3>. QED
      BY <1>1, <2>1, <3>1, <3>2
  <2>5. q \in Bijection(1 .. n, UpTo(U, i))
    BY <2>2, <2>3, <2>4 DEF Bijection, Surjection
  <2>. QED
    BY <1>7, <2>5, FS_CountingElements DEF ExistsBijection
<1>. QED
  BY <1>1, <1>6, <1>8

-----------------------------------------------------------------------------
(* The objects that are sent, and their answers.                           *)

\* The places of what is sent are finitely many, and an answer is found by counting them.
LEMMA UnconvertedPlaces ==
  ASSUME NEW in, IsInput(in), NEW to
  PROVE  /\ Unconverted(in, to) \in SUBSET Nat /\ IsFiniteSet(Unconverted(in, to))
         /\ \A i \in Unconverted(in, to) :
              AnswerTo(ItemsOf(in), to, i) = Cardinality(UpTo(Unconverted(in, to), i))
<1>. DEFINE U == Unconverted(in, to)
<1>1. PICK n \in Nat : DOMAIN ItemsOf(in) = 1 .. n
  <2>1. CASE in.is = "list"
    <3>1. PICK n \in Nat : DOMAIN in.items = 1 .. n
      <4>1. in.items \in Seq(Elements(in.items))
        BY <2>1 DEF IsInput, IsListOfObjects
      <4>. QED
        BY <4>1
    <3>. QED
      BY <2>1, <3>1 DEF ItemsOf
  <2>2. CASE in.is # "list"
    <3>1. DOMAIN <<in>> = 1 .. 1
      OBVIOUS
    <3>. QED
      BY <2>2, <3>1 DEF ItemsOf
  <2>. QED
    BY <2>1, <2>2
<1>2. U \in SUBSET (1 .. n)
  BY <1>1 DEF Unconverted
<1>3. IsFiniteSet(U)
  <2>1. IsFiniteSet(1 .. n)
    BY FS_Interval
  <2>. QED
    BY <1>2, <2>1, FS_Subset
<1>4. ASSUME NEW i \in U
      PROVE  AnswerTo(ItemsOf(in), to, i) = Cardinality(UpTo(U, i))
  <2>1. i \in Nat /\ i <= n
    BY <1>2
  <2>2. \A j \in 1 .. i : j \in 1 .. n
    BY <2>1
  <2>3. \A j \in 1 .. i : ItemVersion(ItemsOf(in)[j]) # to <=> j \in U
    BY <1>1, <2>2 DEF Unconverted
  <2>4. \A j \in U : j \in 1 .. i <=> j <= i
    BY <1>2, <2>1
  <2>5. {j \in 1 .. i : ItemVersion(ItemsOf(in)[j]) # to} = UpTo(U, i)
    BY <2>3, <2>4 DEF UpTo
  <2>. QED
    BY <2>5 DEF AnswerTo
<1>. QED
  BY <1>2, <1>3, <1>4

\* The answer that is taken for an item is the one to that item.
LEMMA AnswerIsOwn ==
  ASSUME NEW in, IsInput(in), NEW to, NEW i \in Unconverted(in, to)
  PROVE  /\ AnswerTo(ItemsOf(in), to, i) \in DOMAIN ObjectsToConvert(in, to)
         /\ ObjectsToConvert(in, to)[AnswerTo(ItemsOf(in), to, i)] = ItemsOf(in)[i]
<1>1. Enumerates(Places(in, to), Unconverted(in, to))
  BY UnconvertedPlaces, AnEnumeration DEF Places, Enumerates
<1>2. /\ AnswerTo(ItemsOf(in), to, i) \in DOMAIN Places(in, to)
      /\ Places(in, to)[AnswerTo(ItemsOf(in), to, i)] = i
  BY <1>1, UnconvertedPlaces, PlaceInEnumeration
<1>. QED
  BY <1>2 DEF ObjectsToConvert, Each

\* An answer that is taken is a success, and in v1 one to the request.
LEMMA CheckedAnswer ==
  ASSUME NEW version, NEW uid, NEW response, ConvertedObjects(version, uid, response) # None
  PROVE  /\ response.body # None /\ response.body[1].status = "Success"
         /\ version = "v1" => response.body[1].uid = uid
         /\ ConvertedObjects(version, uid, response) = Some(response.body[1].objects)
  BY DEF ConvertedObjects

-----------------------------------------------------------------------------
(* What an input is converted to.                                          *)

\* What is accepted of the webhook.
Answered(in, to, objects) ==
  IF in.is = "list" THEN FillIn(in, to, objects) ELSE Accept(in, objects[1], to)

\* An input is converted by setting versions, or it is in the version asked for, or by
\* the answer of the webhook.
LEMMA WaysOfConversion ==
  ASSUME NEW in, NEW to, NEW crd, NEW uid, NEW response,
         ConvertToVersion(in, to, crd, uid, response) # None
  PROVE  \/ /\ crd.strategy = "None" \/ IsEmptyObject(in)
            /\ ConvertToVersion(in, to, crd, uid, response) = Some(ConvertNothing(in, to))
         \/ /\ Unconverted(in, to) = {}
            /\ ConvertToVersion(in, to, crd, uid, response)
                 = Some(IF in.is = "list" THEN [in EXCEPT !.version = to] ELSE in)
         \/ /\ Unconverted(in, to) # {}
            /\ ConvertedObjects(ReviewVersion(crd.reviewVersions)[1], uid, response) # None
            /\ ConvertToVersion(in, to, crd, uid, response)
                 = Answered(in, to, ConvertedObjects(ReviewVersion(crd.reviewVersions)[1], uid, response)[1])
<1>. DEFINE objects == ConvertedObjects(ReviewVersion(crd.reviewVersions)[1], uid, response)
<1>1. CASE crd.strategy = "None"
  BY <1>1 DEF ConvertToVersion
<1>2. CASE crd.strategy # "None"
  <2>1. ConvertToVersion(in, to, crd, uid, response)
          = WebhookConvert(in, to, crd.reviewVersions, uid, response)
    BY <1>2 DEF ConvertToVersion
  <2>2. CASE IsEmptyObject(in)
    BY <2>1, <2>2 DEF WebhookConvert
  <2>3. CASE ~ IsEmptyObject(in)
    <3>1. ReviewVersion(crd.reviewVersions) # None
      BY <2>1, <2>3 DEF WebhookConvert
    <3>2. CASE Unconverted(in, to) = {}
      BY <2>1, <2>3, <3>1, <3>2 DEF WebhookConvert
    <3>3. CASE Unconverted(in, to) # {}
      <4>1. WebhookConvert(in, to, crd.reviewVersions, uid, response)
              = IF objects = None \/ Len(objects[1]) # Len(ObjectsToConvert(in, to)) THEN None
                ELSE IF in.is = "list" THEN FillIn(in, to, objects[1])
                ELSE Accept(in, objects[1][1], to)
        BY <2>3, <3>1, <3>3 DEF WebhookConvert
      <4>. QED
        BY <2>1, <3>3, <4>1 DEF Answered
    <3>. QED
      BY <3>2, <3>3
  <2>. QED
    BY <2>2, <2>3
<1>. QED
  BY <1>1, <1>2

\* What is accepted of an answer is the same objects, each with what it was answered.
LEMMA AnsweredIsSame ==
  ASSUME NEW in, IsInput(in), NEW to, Unconverted(in, to) # {}, NEW objects,
         Answered(in, to, objects) # None
  PROVE  \E out : /\ Answered(in, to, objects) = Some(out) /\ SameObjects(in, out, to)
                  /\ \A i \in Unconverted(in, to) :
                       FieldOf(ItemsOf(out)[i], "spec")
                         = FieldOf(objects[AnswerTo(ItemsOf(in), to, i)], "spec")
<1>1. CASE in.is = "list"
  BY <1>1, FilledIn DEF Answered, ItemsOf, IsInput
<1>2. CASE in.is = "object"
  <2>1. ItemsOf(in) = <<in>> /\ DOMAIN <<in>> = {1} /\ <<in>>[1] = in
    BY <1>2 DEF ItemsOf
  <2>2. Unconverted(in, to) = {1} /\ ItemVersion(in) # to
    BY <2>1 DEF Unconverted
  <2>3. PICK z : /\ Accept(in, objects[1], to) = Some(z) /\ SameItem(in, z, to)
                 /\ FieldOf(z, "spec") = FieldOf(objects[1], "spec")
    BY <1>2, <2>2, AcceptedIsSame DEF Answered
  <2>4. z.is = "object"
    <3>1. RestoreObjectMeta(in, objects[1]) = Some(z) /\ Some(z) # None /\ Some(z)[1] = z
      BY <2>3, OptionalValue DEF Accept
    <3>2. PICK y : RestoreObjectMeta(in, objects[1]) = Some(y) /\ y.is = "object"
      BY <3>1, Restored
    <3>3. Some(y)[1] = y
      BY OptionalValue
    <3>. QED
      BY <3>1, <3>2, <3>3
  <2>5. AnswerTo(ItemsOf(in), to, 1) = 1
    <3>1. {j \in 1 .. 1 : ItemVersion(ItemsOf(in)[j]) # to} = {1}
      BY <2>1, <2>2
    <3>. QED
      BY <3>1, FS_Singleton DEF AnswerTo
  <2>6. ItemsOf(z) = <<z>> /\ DOMAIN <<z>> = {1} /\ <<z>>[1] = z
    BY <2>4 DEF ItemsOf
  <2>7. SameObjects(in, z, to)
    BY <1>2, <2>1, <2>3, <2>4, <2>6 DEF SameObjects
  <2>. QED
    BY <1>2, <2>2, <2>3, <2>5, <2>6, <2>7 DEF Answered
<1>. QED
  BY <1>1, <1>2 DEF IsInput

\* What is in the version asked for is only given that version as a list.
LEMMA NothingToConvert ==
  ASSUME NEW in, IsInput(in), NEW to, Unconverted(in, to) = {}
  PROVE  SameObjects(in, IF in.is = "list" THEN [in EXCEPT !.version = to] ELSE in, to)
<1>. DEFINE out == IF in.is = "list" THEN [in EXCEPT !.version = to] ELSE in
<1>1. /\ out.is = in.is /\ ItemsOf(out) = ItemsOf(in)
      /\ in.is = "list" => out.version = to
  <2>1. CASE in.is = "list"
    BY <2>1, OfList DEF IsInput, ItemsOf
  <2>2. CASE in.is # "list"
    BY <2>2
  <2>. QED
    BY <2>1, <2>2
<1>2. \A i \in DOMAIN ItemsOf(in) : SameItem(ItemsOf(in)[i], ItemsOf(in)[i], to)
  BY UnchangedIsSame DEF Unconverted
<1>. HIDE DEF out
<1>. QED
  BY <1>1, <1>2 DEF SameObjects, out

\* Whatever a webhook answers, what is accepted are the objects that were asked for
\* (webhook_converter.go Convert, validateConvertedObject, restoreObjectMeta).
THEOREM ConversionKeepsObjects ==
  ASSUME NEW in, IsInput(in), NEW to, to # Null, NEW crd, NEW uid, NEW response
  PROVE  SameConverted(in, to, crd, uid, response)
<1>. DEFINE out == ConvertToVersion(in, to, crd, uid, response)
<1>. SUFFICES ASSUME NEW x \in Elements(out) PROVE SameObjects(in, x, to)
  BY DEF SameConverted
<1>1. out # None
  BY OptionalValue
<1>2. CASE out = Some(ConvertNothing(in, to))
  BY <1>2, OptionalValue, NothingConverted
<1>3. CASE /\ Unconverted(in, to) = {}
           /\ out = Some(IF in.is = "list" THEN [in EXCEPT !.version = to] ELSE in)
  BY <1>3, OptionalValue, NothingToConvert
<1>4. ASSUME NEW objects, Unconverted(in, to) # {}, out = Answered(in, to, objects)
      PROVE  SameObjects(in, x, to)
  <2>1. PICK y : Answered(in, to, objects) = Some(y) /\ SameObjects(in, y, to)
    BY <1>1, <1>4, AnsweredIsSame
  <2>2. x = y
    BY <1>4, <2>1, OptionalValue
  <2>. QED
    BY <2>1, <2>2
<1>5. \/ out = Some(ConvertNothing(in, to))
      \/ /\ Unconverted(in, to) = {}
         /\ out = Some(IF in.is = "list" THEN [in EXCEPT !.version = to] ELSE in)
      \/ \E objects : Unconverted(in, to) # {} /\ out = Answered(in, to, objects)
  <2>. HIDE DEF out
  <2>1. \/ out = Some(ConvertNothing(in, to))
        \/ /\ Unconverted(in, to) = {}
           /\ out = Some(IF in.is = "list" THEN [in EXCEPT !.version = to] ELSE in)
        \/ /\ Unconverted(in, to) # {}
           /\ out = Answered(in, to, ConvertedObjects(ReviewVersion(crd.reviewVersions)[1], uid, response)[1])
    BY <1>1, WaysOfConversion, Zenon DEF out
  <2>. QED
    BY <2>1
<1>. HIDE DEF out
<1>. QED
  BY <1>2, <1>3, <1>4, <1>5

\* No answer is taken that is not the answer to this request, or that is no success
\* (webhook_converter.go getConvertedObjectsFromResponse).
THEOREM OnlyItsAnswerIsTaken ==
  ASSUME NEW in, IsInput(in), NEW to, NEW crd, NEW uid, NEW response
  PROVE  AnswerChecked(in, to, crd, uid, response)
<1>. SUFFICES ASSUME Asked(in, to, crd), ConvertToVersion(in, to, crd, uid, response) # None
              PROVE  /\ response.body # None /\ response.body[1].status = "Success"
                     /\ ReviewVersion(crd.reviewVersions) = Some("v1") => response.body[1].uid = uid
  BY DEF AnswerChecked
<1>1. ConvertedObjects(ReviewVersion(crd.reviewVersions)[1], uid, response) # None
  BY WaysOfConversion DEF Asked
<1>2. ReviewVersion(crd.reviewVersions) = Some("v1") => ReviewVersion(crd.reviewVersions)[1] = "v1"
  BY OptionalValue
<1>. QED
  BY <1>1, <1>2, CheckedAnswer

\* Of a list, some of which is not sent, each object gets the contents that the webhook
\* made of it, for any webhook (the two indices of webhook_converter.go Convert).
THEOREM EachGetsItsOwn ==
  ASSUME NEW in, IsInput(in), NEW to, NEW crd, NEW uid, NEW response, NEW Made(_)
  PROVE  OwnContents(in, to, crd, uid, response, Made)
<1>. DEFINE out == ConvertToVersion(in, to, crd, uid, response)
            sent == ObjectsToConvert(in, to)
            objects == response.body[1].objects
<1>. SUFFICES ASSUME Asked(in, to, crd), response.body # None, objects = Each(sent, Made),
                     NEW x \in Elements(out), NEW i \in Unconverted(in, to)
              PROVE  FieldOf(ItemsOf(x)[i], "spec") = FieldOf(Made(ItemsOf(in)[i]), "spec")
  BY DEF OwnContents, Honest
<1>1. out # None /\ Unconverted(in, to) # {}
  BY OptionalValue DEF Asked
<1>2. out = Answered(in, to, objects)
  <2>. DEFINE answer == ConvertedObjects(ReviewVersion(crd.reviewVersions)[1], uid, response)
  <2>1. answer # None /\ out = Answered(in, to, answer[1])
    <3>1. crd.strategy # "None" /\ ~ IsEmptyObject(in)
      BY DEF Asked
    <3>. QED
      BY <1>1, <3>1, WaysOfConversion, Zenon
  <2>2. answer[1] = objects
    BY <2>1, CheckedAnswer, OptionalValue
  <2>. QED
    BY <2>1, <2>2
<1>3. PICK y : /\ Answered(in, to, objects) = Some(y)
               /\ FieldOf(ItemsOf(y)[i], "spec") = FieldOf(objects[AnswerTo(ItemsOf(in), to, i)], "spec")
  BY <1>1, <1>2, AnsweredIsSame
<1>4. x = y
  BY <1>2, <1>3, OptionalValue
<1>5. objects[AnswerTo(ItemsOf(in), to, i)] = Made(ItemsOf(in)[i])
  BY AnswerIsOwn DEF Each
<1>. QED
  BY <1>3, <1>4, <1>5

\* The length of a sequence is the last of its places.
LEMMA SameLength ==
  ASSUME NEW n \in Nat, NEW f, f = [i \in 1 .. n |-> f[i]]
  PROVE  Len(f) = n
<1>. DEFINE S == {f[i] : i \in 1 .. n}
<1>1. f \in [1 .. n -> S]
  OBVIOUS
<1>2. f \in Seq(S)
  BY <1>1
<1>3. DOMAIN f = 1 .. Len(f) /\ Len(f) \in Nat /\ DOMAIN f = 1 .. n
  BY <1>1, <1>2
<1>. QED
  BY <1>3

\* A webhook that answers as it should, each object with one that can take its place,
\* is not refused, however many of the objects were sent.
THEOREM GoodAnswersAreTaken ==
  ASSUME NEW in, IsInput(in), NEW to, NEW crd, NEW uid, NEW response, NEW Made(_),
         {to} \cup VersionsIn(in) \subseteq crd.versions,
         \A i \in Unconverted(in, to) :
           Accept(ItemsOf(in)[i], Made(ItemsOf(in)[i]), to) # None
  PROVE  HonestAccepted(in, to, crd, uid, response, Made)
<1>. DEFINE out == ConvertToVersion(in, to, crd, uid, response)
            sent == ObjectsToConvert(in, to)
            objects == response.body[1].objects
            version == ReviewVersion(crd.reviewVersions)[1]
<1>. SUFFICES ASSUME Asked(in, to, crd), response.body # None, objects = Each(sent, Made),
                     response.gvk = "v1", response.body[1].status = "Success",
                     response.body[1].uid = uid, ReviewVersion(crd.reviewVersions) # None
              PROVE  out # None
  BY DEF HonestAccepted, Honest
<1>1. ConvertedObjects(version, uid, response) = Some(objects)
  BY DEF ConvertedObjects
<1>2. Len(objects) = Len(sent)
  <2>1. DOMAIN Places(in, to) = 1 .. Cardinality(Unconverted(in, to)) /\ Cardinality(Unconverted(in, to)) \in Nat
    BY UnconvertedPlaces, AnEnumeration, FS_CardinalityType DEF Places, Enumerates
  <2>2. sent = [i \in DOMAIN Places(in, to) |-> ItemsOf(in)[Places(in, to)[i]]]
    BY DEF ObjectsToConvert, Each
  <2>3. sent = [i \in 1 .. Cardinality(Unconverted(in, to)) |-> sent[i]]
    BY <2>1, <2>2
  <2>4. objects = [i \in 1 .. Cardinality(Unconverted(in, to)) |-> objects[i]]
    BY <2>1, <2>2 DEF Each
  <2>5. Len(sent) = Cardinality(Unconverted(in, to))
    BY <2>1, <2>3, SameLength
  <2>6. Len(objects) = Cardinality(Unconverted(in, to))
    BY <2>1, <2>4, SameLength
  <2>. QED
    BY <2>5, <2>6
<1>3. \A i \in Unconverted(in, to) : objects[AnswerTo(ItemsOf(in), to, i)] = Made(ItemsOf(in)[i])
  BY AnswerIsOwn DEF Each
<1>4. out = Answered(in, to, objects)
  <2>1. out = WebhookConvert(in, to, crd.reviewVersions, uid, response)
    BY DEF ConvertToVersion, Asked
  <2>2. ~ IsEmptyObject(in) /\ Unconverted(in, to) # {}
    BY DEF Asked
  <2>3. Some(objects) # None /\ Some(objects)[1] = objects
    BY OptionalValue
  <2>. HIDE DEF out, sent, objects, version
  <2>4. WebhookConvert(in, to, crd.reviewVersions, uid, response)
          = IF in.is = "list" THEN FillIn(in, to, Some(objects)[1])
            ELSE Accept(in, Some(objects)[1][1], to)
    BY <1>1, <1>2, <2>2, <2>3 DEF WebhookConvert, sent, version
  <2>. QED
    BY <2>1, <2>3, <2>4 DEF Answered
<1>. HIDE DEF objects
<1>5. CASE in.is = "list"
  <2>. DEFINE filled == [i \in DOMAIN in.items |->
                           IF ItemVersion(in.items[i]) = to THEN Some(in.items[i])
                           ELSE Accept(in.items[i], objects[AnswerTo(in.items, to, i)], to)]
  <2>1. \A i \in DOMAIN in.items : filled[i] # None
    BY <1>3, <1>5, OptionalValue DEF Unconverted, ItemsOf
  <2>2. None \notin Elements(filled)
    <3>1. DOMAIN filled = DOMAIN in.items
      OBVIOUS
    <3>. HIDE DEF filled
    <3>. QED
      BY <2>1, <3>1 DEF Elements
  <2>3. FillIn(in, to, objects) # None
    <3>1. FillIn(in, to, objects)
            = Some([in EXCEPT !.version = to, !.items = Each(filled, LAMBDA x : x[1])])
      BY <2>2 DEF FillIn, Each
    <3>. QED
      BY <3>1, OptionalValue
  <2>. QED
    BY <1>4, <1>5, <2>3 DEF Answered
<1>6. CASE in.is # "list"
  <2>1. ItemsOf(in) = <<in>> /\ DOMAIN <<in>> = {1} /\ <<in>>[1] = in
    BY <1>6 DEF ItemsOf
  <2>2. Unconverted(in, to) = {1} /\ ItemVersion(in) # to
    BY <2>1 DEF Unconverted, Asked
  <2>3. AnswerTo(ItemsOf(in), to, 1) = 1
    <3>1. {j \in 1 .. 1 : ItemVersion(ItemsOf(in)[j]) # to} = {1}
      BY <2>1, <2>2
    <3>. QED
      BY <3>1, FS_Singleton DEF AnswerTo
  <2>. QED
    BY <1>3, <1>4, <1>6, <2>1, <2>2, <2>3 DEF Answered
<1>. QED
  BY <1>5, <1>6

-----------------------------------------------------------------------------
(* The generation of a custom resource, and the status that reports on it.  *)

\* What is read of an object with one field more, or less.
LEMMA FieldSet ==
  ASSUME NEW u, u.is = "object", NEW k, NEW x
  PROVE  /\ Set(u, k, x).is = "object"
         /\ \A j : At(Set(u, k, x), j) = IF j = k THEN Some(x) ELSE At(u, j)
  BY DEF Set, Object, At, Fields

LEMMA FieldDeleted ==
  ASSUME NEW u, u.is = "object", NEW k
  PROVE  /\ Delete(u, {k}).is = "object"
         /\ \A j : At(Delete(u, {k}), j) = IF j = k THEN None ELSE At(u, j)
  BY DEF Delete, Object, At, Fields

\* A field that is put into an object, or taken from it.
LEMMA FieldPut ==
  ASSUME NEW u, u.is = "object", NEW k, NEW v
  PROVE  /\ Put(u, k, At(v, k)).is = "object"
         /\ At(Put(u, k, At(v, k)), k) = At(v, k)
         /\ \A j : j # k => At(Put(u, k, At(v, k)), j) = At(u, j)
<1>1. CASE At(v, k) = None
  <2>1. Put(u, k, At(v, k)) = Delete(u, {k})
    BY <1>1 DEF Put
  <2>2. /\ Delete(u, {k}).is = "object"
        /\ \A j : At(Delete(u, {k}), j) = IF j = k THEN None ELSE At(u, j)
    BY FieldDeleted, Zenon
  <2>. QED
    BY <1>1, <2>1, <2>2
<1>2. CASE At(v, k) # None
  <2>1. At(v, k) = Some(v.fields[k])
    BY <1>2 DEF At
  <2>2. Put(u, k, At(v, k)) = Set(u, k, v.fields[k])
    BY <1>2, <2>1, OptionalValue DEF Put
  <2>. QED
    BY <2>1, <2>2, FieldSet
<1>. QED
  BY <1>1, <1>2

\* An object, of which the metadata is one.
IsResource(u) ==
  u.is = "object" /\ "metadata" \in Fields(u) /\ u.fields["metadata"].is = "object"

LEMMA GenerationSet ==
  ASSUME NEW u, IsResource(u), NEW n
  PROVE  /\ IsResource(WithGeneration(u, n)) /\ Generation(WithGeneration(u, n)) = n
         /\ \A j : j # "metadata" => At(WithGeneration(u, n), j) = At(u, j)
<1>. DEFINE meta == Set(u.fields["metadata"], "generation", Number(n))
            v == WithGeneration(u, n)
<1>1. v = Set(u, "metadata", meta)
  BY DEF WithGeneration
<1>2. meta.is = "object" /\ At(meta, "generation") = Some(Number(n))
  BY FieldSet DEF IsResource
<1>3. /\ v.is = "object" /\ At(v, "metadata") = Some(meta)
      /\ \A j : j # "metadata" => At(v, j) = At(u, j)
  BY <1>1, FieldSet DEF IsResource
<1>4. "metadata" \in Fields(v) /\ v.fields["metadata"] = meta
  BY <1>1 DEF Set, Object, Fields
<1>5. Nested(v, "metadata", "generation") = Some(Number(n))
  BY <1>2, <1>3, OptionalValue DEF Nested
<1>6. Generation(v) = n
  BY <1>5, OptionalValue DEF Generation, Number
<1>. HIDE DEF v, meta
<1>. QED
  BY <1>2, <1>3, <1>4, <1>6 DEF IsResource, v

\* What Reports says depends on the generation, the spec and the status only.
LEMMA SameReport ==
  ASSUME NEW u, NEW v, Generation(u) = Generation(v), At(u, "spec") = At(v, "spec"),
         At(u, "status") = At(v, "status"), Reports(v)
  PROVE  Reports(u)
  BY DEF Reports, Observed, NotAhead, Nested

\* After a change of the spec the status is of a generation before.
LEMMA OlderReport ==
  ASSUME NEW u, NEW v, Generation(v) \in Nat, Generation(u) = Generation(v) + 1,
         At(u, "status") = At(v, "status"), Reports(v)
  PROVE  Reports(u)
<1>. DEFINE o == Nested(v, "status", "observedGeneration")
<1>1. Nested(u, "status", "observedGeneration") = o
  BY DEF Nested
<1>2. Elements(o) \subseteq {Number(n) : n \in 0 .. Generation(v)}
  BY DEF Reports, NotAhead
<1>. HIDE DEF o
<1>3. Elements(o) \subseteq {Number(n) : n \in 0 .. Generation(u)}
  <2>1. \A n \in 0 .. Generation(v) : n \in 0 .. Generation(u)
    OBVIOUS
  <2>. QED
    BY <1>2, <2>1
<1>4. o # Some(Number(Generation(u)))
  <2>. SUFFICES ASSUME o = Some(Number(Generation(u))) PROVE FALSE
    OBVIOUS
  <2>1. PICK n \in 0 .. Generation(v) : Number(n) = Number(Generation(u))
    BY <1>2, OptionalValue
  <2>2. n = Generation(u)
    BY <2>1 DEF Number
  <2>. QED
    BY <2>2
<1>. QED
  BY <1>1, <1>3, <1>4 DEF Reports, Observed, NotAhead

\* The generation that is given to a new object, the generation of a changed one, and the
\* status that a controller writes of what it read: a status that reports on a generation
\* remains one of the spec of that generation (strategy.go, status_strategy.go).
THEOREM StatusIsOfItsSpec ==
  ASSUME StatusEnabled, NEW old, IsResource(old), "spec" \in Fields(old), Generation(old) \in Nat,
         Reports(old)
  PROVE  /\ \A new : IsResource(new) => Reports(PrepareForCreate(new))
         /\ \A new : IsResource(new) => Reports(PrepareForUpdate(new, old))
         /\ \A new, status : status.is = "object" /\ At(new, "status") = Some(Reported(old, status))
              => Reports(PrepareForStatusUpdate(new, old))
<1>1. ASSUME NEW new, IsResource(new)
      PROVE  Reports(PrepareForCreate(new))
  <2>. DEFINE u == Delete(new, {"status"})
  <2>1. IsResource(u) /\ At(u, "status") = None
    BY <1>1, FieldDeleted DEF IsResource, Delete, Object, Fields
  <2>2. At(PrepareForCreate(new), "status") = None
    BY <2>1, GenerationSet DEF PrepareForCreate
  <2>3. Nested(PrepareForCreate(new), "status", "observedGeneration") = None
    BY <2>2 DEF Nested
  <2>. QED
    BY <2>3, OptionalValue DEF Reports, Observed, NotAhead
<1>2. ASSUME NEW new, IsResource(new)
      PROVE  Reports(PrepareForUpdate(new, old))
  <2>. DEFINE same == WithGeneration(new, Generation(old))
              u == Put(same, "status", At(old, "status"))
  <2>1. /\ IsResource(same) /\ Generation(same) = Generation(old)
    BY <1>2, GenerationSet
  <2>2. /\ u.is = "object" /\ At(u, "status") = At(old, "status")
        /\ \A j : j # "status" => At(u, j) = At(same, j)
    BY <2>1, FieldPut DEF IsResource
  <2>3. Generation(u) = Generation(old)
    BY <2>1, <2>2 DEF Generation, Nested
  <2>4. IsResource(u)
    <3>1. At(u, "metadata") = Some(same.fields["metadata"])
      BY <2>1, <2>2 DEF IsResource, At
    <3>2. "metadata" \in Fields(u) /\ At(u, "metadata") = Some(u.fields["metadata"])
      BY <3>1, OptionalValue DEF At
    <3>3. u.fields["metadata"] = same.fields["metadata"]
      BY <3>1, <3>2, OptionalValue
    <3>. QED
      BY <2>1, <2>2, <3>2, <3>3 DEF IsResource
  <2>5. PrepareForUpdate(new, old)
          = IF NonMetadata(u) = NonMetadata(old) THEN u ELSE WithGeneration(u, Generation(old) + 1)
    BY DEF PrepareForUpdate
  <2>. HIDE DEF u
  <2>6. CASE NonMetadata(u) = NonMetadata(old)
    <3>1. At(u, "spec") = At(old, "spec")
      <4>1. ASSUME NEW w, w.is = "object" PROVE At(NonMetadata(w), "spec") = At(w, "spec")
        <5>1. \A j : At(Delete(w, {"metadata"}), j) = IF j = "metadata" THEN None ELSE At(w, j)
          BY <4>1, FieldDeleted, Zenon
        <5>. QED
          BY <5>1 DEF NonMetadata
      <4>. QED
        BY <2>2, <2>6, <4>1 DEF IsResource
    <3>. QED
      BY <2>2, <2>3, <2>5, <2>6, <3>1, SameReport
  <2>7. CASE NonMetadata(u) # NonMetadata(old)
    <3>. DEFINE w == WithGeneration(u, Generation(old) + 1)
    <3>1. Generation(w) = Generation(old) + 1 /\ At(w, "status") = At(old, "status")
      BY <2>2, <2>4, GenerationSet
    <3>. HIDE DEF w
    <3>2. Reports(w)
      BY <3>1, OlderReport
    <3>. QED
      BY <2>5, <2>7, <3>2 DEF w
  <2>. QED
    BY <2>6, <2>7
<1>3. ASSUME NEW new, NEW status, status.is = "object", At(new, "status") = Some(Reported(old, status))
      PROVE  Reports(PrepareForStatusUpdate(new, old))
  <2>. DEFINE u == PrepareForStatusUpdate(new, old)
              observed == Set(status, "observedGeneration", Number(Generation(old)))
              reported == Reported(old, status)
  <2>1. At(u, "status") = Some(reported) /\ \A j : j # "status" => At(u, j) = At(old, j)
    <3>1. /\ At(Put(old, "status", At(new, "status")), "status") = At(new, "status")
          /\ \A j : j # "status" => At(Put(old, "status", At(new, "status")), j) = At(old, j)
      <4>1. old.is = "object"
        BY DEF IsResource
      <4>. QED
        BY <4>1, FieldPut
    <3>. HIDE DEF reported
    <3>2. u = Put(old, "status", At(new, "status"))
      BY DEF PrepareForStatusUpdate
    <3>3. At(new, "status") = Some(reported)
      BY <1>3 DEF reported
    <3>. HIDE DEF u
    <3>. QED
      BY <3>1, <3>2, <3>3
  <2>2. /\ At(reported, "observedGeneration") = Some(Number(Generation(old)))
        /\ At(reported, "of") = Some(old.fields["spec"])
    <3>1. observed.is = "object" /\ At(observed, "observedGeneration") = Some(Number(Generation(old)))
      BY <1>3, FieldSet
    <3>2. reported = Set(observed, "of", old.fields["spec"])
      BY DEF Reported
    <3>. HIDE DEF observed, reported
    <3>. QED
      BY <3>1, <3>2, FieldSet
  <2>3. Generation(u) = Generation(old)
    BY <2>1 DEF Generation, Nested
  <2>4. /\ Nested(u, "status", "observedGeneration") = Some(Number(Generation(u)))
        /\ Nested(u, "status", "of") = Some(old.fields["spec"])
    BY <2>1, <2>2, <2>3, OptionalValue DEF Nested
  <2>5. At(u, "spec") = Some(old.fields["spec"])
    BY <2>1 DEF At, IsResource
  <2>6. Elements(Some(Number(Generation(u)))) \subseteq {Number(n) : n \in 0 .. Generation(u)}
    <3>1. Generation(u) \in 0 .. Generation(u)
      BY <2>3
    <3>. QED
      BY <3>1, OptionalValue
  <2>. HIDE DEF u
  <2>7. Observed(u) /\ NotAhead(u)
    BY <2>4, <2>5, <2>6 DEF Observed, NotAhead
  <2>. QED
    BY <2>7 DEF Reports, u
<1>. QED
  BY <1>1, <1>2, <1>3

\* The replicas that are valid fit into those of a Scale, of any width of integers
\* (validator.go ValidateScaleSpec and ValidateScaleStatus, etcd.go scaleFromCustomResource).
THEOREM ScaleShowsReplicas ==
  ASSUME NEW u, NEW f, 2 ^ (Int32Bits - 1) \in Nat \ {0}, ValidReplicas(u, f)
  PROVE  Int32(Replicas(u, f)) = Replicas(u, f)
<1>. PICK m : m = 2 ^ (Int32Bits - 1)
  OBVIOUS
<1>. DEFINE r == Nested(u, f, "replicas")
<1>1. Replicas(u, f) \in 0 .. m - 1
  <2>1. r # None => r = Some(r[1])
    BY OptionalValue DEF Nested, At, Some, None
  <2>2. r # None => r[1].number \in 0 .. m - 1
    <3>1. \A x \in Elements(r) : x.number \in 0 .. m - 1
      BY DEF ValidReplicas, MaxInt32
    <3>. HIDE DEF r
    <3>2. r # None => r[1] \in Elements(r)
      BY <2>1, OptionalValue
    <3>. QED
      BY <3>1, <3>2
  <2>3. Replicas(u, f) = IF r = None THEN 0 ELSE r[1].number
    BY DEF Replicas
  <2>. QED
    BY <2>2, <2>3
<1>2. \A n \in 0 .. m - 1 : (n + m) % (2 * m) = n + m
  OBVIOUS
<1>. QED
  BY <1>1, <1>2 DEF Int32

=============================================================================
