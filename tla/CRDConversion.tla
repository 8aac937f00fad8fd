--------------------------- MODULE CRDConversion ---------------------------
(***************************************************************************)
(* The specification of a CRD in both versions of the API, in the internal *)
(* one, and what is made of one to have another (v1/conversion.go,          *)
(* v1beta1/conversion.go, the generated conversions and the defaults).     *)
(* In v1 each version has its schema, subresources, columns and selectable *)
(* fields; internally, and in v1beta1, there are also those of all         *)
(* versions, and identical ones are always there.  A specification is      *)
(*   [preserve, scope, kind, versions, conversion],                        *)
(* with the fields of top in addition where it is internal; a version is   *)
(*   [name, served, storage, schema, subresources, columns, selectable].   *)
(* What is optional is <<>> or <<x>>, and a list that is nil is an empty    *)
(* one.  Groups and names are copied.                                      *)
(***************************************************************************)
EXTENDS Naturals, Sequences

CONSTANT SchemaToV1(_)  \* what the conversion from the internal version makes of a schema

PerVersion == {"schema", "subresources", "columns", "selectable"}

TopOf(field) == IF field = "schema" THEN "validation" ELSE field

Converted(schema) == [x \in DOMAIN schema |-> SchemaToV1(schema[x])]

-----------------------------------------------------------------------------
(* The webhook of conversion: nested in v1.                                *)

ConversionToInternal(c) ==
  [ strategy |-> c.strategy,
    webhook |-> IF c.webhook = <<>> THEN <<>> ELSE c.webhook[1].clientConfig,
    reviewVersions |-> IF c.webhook = <<>> THEN <<>> ELSE c.webhook[1].reviewVersions ]

ConversionToV1(c) ==
  [ strategy |-> c.strategy,
    webhook |-> IF c.webhook = <<>> /\ c.reviewVersions = <<>> THEN <<>>
                ELSE << [clientConfig |-> c.webhook, reviewVersions |-> c.reviewVersions] >> ]

-----------------------------------------------------------------------------
(* v1 and the internal version.                                            *)

\* As if the first version were compared with the last one only.
IdenticalAtEnds(versions, field) == versions[Len(versions)][field] = versions[1][field]

Identical(versions, field) ==
  \A i \in DOMAIN versions : versions[i][field] = versions[1][field]

\* The fields that all versions have in common move to the top.
Moved(versions) ==
  IF versions = <<>> THEN {} ELSE {field \in PerVersion : Identical(versions, field)}

VersionToInternal(v, moved) ==
  [k \in DOMAIN v |-> IF k \in moved THEN <<>> ELSE v[k]]

SpecToInternal(in) ==
  LET moved == Moved(in.versions)
      Top(field) == IF field \in moved THEN in.versions[1][field] ELSE <<>>
  IN [ preserve |-> << in.preserve >>, scope |-> in.scope, kind |-> in.kind,
       version |-> IF in.versions = <<>> THEN <<>> ELSE << in.versions[1].name >>,
       versions |-> [i \in DOMAIN in.versions |-> VersionToInternal(in.versions[i], moved)],
       validation |-> Top("schema"), subresources |-> Top("subresources"),
       columns |-> Top("columns"), selectable |-> Top("selectable"),
       conversion |-> [x \in DOMAIN in.conversion |-> ConversionToInternal(in.conversion[x])] ]

\* The only version of a specification that has but its name.
OnlyVersion(name) ==
  [ name |-> name, served |-> TRUE, storage |-> TRUE, schema |-> <<>>, subresources |-> <<>>,
    columns |-> <<>>, selectable |-> <<>> ]

VersionsOf(in) ==
  IF in.versions = <<>> /\ in.version # <<>> THEN << OnlyVersion(in.version[1]) >> ELSE in.versions

VersionToV1(v, in) ==
  LET Of(field) == IF in[TopOf(field)] # <<>> THEN in[TopOf(field)] ELSE v[field]
  IN [ name |-> v.name, served |-> v.served, storage |-> v.storage,
       schema |-> Converted(Of("schema")), subresources |-> Of("subresources"),
       columns |-> Of("columns"), selectable |-> Of("selectable") ]

SpecToV1(in) ==
  LET versions == VersionsOf(in)
  IN [ preserve |-> in.preserve = << TRUE >>, scope |-> in.scope, kind |-> in.kind,
       versions |-> [i \in DOMAIN versions |-> VersionToV1(versions[i], in)],
       conversion |-> [x \in DOMAIN in.conversion |-> ConversionToV1(in.conversion[x])] ]

-----------------------------------------------------------------------------
(* v1beta1, which has the form of the internal version and in which the     *)
(* server stores its CRDs (cmd/server/options/options.go:72).              *)

VersionToV1beta1(v) == [v EXCEPT !.schema = Converted(@)]

SpecToV1beta1(in) ==
  [in EXCEPT !.validation = Converted(@), !.versions = [i \in DOMAIN @ |-> VersionToV1beta1(@[i])]]

-----------------------------------------------------------------------------
(* Defaults.                                                               *)

SetDefaultsV1(spec) ==
  [spec EXCEPT !.conversion = IF @ = <<>> THEN << [strategy |-> "None", webhook |-> <<>>] >> ELSE @]

\* What v1beta1 says of reviews where nothing is said.
DefaultReviewVersions(c) ==
  IF c.strategy = "Webhook" /\ c.reviewVersions = <<>> THEN [c EXCEPT !.reviewVersions = <<"v1beta1">>] ELSE c

SetDefaultsV1beta1(spec) ==
  LET conversion ==
        IF spec.conversion # <<>> THEN spec.conversion
        ELSE << [strategy |-> "None", webhook |-> <<>>, reviewVersions |-> <<>>] >>
      versions == VersionsOf(spec)
  IN [spec EXCEPT
        !.scope = IF @ = "" THEN "Namespaced" ELSE @,
        !.versions = versions,
        !.version = IF @ = <<>> /\ versions # <<>> THEN << versions[1].name >> ELSE @,
        !.conversion = [x \in DOMAIN conversion |-> DefaultReviewVersions(conversion[x])],
        !.preserve = IF @ = <<>> THEN << TRUE >> ELSE @]

-----------------------------------------------------------------------------
(* What is stored of a specification of v1 is read as it was, and served    *)
(* as it was defaulted.                                                    *)

Kept(x) ==
  LET in == SpecToInternal(SetDefaultsV1(x))
      read == SetDefaultsV1beta1(SpecToV1beta1(in))
  IN read = in /\ SpecToV1(read) = SetDefaultsV1(x)

-----------------------------------------------------------------------------
(* What the internal version says of one of its versions (helpers.go).     *)

HasPerVersion(versions, field) == \E i \in DOMAIN versions : versions[i][field] # <<>>

\* A field of a version, if it is said in one place only.
ForVersion(in, i, field) ==
  IF ~ HasPerVersion(in.versions, field) THEN << in[TopOf(field)] >>
  ELSE IF in[TopOf(field)] # <<>> THEN <<>>
  ELSE << in.versions[i][field] >>

=============================================================================
