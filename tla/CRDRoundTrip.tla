---------------------------- MODULE CRDRoundTrip ----------------------------
(***************************************************************************)
(* A specification of a CRD on its way from a client to the store and back: *)
(* it is defaulted, converted to the internal version, validated, stored   *)
(* in v1beta1, read with the defaults of v1beta1, and served in v1.        *)
(***************************************************************************)
EXTENDS CRDValidation

\* A default of null is none in v1 and v1beta1.
RECURSIVE SchemaToV1(_)
SchemaToV1(p) ==
  [p EXCEPT
     !.default = IF @ = Some(Null) THEN None ELSE @,
     !.properties = Each(@, SchemaToV1), !.items = Each(@, SchemaToV1), !.not = Each(@, SchemaToV1),
     !.allOf = Each(@, SchemaToV1), !.anyOf = Each(@, SchemaToV1), !.oneOf = Each(@, SchemaToV1),
     !.additional = Each(@, LAMBDA x : [x EXCEPT !.schema = Each(@, SchemaToV1)])]

Version == INSTANCE CRDConversion

ToInternal(x) == Version!SpecToInternal(Version!SetDefaultsV1(x))

Stored(in) == Version!SpecToV1beta1(in)

Read(stored) == Version!SetDefaultsV1beta1(stored)

Served(in) == Version!SpecToV1(in)

AcceptedInV1(x) ==
  LET in == ToInternal(x)
  IN ValidateSpec(in, Tightened \cup {"RecognizedReviewVersion"}) /\ ~ Preserves(in)

-----------------------------------------------------------------------------

\* What v1 does not tell from nothing.
HasNullDefault(p) == p.default = Some(Null)

SaysNothingTwice(x) ==
  \/ \E v \in Elements(x.versions) : \E p \in Elements(v.schema) : SchemaHas(p, HasNullDefault)
  \/ \E c \in Elements(x.conversion) : \E w \in Elements(c.webhook) :
       w.clientConfig = None /\ w.reviewVersions = <<>>

\* What a client of v1 has accepted is what every client of v1 reads, and what it
\* writes back is accepted as before (v1/conversion.go).
LosslessInV1(x) ==
  LET again == Served(Read(Stored(ToInternal(x))))
  IN AcceptedInV1(x) =>
       /\ ~ SaysNothingTwice(x) => Version!Kept(x)
       /\ Served(Read(Stored(ToInternal(again)))) = again
       /\ AcceptedInV1(again)

\* What was created in v1beta1 and is still stored means the same in v1: each version
\* has the schema, subresources and columns that are its own or those of all, as
\* helpers.go reads them; and it stays acceptable as the v1 that replaces it.
KeepsMeaning(old) ==
  LET in == Read(old)
      x == Served(in)
      new == ToInternal(x)
      Says(spec, i, field) ==
        LET said == Version!ForVersion(spec, i, field)
        IN IF field = "schema" THEN Each(said, Version!Converted) ELSE said
  IN ValidateSpec(in, {}) =>
       /\ \A i \in DOMAIN in.versions :
            /\ x.versions[i].name = in.versions[i].name
            /\ x.versions[i].served = in.versions[i].served
            /\ x.versions[i].storage = in.versions[i].storage
            /\ \A field \in Version!PerVersion \ {"selectable"} :
                 Says(in, i, field) = Some(x.versions[i][field]) /\ Says(new, i, field) = Says(in, i, field)
       /\ Len(x.versions) = Len(in.versions)
       /\ new.conversion = in.conversion
       /\ (\A v \in Elements(x.versions) : v.selectable = <<>>) => ValidateSpec(new, {})

-----------------------------------------------------------------------------

\* A CRD is accepted if it would be with each of its versions alone: what one version
\* says is no reason to refuse another.
VersionsIndependent(x) ==
  LET Alone(v) == [x EXCEPT !.versions = << [v EXCEPT !.storage = TRUE] >>]
      names == {v.name : v \in Elements(x.versions)}
  IN (/\ x.versions # <<>>
      /\ Cardinality(names) = Len(x.versions)
      /\ Cardinality({v \in Elements(x.versions) : v.storage}) = 1
      /\ \A v \in Elements(x.versions) : AcceptedInV1(Alone(v)))
     => AcceptedInV1(x)

=============================================================================
