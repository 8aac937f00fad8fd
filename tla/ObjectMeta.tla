----------------------------- MODULE ObjectMeta -----------------------------
(***************************************************************************)
(* The metadata of custom resources and of resources embedded in them      *)
(* (apiserver/schema/objectmeta).                                          *)
(***************************************************************************)
EXTENDS StructuralSchema

\* Three of the fields of metav1.ObjectMeta.
MetaTypes == [name |-> "string", labels |-> "object", generation |-> "integer"]

Decodes(k, v) ==
  \/ v = Null
  \/ /\ v.is = MetaTypes[k]
     /\ k = "labels" => \A x \in Elements(v.fields) : x.is = "string"

IsZero(v) == v \in {Null, Text(""), Number(0), Object(NoFields)}

MetaFieldsOf(v) == IF v = Null THEN {} ELSE Fields(v) \cap DOMAIN MetaTypes

\* Without an error of GetObjectMeta.  Only objects and null are decoded at all.
MetaDecodes(v, dropMalformed) ==
  \/ v = Null
  \/ v.is = "object" /\ (dropMalformed \/ \A k \in MetaFieldsOf(v) : Decodes(k, v.fields[k]))

\* GetObjectMeta and SetObjectMeta: unknown and malformed fields are left out.
RoundTripMeta(v) ==
  Object([k \in {f \in MetaFieldsOf(v) : Decodes(f, v.fields[f]) /\ ~ IsZero(v.fields[f])} |->
            v.fields[k]])

-----------------------------------------------------------------------------

\* What Coerce does to type and metadata of an embedded resource.
CoerceEmbedded(x) ==
  LET kept == {k \in Fields(x) : k \in {"apiVersion", "kind"} => x.fields[k].is = "string"}
  IN Object([k \in kept |->
       IF k = "metadata" /\ MetaDecodes(x.fields[k], TRUE)
       THEN RoundTripMeta(x.fields[k]) ELSE x.fields[k]])

RECURSIVE Coerce(_, _)
Coerce(x, s) ==
  IF s = None THEN x
  ELSE CASE x.is = "object" ->
              LET embedded == s[1].extensions.embedded
                  y == IF embedded THEN CoerceEmbedded(x) ELSE x
              IN Object([k \in Fields(y) |->
                   IF embedded /\ k = "metadata" THEN y.fields[k]
                   ELSE Coerce(y.fields[k], SchemaForField(k, s[1]))])
         [] x.is = "array" -> List(Each(x.items, LAMBDA y : Coerce(y, s[1].items)))
         [] OTHER -> x

\* Whether Coerce returns an error where it does not drop invalid fields.
RECURSIVE CoerceFails(_, _)
CoerceFails(x, s) ==
  /\ s # None
  /\ \/ /\ x.is = "object"
        /\ s[1].extensions.embedded
        /\ \/ \E k \in Fields(x) \cap {"apiVersion", "kind"} : x.fields[k].is # "string"
           \/ \E k \in Fields(x) \cap {"metadata"} : ~ MetaDecodes(x.fields[k], FALSE)
     \/ x.is = "object" /\ \E k \in Fields(x) : CoerceFails(x.fields[k], SchemaForField(k, s[1]))
     \/ x.is = "array" /\ \E y \in Elements(x.items) : CoerceFails(y, s[1].items)

\* What names a group, a version or a kind is not told apart from other texts.
EmbeddedValid(x) ==
  /\ {"apiVersion", "kind"} \subseteq Fields(x)
  /\ \A k \in {"apiVersion", "kind"} : x.fields[k].is = "string" /\ x.fields[k] # Text("")
  /\ "metadata" \in Fields(x) => MetaDecodes(x.fields["metadata"], FALSE)

RECURSIVE MetaValid(_, _)
MetaValid(x, s) ==
  s # None =>
    /\ x.is = "object" =>
         /\ s[1].extensions.embedded => EmbeddedValid(x)
         /\ \A k \in Fields(x) : MetaValid(x.fields[k], SchemaForField(k, s[1]))
    /\ x.is = "array" => \A y \in Elements(x.items) : MetaValid(y, s[1].items)

=============================================================================
