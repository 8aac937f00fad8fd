----------------------------- MODULE Defaulting -----------------------------
(***************************************************************************)
(* Pruning of what a schema does not specify, dropping of null and filling *)
(* in of defaults (apiserver/schema/pruning and defaulting).  An optional  *)
(* schema s is None where the code passes nil.                             *)
(***************************************************************************)
EXTENDS ObjectMeta

metaFields == {"apiVersion", "kind", "metadata"}

RECURSIVE Prune(_, _)
RECURSIVE SkipPrune(_, _)

\* Fields that are specified are pruned, the others kept.
SkipPrune(x, s) ==
  IF s = None THEN x
  ELSE CASE x.is = "object" ->
              Object([k \in Fields(x) |->
                IF \/ s[1].extensions.embedded /\ k \in metaFields
                   \/ k \notin DOMAIN s[1].properties /\ s[1].additional = None
                THEN x.fields[k]
                ELSE Prune(x.fields[k], SchemaForField(k, s[1]))])
         [] x.is = "array" -> List(Each(x.items, LAMBDA y : SkipPrune(y, s[1].items)))
         [] OTHER -> x

PruneFields(x, s) ==
  LET meta == IF s.extensions.embedded THEN metaFields ELSE {}
      known == IF s.additional # None THEN Fields(x) ELSE DOMAIN s.properties
  IN Object([k \in Fields(x) \cap (meta \cup known) |->
               IF k \in meta THEN x.fields[k] ELSE Prune(x.fields[k], SchemaForField(k, s))])

Prune(x, s) ==
  IF s # None /\ s[1].extensions.preserve THEN SkipPrune(x, s)
  ELSE CASE x.is = "object" -> IF s = None THEN Object(NoFields) ELSE PruneFields(x, s[1])
         [] x.is = "array" ->
              List(Each(x.items, LAMBDA y : Prune(y, IF s = None THEN None ELSE s[1].items)))
         [] OTHER -> x

PruneResource(x, s) == Prune(x, Some(AsResource(s)))

-----------------------------------------------------------------------------

\* A null that is not allowed and for which there is no default.
IsNonNullableNonDefaultableNull(x, s) ==
  x = Null /\ \E y \in Elements(s) : ~ y.generic.nullable /\ y.generic.default = None

RECURSIVE PruneNonNullableNullsWithoutDefaults(_, _)
PruneNonNullableNullsWithoutDefaults(x, s) ==
  LET Of(k) == IF s = None THEN None ELSE SchemaForField(k, s[1])
      items == IF s = None THEN None ELSE s[1].items
  IN CASE x.is = "object" ->
            Object([k \in {f \in Fields(x) : ~ IsNonNullableNonDefaultableNull(x.fields[f], Of(f))} |->
                      PruneNonNullableNullsWithoutDefaults(x.fields[k], Of(k))])
       [] x.is = "array" ->
            List(Each(x.items, LAMBDA y : PruneNonNullableNullsWithoutDefaults(y, items)))
       [] OTHER -> x

IsNonNullableNull(x, s) == x = Null /\ ~ s.generic.nullable

\* A default, nil where there is none.
DefaultOf(s) == IF s.generic.default = None THEN Null ELSE s.generic.default[1]

RECURSIVE Default(_, _)

WithDefaults(x, s) ==
  LET defaulted ==
        {k \in DOMAIN s.properties :
           /\ s.properties[k].generic.default # None
           /\ k \in Fields(x) => IsNonNullableNull(x.fields[k], s.properties[k])}
  IN Object([k \in Fields(x) \cup defaulted |->
               IF k \in defaulted THEN DefaultOf(s.properties[k]) ELSE x.fields[k]])

\* The values of a map or of an array.
DefaultNull(x, s) ==
  IF \E y \in Elements(s) : IsNonNullableNull(x, y) THEN DefaultOf(s[1]) ELSE x

Default(x, s) ==
  IF s = None THEN x
  ELSE CASE x.is = "object" ->
              LET y == WithDefaults(x, s[1])
              IN Object([k \in Fields(y) |->
                   IF k \in DOMAIN s[1].properties
                   THEN Default(y.fields[k], Some(s[1].properties[k]))
                   ELSE Default(DefaultNull(y.fields[k], SchemaForField(k, s[1])),
                                SchemaForField(k, s[1]))])
         [] x.is = "array" ->
              List(Each(x.items, LAMBDA y : Default(DefaultNull(y, s[1].items), s[1].items)))
         [] OTHER -> x

-----------------------------------------------------------------------------
(* The defaults of a schema are pruned, and validated, inside an object     *)
(* with nothing but the path to them.  A path is a sequence of fields, *)
(* and of Index for the items of an array.                                 *)

Index == "[]"

RECURSIVE Surrounding(_, _)
Surrounding(path, x) ==
  IF path = <<>> THEN x
  ELSE IF Head(path) = Index THEN List(<<Surrounding(Tail(path), x)>>)
  ELSE Object(Field(Head(path), Surrounding(Tail(path), x)))

RECURSIVE Access(_, _)
Access(path, x) ==
  IF path = <<>> THEN Some(x)
  ELSE IF Head(path) = Index
  THEN IF x.items = <<>> THEN None ELSE Access(Tail(path), x.items[1])
  ELSE IF Head(path) \in Fields(x) THEN Access(Tail(path), x.fields[Head(path)]) ELSE None

PrunedDefault(root, path, d) ==
  Access(path, PruneResource(Coerce(Surrounding(path, d), Some(AsResource(root))), root))

RECURSIVE PruneDefaultsAt(_, _, _)
PruneDefaultsAt(s, root, path) ==
  [ s EXCEPT
      !.generic.default = IF @ = None THEN None ELSE PrunedDefault(root, path, @[1]),
      !.items = Each(@, LAMBDA x : PruneDefaultsAt(x, root, Append(path, Index))),
      !.properties = [k \in DOMAIN @ |-> PruneDefaultsAt(@[k], root, Append(path, k))],
      !.additional = Each(@, LAMBDA x :
        [x EXCEPT !.structural = Each(@, LAMBDA y : PruneDefaultsAt(y, root, Append(path, "*")))]) ]

PruneDefaults(s) == PruneDefaultsAt(s, s, <<>>)

WithTypeMeta(x) ==
  Object([k \in Fields(x) \cup {"kind", "apiVersion"} |->
            IF k \in Fields(x) THEN x.fields[k] ELSE Text("Validation")])

\* Inside the metadata of a resource, that of a resource with the default.
MetaDefaultValid(d, root, path) ==
  LET obj == WithTypeMeta(Surrounding(path, d))
      resource == Some(AsResource(root))
  IN ~ CoerceFails(obj, resource) /\ MetaValid(Coerce(obj, resource), resource)

\* As if defaults need not be pruned.
DefaultValidUnpruned(d, s, requirePruned) ==
  ~ CoerceFails(d, Some(s)) /\ MetaValid(Coerce(d, Some(s)), Some(s))

DefaultValid(d, s, requirePruned) ==
  /\ requirePruned => Prune(d, Some(s)) = d
  /\ ~ CoerceFails(d, Some(s))
  /\ MetaValid(Coerce(d, Some(s)), Some(s))

\* additionalProperties are not followed.
RECURSIVE DefaultsValid(_, _, _, _, _)
DefaultsValid(s, root, path, insideMeta, requirePruned) ==
  IF s.extensions.embedded /\ path # <<>>
  THEN DefaultsValid(s, s, <<>>, FALSE, requirePruned)
  ELSE
    /\ \A d \in Elements(s.generic.default) :
         IF insideMeta
         THEN MetaDefaultValid(d, root, path) /\ Valid(ToKubeOpenAPI(s), d)
         ELSE DefaultValid(d, s, requirePruned) /\ Valid(ToKubeOpenAPI(s), Coerce(d, Some(s)))
    /\ \A x \in Elements(s.items) :
         DefaultsValid(x, root, Append(path, Index), insideMeta, requirePruned)
    /\ \A k \in DOMAIN s.properties :
         DefaultsValid(s.properties[k], root, Append(path, k),
                       insideMeta \/ (s.extensions.embedded /\ k \in metaFields), requirePruned)

ValidateDefaults(s, requirePruned) ==
  DefaultsValid(AsResource(s), AsResource(s), <<>>, FALSE, requirePruned)

=============================================================================
