----------------------- MODULE CustomResourceValidation -----------------------
(***************************************************************************)
(* How custom resources are validated: by their schema, in an update only  *)
(* where they changed (apiserver/validation), and by the uniqueness that   *)
(* x-kubernetes-list-type asks for (apiserver/schema/listtype).            *)
(***************************************************************************)
EXTENDS StructuralSchema

-----------------------------------------------------------------------------
(* Lists that are sets or maps.                                            *)

Distinct(q) == \A i, j \in DOMAIN q : q[i] = q[j] => i = j

\* The value by which an item of a list of type map is known.
KeyOf(x, keys) ==
  IF x = Null THEN NoFields ELSE [k \in Fields(x) \cap Elements(keys) |-> x.fields[k]]

ItemsUnique(q, s) ==
  CASE s.extensions.listType = "set" -> Distinct(q)
    [] s.extensions.listType = "map" ->
         /\ \A x \in Elements(q) : x = Null \/ x.is = "object"
         /\ Distinct(Each(q, LAMBDA x : KeyOf(x, s.extensions.keys)))
    [] OTHER -> TRUE

RECURSIVE ValidListSetsAndMaps(_, _)
ValidListSetsAndMaps(x, s) ==
  /\ x.is = "object" =>
       \A k \in Fields(x) :
         /\ \A a \in Elements(s.additional) : \A y \in Elements(a.structural) :
              ValidListSetsAndMaps(x.fields[k], y)
         /\ k \in DOMAIN s.properties => ValidListSetsAndMaps(x.fields[k], s.properties[k])
  /\ x.is = "array" =>
       /\ ItemsUnique(x.items, s)
       /\ \A y \in Elements(s.items), z \in Elements(x.items) : ValidListSetsAndMaps(z, y)

-----------------------------------------------------------------------------
(* Ratcheting: old is the value that new replaces, None if there is none.  *)

\* CorrelatedObject.Key and Index, of a library: the values of a map are known
\* by their keys, as are the items of a list of type map, and of no other list.
OldField(old, k) ==
  IF old # None /\ old[1].is = "object" /\ k \in Fields(old[1])
  THEN Some(old[1].fields[k]) ELSE None

OldItem(old, x, s) ==
  IF old # None /\ old[1].is = "array" /\ s.listType = "map" /\ x.is = "object"
  THEN LET same == {y \in Elements(old[1].items) :
                      y.is = "object" /\ KeyOf(y, s.keys) = KeyOf(x, s.keys)}
       IN IF same = {} THEN None ELSE Some(CHOOSE y \in same : TRUE)
  ELSE None

\* SubPropertyValidator: at the root the type of the object is not ratcheted.
OldProperty(old, k, isRoot) ==
  IF isRoot /\ k \in {"apiVersion", "kind"} THEN None ELSE OldField(old, k)

RECURSIVE ValidUpdate(_, _, _, _)

\* The validation of new by the library, with ratcheting below.
ValidBelow(s, new, old, isRoot) ==
  /\ HasType(s, new)
  /\ s.enum # {} => new \in s.enum
  /\ new.is = "object" =>
       /\ s.required \subseteq Fields(new)
       /\ \A k \in Fields(new) :
            IF k \in DOMAIN s.properties
            THEN ValidUpdate(s.properties[k], new.fields[k], OldProperty(old, k, isRoot), FALSE)
            ELSE \A a \in Elements(s.additional) :
                   a.bool /\ \A y \in Elements(a.schema) :
                     ValidUpdate(y, new.fields[k], OldProperty(old, k, isRoot), FALSE)
  /\ new.is = "array" =>
       \A y \in Elements(s.items), x \in Elements(new.items) :
         ValidUpdate(y, x, OldItem(old, x, s), FALSE)

\* As if lists that did not change were not found to be the same.
ValidUpdateOfLists(s, new, old, isRoot) ==
  \/ ValidBelow(s, new, old, isRoot)
  \/ old = Some(new) /\ new.is # "array"

\* What is invalid is let pass if it did not change.
ValidUpdate(s, new, old, isRoot) ==
  \/ ValidBelow(s, new, old, isRoot)
  \/ old = Some(new)

ValidateCustomResourceUpdate(s, new, old) == ValidUpdate(s, new, Some(old), TRUE)

-----------------------------------------------------------------------------
(* What ratcheting promises: each error is about a value that the update   *)
(* leaves as it was, or is inside of one.                                  *)

\* The values of which a schema without junctors has something to say, with
\* those that they replace, from the root down: sequences of [s, new, old].
RECURSIVE Chains(_)

Contained(chain) ==
  LET last == chain[Len(chain)]
      s == last.s
      root == Len(chain) = 1
      Child(x, y, o) == Append(chain, [s |-> x, new |-> y, old |-> o])
  IN CASE last.new.is = "object" ->
            UNION { {Child(x, last.new.fields[k], OldProperty(last.old, k, root)) :
                       x \in IF k \in DOMAIN s.properties THEN {s.properties[k]}
                             ELSE UNION {Elements(a.schema) : a \in Elements(s.additional)}} :
                     k \in Fields(last.new) }
       [] last.new.is = "array" ->
            {Child(x, y, OldItem(last.old, y, s)) : x \in Elements(s.items), y \in Elements(last.new.items)}
       [] OTHER -> {}

Chains(chain) == {chain} \cup UNION {Chains(c) : c \in Contained(chain)}

\* Whether a value is in itself as its schema says, whatever it contains.
SelfValid(s, v) ==
  /\ HasType(s, v)
  /\ s.enum # {} => v \in s.enum
  /\ v.is = "object" =>
       /\ s.required \subseteq Fields(v)
       /\ \A k \in Fields(v) \ DOMAIN s.properties : \A a \in Elements(s.additional) : a.bool

OnlyUnchangedErrors(s, new, old) ==
  \A chain \in Chains(<<[s |-> s, new |-> new, old |-> Some(old)]>>) :
    \/ SelfValid(chain[Len(chain)].s, chain[Len(chain)].new)
    \/ \E i \in DOMAIN chain : chain[i].old = Some(chain[i].new)

=============================================================================
