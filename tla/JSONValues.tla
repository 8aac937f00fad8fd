----------------------------- MODULE JSONValues -----------------------------
(***************************************************************************)
(* JSON values, their fields, and values that are optional.                *)
(***************************************************************************)
EXTENDS Integers, Sequences, FiniteSets

Null == [is |-> "null"]
Number(n) == [is |-> "integer", number |-> n]
Text(s) == [is |-> "string", text |-> s]
List(s) == [is |-> "array", items |-> s]
Object(f) == [is |-> "object", fields |-> f]

NoFields == [k \in {} |-> Null]

Field(k, v) == [x \in {k} |-> v]

Fields(v) == DOMAIN v.fields

Set(v, k, x) == Object([j \in Fields(v) \cup {k} |-> IF j = k THEN x ELSE v.fields[j]])

Delete(v, ks) == Object([j \in Fields(v) \ ks |-> v.fields[j]])

\* Optional values: <<>> or <<x>>.
None == <<>>
Some(x) == <<x>>

\* F of each element of a sequence, of an optional value or of the values of a map.
Each(f, F(_)) == [x \in DOMAIN f |-> F(f[x])]

Elements(f) == {f[x] : x \in DOMAIN f}

\* v has fields and no more.
IsObject(v) == v = Object([k \in Fields(v) |-> v.fields[k]])

=============================================================================
