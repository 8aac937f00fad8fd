------------------------------ MODULE MCNaming ------------------------------
(***************************************************************************)
(* Instances of NamingController for TLC: CRDs of one group whose names     *)
(* compete in both name spaces and across fields.                          *)
(***************************************************************************)
EXTENDS NamingController, TLC

CONSTANTS c1, c2, c3, p1, p2, p3, x, K1, K2, L

MCGroupOf == [k \in CRDs |-> IF k = c3 THEN "group3" ELSE "group"]

N(plural, singular, short, kind, listKind) ==
  [f \in NameFields |->
     CASE f = "plural" -> {plural} [] f = "singular" -> {singular}
       [] f = "shortNames" -> short [] f = "kind" -> {kind}
       [] f = "listKind" -> {listKind}]

\* c1 and c2 compete for x as short name and singular, and for L as list kind
\* and kind; c1 may give both up.
MCSpecNames ==
  [k \in CRDs |->
     CASE k = c1 -> {N(p1, p1, {x}, K1, L), N(p1, p1, {}, K1, K1)}
       [] k = c2 -> {N(p2, x, {}, L, K2)}
       [] k = c3 -> {N(p3, x, {}, K1, K1)}]

\* Enough for two servers: one name changes hands.
MCFewNames ==
  [k \in CRDs |->
     CASE k = c1 -> {N(p1, p1, {x}, K1, K1), N(p1, p1, {}, K1, K1)}
       [] k = c2 -> {N(p2, x, {}, K2, K2)}
       [] k = c3 -> {N(p3, x, {}, K1, K1)}]

\* One CRD: a short name it has as plural, and a kind that changes.
MCOwnNames == [k \in CRDs |-> {N(p1, p1, {}, K1, L), N(p1, p1, {p1}, K1, L)}]

=============================================================================
