--------------------------- MODULE MCEstablishing ---------------------------
(***************************************************************************)
(* Instances of EstablishingController for TLC: one CRD that is named, with *)
(* a kind that may change while it is not established.                     *)
(***************************************************************************)
EXTENDS EstablishingController, TLC

CONSTANTS c1, p1, K1, K2

MCGroupOf == [k \in CRDs |-> "group"]

N(short, kind) ==
  [f \in NameFields |-> CASE f = "shortNames" -> short
                          [] f \in {"kind", "listKind"} -> {kind}
                          [] OTHER -> {p1}]

MCSpecNames == [k \in CRDs |-> {N({}, K1), N({}, K2)}]

=============================================================================
