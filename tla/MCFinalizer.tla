----------------------------- MODULE MCFinalizer -----------------------------
(***************************************************************************)
(* Instances of CRDFinalizer for TLC: one CRD whose names never conflict.  *)
(***************************************************************************)
EXTENDS CRDFinalizer

CONSTANTS c1, p1, K1

MCGroupOf == [k \in CRDs |-> "group"]

MCSpecNames ==
  [k \in CRDs |->
     {[f \in NameFields |-> IF f = "shortNames" THEN {}
                            ELSE IF f \in KindFields THEN {K1} ELSE {p1}]}]

=============================================================================
