----------------------------- MODULE CRDLifecycle -----------------------------
(***************************************************************************)
(* What the conditions of CRDs promise: a CRD is established only while    *)
(* its names are accepted, stays established until it is removed, and is   *)
(* removed only after it was deleted.                                      *)
(***************************************************************************)
CONSTANT CRDs

VARIABLE life  \* [CRDs -> SUBSET Facts], {} when there is no CRD under a key

Facts == {"exists", "named", "established", "deleting"}

Init == life = [k \in CRDs |-> {}]

Become(k, facts) == life' = [life EXCEPT ![k] = facts]

Create(k)    == life[k] = {} /\ Become(k, {"exists"})
Name(k)      == life[k] # {} /\ Become(k, life[k] \cup {"named"})
Unname(k)    == Become(k, life[k] \ {"named"})
Establish(k) == "named" \in life[k] /\ Become(k, life[k] \cup {"established"})
Delete(k)    == life[k] # {} /\ Become(k, life[k] \cup {"deleting"})
Remove(k)    == "deleting" \in life[k] /\ Become(k, {})

Next ==
  \E k \in CRDs :
    Create(k) \/ Name(k) \/ Unname(k) \/ Establish(k) \/ Delete(k) \/ Remove(k)

Spec == Init /\ [][Next]_life

=============================================================================
