--------------------------- MODULE NameReservation ---------------------------
(***************************************************************************)
(* What NamingConditionController promises: a register in which each CRD   *)
(* of a group holds names of two spaces, resources and kinds.  A CRD takes *)
(* and gives up names one CRD at a time, and takes only names that no      *)
(* other CRD of its group holds.                                           *)
(***************************************************************************)
CONSTANTS CRDs, GroupOf, Names

VARIABLE held  \* [CRDs -> [Spaces -> SUBSET Names]]

Spaces == {"resources", "kinds"}

Nothing == [space \in Spaces |-> {}]

Init == held = [k \in CRDs |-> Nothing]

HeldByOthers(k, space) ==
  UNION {held[j][space] : j \in {i \in CRDs \ {k} : GroupOf[i] = GroupOf[k]}}

\* k trades the names it holds for others: kept, given up or free ones.
Reserve(k) ==
  /\ held' = [held EXCEPT ![k] = held'[k]]
  /\ held'[k] \in [Spaces -> SUBSET Names]
  /\ \A space \in Spaces : held'[k][space] \cap HeldByOthers(k, space) = {}

Next == \E k \in CRDs : Reserve(k)

Spec == Init /\ [][Next]_held

=============================================================================
