---------------------- MODULE CustomResourceDefinition ----------------------
(***************************************************************************)
(* The CustomResourceDefinition object as the controllers of the           *)
(* apiextensions API server see it, and the helpers of                     *)
(* pkg/apihelpers/helpers.go.  Schemas, versions, printer columns and the  *)
(* texts of conditions are left out; a set-valued name field replaces the  *)
(* string fields of CustomResourceDefinitionNames, {} standing for the     *)
(* empty string that an accepted name has before it is accepted.           *)
(***************************************************************************)
EXTENDS ObjectStore, FiniteSets

CONSTANTS
  GroupOf,    \* [CRDs -> group], the part of the key after its first dot
  Names,      \* every plural, singular, short name, kind and list kind
  Finalizers  \* finalizers of other controllers, that users set on a CRD

ResourceFields == {"plural", "singular", "shortNames"}
KindFields     == {"kind", "listKind"}
NameFields     == ResourceFields \cup KindFields

NameSet    == [NameFields -> SUBSET Names]
EmptyNames == [f \in NameFields |-> {}]

\* The names that a set of names occupies in one of the two name spaces.
Claimed(names, space) == UNION {names[f] : f \in space}

ConditionTypes == {"NamesAccepted", "Established", "Terminating"}

Reasons == NameFields \cup
  { "", "NoConflicts", "NotAccepted", "Installing", "InvalidCABundle",
    "InitialNamesAccepted", "InstanceDeletionPending",
    "InstanceDeletionInProgress", "InstanceDeletionFailed",
    "InstanceDeletionCheck", "InstanceDeletionCompleted",
    "OverlappingBuiltInResource", "NeverEstablished" }

\* A condition without its time and text.  "names" are the names that the
\* message of a NamesAccepted condition quotes; an absent condition is one
\* whose status is "Absent".
Conditions == [status : {"Absent", "True", "False"}, reason : Reasons,
               names : SUBSET Names]

Condition(status, reason) == [status |-> status, reason |-> reason, names |-> {}]
NoCondition == Condition("Absent", "")

CleanupFinalizer == "customresourcecleanup.apiextensions.k8s.io"

\* "badBundle": spec.conversion has a webhook whose CA bundle is invalid.
CRD == [ name       : CRDs,
         uid        : Nat,
         rv         : Nat,
         names      : NameSet,
         badBundle  : BOOLEAN,
         accepted   : NameSet,
         conditions : [ConditionTypes -> Conditions],
         deleting   : BOOLEAN,
         finalizers : SUBSET (Finalizers \cup {CleanupFinalizer}) ]

ASSUME ConstantsAssumption ==
  /\ NoCRD \notin CRD
  /\ CleanupFinalizer \notin Finalizers

-----------------------------------------------------------------------------
(* helpers.go                                                              *)

FindCRDCondition(crd, type) == crd.conditions[type]

IsCRDConditionTrue(crd, type) == FindCRDCondition(crd, type).status = "True"

SetCRDCondition(crd, type, condition) ==
  [crd EXCEPT !.conditions[type] = condition]

RemoveCRDCondition(crd, type) == SetCRDCondition(crd, type, NoCondition)

CRDHasFinalizer(crd, finalizer) == finalizer \in crd.finalizers

CRDRemoveFinalizer(crd, finalizer) == [crd EXCEPT !.finalizers = @ \ {finalizer}]

=============================================================================
