----------------------------- MODULE CRDWriters -----------------------------
(***************************************************************************)
(* The controllers as each other sees them: writers of the stored object.  *)
(* A controller reads a CRD from its cache and sends a status update,      *)
(* which the store refuses unless it was computed from the stored version. *)
(* So an accepted update is one step on the stored object.  A module that  *)
(* models one controller in full takes the others from here.               *)
(***************************************************************************)
EXTENDS CRDStorage

CONSTANT Overlapping  \* CRDs of the resources that a built-in API also stores

ASSUME WritersAssumption == Overlapping \subseteq CRDs

-----------------------------------------------------------------------------
(* NamingConditionController                                               *)

\* As if Established always followed NamesAccepted.
EstablishedFollowsNames(in, namesAccepted) ==
  IF namesAccepted.status = "True" THEN Condition("False", "Installing")
                                   ELSE Condition("False", "NotAccepted")

\* Established stays true once it is; otherwise it is Installing as soon as
\* the names are accepted, and keeps or gets a reason not to be before that.
EstablishedCondition(in, namesAccepted) ==
  LET old == FindCRDCondition(in, "Established")
  IN  IF old.status # "True" /\ namesAccepted.status = "True"
      THEN Condition("False", "Installing")
      ELSE IF old = NoCondition THEN Condition("False", "NotAccepted") ELSE old

\* The requested names are accepted, or those accepted before are kept
\* because of a conflict.
Name(k) ==
  /\ store[k] # NoCRD
  /\ store[k].names # store[k].accepted
  /\ \E accepted \in {store[k].names, store[k].accepted} :
       LET namesAccepted == IF accepted = store[k].names
                            THEN Condition("True", "NoConflicts")
                            ELSE Condition("False", "plural")
       IN  UpdateStatus(
             SetCRDCondition(
               SetCRDCondition([store[k] EXCEPT !.accepted = accepted],
                               "NamesAccepted", namesAccepted),
               "Established", EstablishedCondition(store[k], namesAccepted)))

-----------------------------------------------------------------------------
(* EstablishingController                                                  *)

\* As if the condition of the names were not looked at.
ToEstablishUnnamed(crd) == ~ IsCRDConditionTrue(crd, "Established")

ToEstablish(crd) ==
  /\ IsCRDConditionTrue(crd, "NamesAccepted")
  /\ ~ IsCRDConditionTrue(crd, "Established")

\* As if an invalid bundle left the condition neither true nor false.
WithEstablishedUnknown(crd) ==
  SetCRDCondition(crd, "Established",
                  IF crd.badBundle
                  THEN Condition("Unknown", "InvalidCABundle")
                  ELSE Condition("True", "InitialNamesAccepted"))

\* The conversion webhook of a CRD must be callable.
WithEstablished(crd) ==
  SetCRDCondition(crd, "Established",
                  IF crd.badBundle
                  THEN Condition("False", "InvalidCABundle")
                  ELSE Condition("True", "InitialNamesAccepted"))

Establish(k) ==
  /\ store[k] # NoCRD
  /\ ToEstablish(store[k])
  /\ UpdateStatus(WithEstablished(store[k]))

-----------------------------------------------------------------------------
(* CRDFinalizer                                                            *)

ToFinalize(crd) == crd.deleting /\ CRDHasFinalizer(crd, CleanupFinalizer)

WithTerminating(crd, status, reason) ==
  SetCRDCondition(crd, "Terminating", Condition(status, reason))

\* The cleanup begins.
BeginFinalize(k) ==
  /\ store[k] # NoCRD
  /\ ToFinalize(store[k])
  /\ UpdateStatus(WithTerminating(store[k], "True", "InstanceDeletionInProgress"))

\* The instances of a CRD of a built-in resource are not the CRD's to delete.
FinalReasons(crd) ==
  IF crd.name \in Overlapping THEN {"OverlappingBuiltInResource"}
  ELSE IF IsCRDConditionTrue(crd, "Established") THEN {"InstanceDeletionCompleted"}
  ELSE {"NeverEstablished"}

\* It ends: the finalizer goes, and with it the object unless other finalizers
\* remain.
Finalize(k) ==
  /\ store[k] # NoCRD
  /\ ToFinalize(store[k])
  /\ FindCRDCondition(store[k], "Terminating").reason = "InstanceDeletionInProgress"
  /\ \E reason \in FinalReasons(store[k]) :
       UpdateStatus(CRDRemoveFinalizer(WithTerminating(store[k], "False", reason),
                                       CleanupFinalizer))

-----------------------------------------------------------------------------
(* The handler of custom resources                                         *)

\* A CRD is served once its names are accepted.
Served(crd) ==
  IsCRDConditionTrue(crd, "NamesAccepted") \/ IsCRDConditionTrue(crd, "Established")

\* An object has the required names, and when it is served they are accepted.
NamesGiven(crd) ==
  /\ \A f \in RequiredNames : crd.names[f] # {}
  /\ Served(crd) => \A f \in RequiredNames : crd.accepted[f] # {}

-----------------------------------------------------------------------------
(* The owners of other finalizers remove them from deleted objects.         *)
RemoveFinalizer(k) ==
  /\ store[k] # NoCRD
  /\ store[k].deleting
  /\ \E f \in store[k].finalizers \cap Finalizers :
       LET crd == CRDRemoveFinalizer(store[k], f)
       IN  IF crd.finalizers = {} THEN Write(k, NoCRD) ELSE Put(k, crd)

-----------------------------------------------------------------------------
(* Properties.                                                             *)

\* What the conditions of a CRD say of its life.
LifeOf(crd) ==
  IF crd = NoCRD THEN {}
  ELSE {fact \in {"exists", "named", "established", "deleting"} :
          CASE fact = "exists"      -> TRUE
            [] fact = "named"       -> IsCRDConditionTrue(crd, "NamesAccepted")
            [] fact = "established" -> IsCRDConditionTrue(crd, "Established")
            [] fact = "deleting"    -> crd.deleting}

Life == [k \in CRDs |-> LifeOf(store[k])]

Lifecycle == INSTANCE CRDLifecycle WITH life <- Life

\* A CRD goes through its life in order, although controllers decide on old
\* reads and a CRD may be created again meanwhile: it is established only when
\* the stored names are accepted, is removed only when it was deleted, and
\* never loses what it was before.
FollowsLifecycle == Lifecycle!Spec

=============================================================================
