----------------------------- MODULE CRDStorage -----------------------------
(***************************************************************************)
(* The customresourcedefinitions resource: the registry in                 *)
(* pkg/registry/customresourcedefinition and the writes that users and     *)
(* controllers make through it.                                            *)
(***************************************************************************)
EXTENDS CustomResourceDefinition

CONSTANTS
  SpecNames,  \* [CRDs -> SUBSET NameSet], what users put in spec.names
  BadBundles  \* CRDs whose users configure invalid CA bundles

Event == [rv : Nat, name : CRDs, obj : CRD \cup {NoCRD}]

\* The names that validation asks for: defaults fill in a singular and a list
\* kind where there is none.
RequiredNames == NameFields \ {"shortNames"}

\* The object found under key k.
IsNamed(obj, k) == obj # NoCRD => obj.name = k

ASSUME StorageAssumption ==
  /\ SpecNames \in [CRDs -> SUBSET NameSet]
  /\ \A k \in CRDs : \A names \in SpecNames[k], f \in RequiredNames : names[f] # {}
  /\ BadBundles \subseteq CRDs
  /\ MaxUserWrites \in Nat

StorageTypeOK ==
  /\ rv \in Nat
  /\ store \in [CRDs -> CRD \cup {NoCRD}]
  /\ cache \in [Servers -> [CRDs -> CRD \cup {NoCRD}]]
  /\ watch \in [Servers -> SUBSET Event]
  /\ userWrites \in 0..MaxUserWrites
  /\ \A k \in CRDs : IsNamed(store[k], k)
  /\ \A s \in Servers : /\ \A k \in CRDs : IsNamed(cache[s][k], k)
                        /\ \A e \in watch[s] : IsNamed(e.obj, e.name)

-----------------------------------------------------------------------------
(* Writes.                                                                 *)

\* What an accepted status update stores: the spec of the stored object and
\* everything else from the caller's, finalizers included; an update that
\* leaves a deleted object without finalizers removes it, and one that
\* changes nothing is not written.
UpdateStatus(crd) ==
  LET new == [crd EXCEPT !.names = store[crd.name].names,
                         !.badBundle = store[crd.name].badBundle]
  IN  IF new.deleting /\ new.finalizers = {}
      THEN Write(crd.name, NoCRD)
      ELSE IF new = store[crd.name]
           THEN UNCHANGED <<rv, store, watch>>
           ELSE Put(crd.name, new)

-----------------------------------------------------------------------------
(* User requests.                                                          *)

Bundles(k) == {bad \in BOOLEAN : bad => k \in BadBundles}

NewCRD(k, names, badBundle, finalizers) ==
  [ name |-> k, uid |-> rv + 1, rv |-> rv + 1, names |-> names,
    badBundle |-> badBundle, accepted |-> EmptyNames,
    conditions |-> [t \in ConditionTypes |-> NoCondition],
    deleting |-> FALSE, finalizers |-> finalizers ]

\* Create: the status a user sends is cleared.
CreateCRD(k) ==
  /\ UserWrite
  /\ store[k] = NoCRD
  /\ \E names \in SpecNames[k], badBundle \in Bundles(k), finalizers \in SUBSET Finalizers :
       Put(k, NewCRD(k, names, badBundle, finalizers))

\* As if the CA bundle were checked on creation only.
ValidNamesUpdate(crd, names, badBundle) ==
  IsCRDConditionTrue(crd, "Established") => names["kind"] = crd.names["kind"]

\* An established CRD keeps its kind, and its CA bundle if that is valid.
ValidUpdate(crd, names, badBundle) ==
  IsCRDConditionTrue(crd, "Established")
    => names["kind"] = crd.names["kind"] /\ (badBundle => crd.badBundle)

\* Update of the spec: the status is kept.
UpdateSpec(k) ==
  /\ UserWrite
  /\ store[k] # NoCRD
  /\ \E names \in SpecNames[k], badBundle \in Bundles(k) :
       /\ <<names, badBundle>> # <<store[k].names, store[k].badBundle>>
       /\ ValidUpdate(store[k], names, badBundle)
       /\ Put(k, [store[k] EXCEPT !.names = names, !.badBundle = badBundle])

\* As if the termination were left for the finalizer to announce.
MarkDeletedOnly(crd) ==
  [crd EXCEPT !.deleting = TRUE, !.finalizers = @ \cup {CleanupFinalizer}]

\* The guaranteed update of a request to delete: it marks the object,
\* adds the cleanup finalizer and announces the termination.
MarkDeleted(crd) ==
  SetCRDCondition([crd EXCEPT !.deleting = TRUE,
                              !.finalizers = @ \cup {CleanupFinalizer}],
                  "Terminating", Condition("True", "InstanceDeletionPending"))

\* Delete: the request reads the object, and updates it when it was not being
\* deleted then; by the time of the update another request may have deleted it.
DeleteCRD(k) ==
  /\ UserWrite
  /\ store[k] # NoCRD
  /\ MarkDeleted(store[k]) # store[k]
  /\ Put(k, MarkDeleted(store[k]))

UserNext == \E k \in CRDs : CreateCRD(k) \/ UpdateSpec(k) \/ DeleteCRD(k)

-----------------------------------------------------------------------------
(* Invariants.                                                             *)

\* The conversion webhook of an established CRD can be called.
BundleValid(crd) == IsCRDConditionTrue(crd, "Established") => ~ crd.badBundle

=============================================================================
