-------------------------- MODULE CRDWriters_proofs --------------------------
(***************************************************************************)
(* Facts about the storage of CRDs and its writers that the theorems about *)
(* every controller use.                                                   *)
(***************************************************************************)
EXTENDS CRDWriters, TLAPS

-----------------------------------------------------------------------------
(* The objects that the actions build are CRDs.                            *)

\* Setting a condition of a CRD leaves a CRD.
LEMMA SetConditionType ==
  ASSUME NEW crd \in CRD, NEW type \in ConditionTypes, NEW c \in Conditions
  PROVE  SetCRDCondition(crd, type, c) \in CRD
  BY DEF SetCRDCondition, CRD

\* The record operator builds conditions for every status and reason.
LEMMA ConditionType ==
  ASSUME NEW status \in {"Absent", "True", "False"}, NEW reason \in Reasons
  PROVE  Condition(status, reason) \in Conditions
  BY DEF Condition, Conditions

\* The Established condition that goes with a NamesAccepted condition is one.
LEMMA EstablishedConditionType ==
  ASSUME NEW in \in CRD, NEW c \in Conditions
  PROVE  EstablishedCondition(in, c) \in Conditions
<1>1. /\ Condition("False", "Installing") \in Conditions
      /\ Condition("False", "NotAccepted") \in Conditions
  BY ConditionType DEF Reasons
<1>2. FindCRDCondition(in, "Established") \in Conditions
  BY DEF FindCRDCondition, CRD, ConditionTypes
<1>3. QED
  BY <1>1, <1>2 DEF EstablishedCondition

\* The object of a created CRD.
LEMMA NewCRDType ==
  ASSUME rv \in Nat, NEW k \in CRDs, NEW names \in NameSet,
         NEW badBundle \in BOOLEAN, NEW finalizers \in SUBSET Finalizers
  PROVE  NewCRD(k, names, badBundle, finalizers) \in CRD
<1>1. NoCondition \in Conditions
  BY ConditionType DEF NoCondition, Reasons
<1>2. EmptyNames \in NameSet
  BY DEF EmptyNames, NameSet
<1>3. QED
  BY <1>1, <1>2 DEF NewCRD, CRD

\* The object of a deleted CRD: the request changes neither its names nor its
\* Established condition.
LEMMA MarkDeletedType ==
  ASSUME NEW crd \in CRD
  PROVE  /\ MarkDeleted(crd) \in CRD
         /\ MarkDeleted(crd).name = crd.name
         /\ MarkDeleted(crd).accepted = crd.accepted
         /\ MarkDeleted(crd).badBundle = crd.badBundle
         /\ MarkDeleted(crd).names = crd.names
         /\ \A type \in {"NamesAccepted", "Established"} :
              FindCRDCondition(MarkDeleted(crd), type) = FindCRDCondition(crd, type)
<1>1. Condition("True", "InstanceDeletionPending") \in Conditions
  BY ConditionType DEF Reasons
<1>2. [crd EXCEPT !.deleting = TRUE, !.finalizers = @ \cup {CleanupFinalizer}] \in CRD
  BY DEF CRD
<1>3. QED
  BY <1>1, <1>2, SetConditionType DEF MarkDeleted, ConditionTypes, CRD,
     FindCRDCondition, SetCRDCondition

-----------------------------------------------------------------------------
(* Writes.  Every step of the system that writes is one Write of the        *)
(* storage, of one of two kinds: that of the answered worker, and that of  *)
(* the users and the other controllers.                                    *)

\* One object is stored under its name in the next version, or is removed.
Stores(k, obj) ==
  /\ obj \in CRD \cup {NoCRD}
  /\ obj # NoCRD => obj.name = k /\ obj.rv = rv + 1
  /\ Write(k, obj)

NothingStored == UNCHANGED <<rv, store, watch>>

\* What users and other controllers write leaves accepted names and their
\* condition alone and does not take Established, or its condition, away.
KeepsConditions(old, new) ==
  /\ FindCRDCondition(new, "NamesAccepted") = FindCRDCondition(old, "NamesAccepted")
  /\ IsCRDConditionTrue(old, "Established") => IsCRDConditionTrue(new, "Established")
  /\ FindCRDCondition(old, "Established") # NoCondition
       => FindCRDCondition(new, "Established") # NoCondition
  /\ Served(new) => Served(old)

KeepsBundle(old, new) ==
  new.badBundle = old.badBundle /\ (BundleValid(old) => BundleValid(new))

Keeps(k, obj) ==
  obj # NoCRD =>
    IF store[k] = NoCRD
    THEN /\ obj.accepted = EmptyNames /\ ~ IsCRDConditionTrue(obj, "NamesAccepted")
         /\ BundleValid(obj) /\ NamesGiven(obj)
    ELSE /\ obj.accepted = store[k].accepted /\ KeepsConditions(store[k], obj)
         /\ BundleValid(store[k]) => BundleValid(obj)
         /\ NamesGiven(store[k]) => NamesGiven(obj)

\* Put stores what it is given in the next version.
LEMMA PutStores ==
  ASSUME rv \in Nat, NEW k \in CRDs, NEW obj \in CRD, obj.name = k, Put(k, obj)
  PROVE  \E new \in CRD : /\ Stores(k, new)
                          /\ new.names = obj.names /\ new.badBundle = obj.badBundle
                          /\ new.accepted = obj.accepted
                          /\ new.conditions = obj.conditions
                          /\ new.uid = obj.uid /\ new.deleting = obj.deleting
                          /\ new.finalizers = obj.finalizers
<1> DEFINE new == [obj EXCEPT !.rv = rv + 1]
<1>1. new \in CRD /\ new.name = k /\ new.rv = rv + 1
  BY DEF CRD
<1>2. /\ new.names = obj.names /\ new.badBundle = obj.badBundle
      /\ new.accepted = obj.accepted /\ new.conditions = obj.conditions
      /\ new.uid = obj.uid /\ new.deleting = obj.deleting
      /\ new.finalizers = obj.finalizers
  BY DEF CRD
<1>3. Write(k, new)
  BY DEF Put
<1> HIDE DEF new
<1>4. Stores(k, new)
  BY <1>1, <1>3 DEF Stores
<1>5. QED
  BY <1>1, <1>2, <1>4

\* A status update stores the accepted names and conditions it carries and
\* the spec that is stored, removes the object or does nothing.
LEMMA UpdateStatusStores ==
  ASSUME StorageTypeOK, NEW crd \in CRD, store[crd.name] # NoCRD, UpdateStatus(crd)
  PROVE  \/ NothingStored
         \/ Stores(crd.name, NoCRD) /\ crd.deleting /\ crd.finalizers = {}
         \/ \E new \in CRD : /\ Stores(crd.name, new)
                             /\ new.names = store[crd.name].names
                             /\ new.badBundle = store[crd.name].badBundle
                             /\ new.accepted = crd.accepted
                             /\ new.conditions = crd.conditions
                             /\ new.uid = crd.uid /\ new.deleting = crd.deleting
                             /\ new.finalizers = crd.finalizers
<1> DEFINE new == [crd EXCEPT !.names = store[crd.name].names,
                              !.badBundle = store[crd.name].badBundle]
<1>1. crd.name \in CRDs
  BY DEF CRD
<1>2. new \in CRD /\ new.name = crd.name
  BY <1>1 DEF StorageTypeOK, CRD
<1>3. /\ new.names = store[crd.name].names /\ new.badBundle = store[crd.name].badBundle
      /\ new.accepted = crd.accepted /\ new.conditions = crd.conditions
      /\ new.uid = crd.uid /\ new.deleting = crd.deleting
      /\ new.finalizers = crd.finalizers
  BY DEF CRD
<1>4. CASE Write(crd.name, NoCRD) /\ new.deleting /\ new.finalizers = {}
  BY <1>3, <1>4 DEF Stores
<1>5. CASE NothingStored
  BY <1>5
<1>6. CASE Put(crd.name, new)
  <2> HIDE DEF new
  <2>1. PICK stored \in CRD : /\ Stores(crd.name, stored)
                              /\ stored.names = new.names /\ stored.badBundle = new.badBundle
                              /\ stored.accepted = new.accepted
                              /\ stored.conditions = new.conditions
                              /\ stored.uid = new.uid /\ stored.deleting = new.deleting
                              /\ stored.finalizers = new.finalizers
    BY <1>1, <1>2, <1>6, PutStores DEF StorageTypeOK
  <2>2. QED
    BY <1>3, <2>1
<1>7. QED
  BY <1>4, <1>5, <1>6 DEF UpdateStatus, NothingStored

\* A user request is one write that keeps accepted names.
LEMMA UserNextStores ==
  ASSUME StorageTypeOK, UserNext
  PROVE  \E k \in CRDs, obj \in CRD : Stores(k, obj) /\ Keeps(k, obj)
<1>1. PICK k \in CRDs : CreateCRD(k) \/ UpdateSpec(k) \/ DeleteCRD(k)
  BY DEF UserNext
<1>2. rv \in Nat
  BY DEF StorageTypeOK
<1>3. CASE CreateCRD(k)
  <2>1. PICK names \in SpecNames[k], badBundle \in Bundles(k), finalizers \in SUBSET Finalizers :
          Put(k, NewCRD(k, names, badBundle, finalizers))
    BY <1>3 DEF CreateCRD
  <2>2. NewCRD(k, names, badBundle, finalizers) \in CRD
    BY <1>2, StorageAssumption, NewCRDType DEF Bundles
  <2>3. /\ NewCRD(k, names, badBundle, finalizers).name = k
        /\ NewCRD(k, names, badBundle, finalizers).accepted = EmptyNames
        /\ NewCRD(k, names, badBundle, finalizers).names = names
        /\ \A type \in {"NamesAccepted", "Established"} :
              NewCRD(k, names, badBundle, finalizers).conditions[type] = NoCondition
    BY DEF NewCRD, ConditionTypes
  <2>4. PICK new \in CRD : /\ Stores(k, new) /\ new.accepted = EmptyNames
                           /\ new.names = names
                           /\ \A type \in {"NamesAccepted", "Established"} :
                                new.conditions[type] = NoCondition
    BY <1>2, <2>1, <2>2, <2>3, PutStores
  <2>5. ~ IsCRDConditionTrue(new, "NamesAccepted") /\ ~ IsCRDConditionTrue(new, "Established")
    <3>1. NoCondition.status = "Absent"
      BY DEF NoCondition, Condition
    <3>2. QED
      BY <2>4, <3>1 DEF IsCRDConditionTrue, FindCRDCondition
  <2>6. NamesGiven(new)
    BY <2>4, <2>5, StorageAssumption DEF NamesGiven, Served
  <2>7. QED
    BY <1>3, <2>4, <2>5, <2>6 DEF CreateCRD, Keeps, BundleValid
<1>4. CASE UpdateSpec(k)
  <2>1. PICK names \in SpecNames[k], badBundle \in Bundles(k) :
          /\ ValidUpdate(store[k], names, badBundle)
          /\ Put(k, [store[k] EXCEPT !.names = names, !.badBundle = badBundle])
    BY <1>4 DEF UpdateSpec
  <2> DEFINE obj == [store[k] EXCEPT !.names = names, !.badBundle = badBundle]
  <2>2. store[k] \in CRD /\ store[k].name = k /\ names \in NameSet /\ badBundle \in BOOLEAN
    BY <1>4, StorageAssumption DEF UpdateSpec, StorageTypeOK, IsNamed, Bundles
  <2>3. /\ obj \in CRD /\ obj.name = k /\ obj.accepted = store[k].accepted
        /\ obj.conditions = store[k].conditions /\ obj.badBundle = badBundle
        /\ obj.names = names
    BY <2>2 DEF CRD
  <2> HIDE DEF obj
  <2>4. PICK new \in CRD : /\ Stores(k, new) /\ new.badBundle = obj.badBundle
                           /\ new.accepted = obj.accepted /\ new.names = obj.names
                           /\ new.conditions = obj.conditions
    BY <1>2, <2>1, <2>3, PutStores DEF obj
  <2>5. \A f \in RequiredNames : new.names[f] # {}
    BY <2>3, <2>4, StorageAssumption
  <2>6. Keeps(k, new)
    BY <1>4, <2>1, <2>3, <2>4, <2>5 DEF UpdateSpec, Keeps, KeepsConditions, IsCRDConditionTrue,
       FindCRDCondition, BundleValid, ValidUpdate, NamesGiven, Served
  <2>7. QED
    BY <2>4, <2>6
<1>5. CASE DeleteCRD(k)
  <2>1. store[k] \in CRD /\ store[k].name = k
    BY <1>5 DEF DeleteCRD, StorageTypeOK, IsNamed
  <2>2. PICK new \in CRD : /\ Stores(k, new) /\ new.accepted = store[k].accepted
                           /\ new.names = store[k].names
                           /\ new.badBundle = store[k].badBundle
                           /\ new.conditions = MarkDeleted(store[k]).conditions
    BY <1>2, <1>5, <2>1, MarkDeletedType, PutStores DEF DeleteCRD
  <2>3. Keeps(k, new)
    BY <1>5, <2>1, <2>2, MarkDeletedType DEF DeleteCRD, Keeps, KeepsConditions,
       IsCRDConditionTrue, FindCRDCondition, BundleValid, NamesGiven, Served
  <2>4. QED
    BY <2>2, <2>3
<1>6. QED
  BY <1>1, <1>3, <1>4, <1>5

\* So is a status update of another controller, unless it removes the object
\* or does nothing.
LEMMA WritersStore ==
  ASSUME StorageTypeOK, NEW k \in CRDs,
         Establish(k) \/ BeginFinalize(k) \/ Finalize(k) \/ RemoveFinalizer(k)
  PROVE  NothingStored \/ \E obj \in CRD \cup {NoCRD} : Stores(k, obj) /\ Keeps(k, obj)
<1>1. store[k] \in CRD /\ store[k].name = k /\ store[k] # NoCRD
  BY DEF Establish, BeginFinalize, Finalize, RemoveFinalizer, StorageTypeOK, IsNamed
<1>2. CASE \E crd \in CRD : /\ crd.name = k /\ crd.accepted = store[k].accepted
                            /\ KeepsConditions(store[k], crd)
                            /\ KeepsBundle(store[k], crd)
                            /\ UpdateStatus(crd)
  <2>1. PICK crd \in CRD : /\ crd.name = k /\ crd.accepted = store[k].accepted
                           /\ KeepsConditions(store[k], crd)
                           /\ KeepsBundle(store[k], crd)
                           /\ UpdateStatus(crd)
    BY <1>2
  <2>2. CASE NothingStored \/ Stores(k, NoCRD)
    BY <2>2 DEF Keeps
  <2>3. CASE \E new \in CRD : /\ Stores(k, new) /\ new.badBundle = store[k].badBundle
                              /\ new.names = store[k].names
                              /\ new.accepted = crd.accepted
                              /\ new.conditions = crd.conditions
    <3>1. PICK new \in CRD : /\ Stores(k, new) /\ new.badBundle = store[k].badBundle
                             /\ new.names = store[k].names
                             /\ new.accepted = crd.accepted
                             /\ new.conditions = crd.conditions
      BY <2>3
    <3>2. Keeps(k, new)
      BY <1>1, <2>1, <3>1 DEF Keeps, KeepsConditions, KeepsBundle, BundleValid,
         IsCRDConditionTrue, FindCRDCondition, NamesGiven, Served
    <3>3. QED
      BY <3>1, <3>2
  <2>4. QED
    BY <1>1, <2>1, <2>2, <2>3, UpdateStatusStores
<1>3. CASE Establish(k)
  <2>1. PICK c \in Conditions : /\ c # NoCondition
                                /\ store[k].badBundle => c.status = "False"
                                /\ WithEstablished(store[k])
                                     = SetCRDCondition(store[k], "Established", c)
    <3>1. /\ Condition("True", "InitialNamesAccepted") \in Conditions
          /\ Condition("False", "InvalidCABundle") \in Conditions
      BY ConditionType DEF Reasons
    <3>2. /\ Condition("True", "InitialNamesAccepted").status = "True"
          /\ Condition("False", "InvalidCABundle").status = "False"
          /\ NoCondition.status = "Absent"
      BY DEF Condition, NoCondition
    <3>3. QED
      BY <3>1, <3>2 DEF WithEstablished
  <2>2. SetCRDCondition(store[k], "Established", c) \in CRD
    BY <1>1, SetConditionType DEF ConditionTypes
  <2>3. ~ IsCRDConditionTrue(store[k], "Established")
    BY <1>3 DEF Establish, ToEstablish
  <2>4. KeepsConditions(store[k], SetCRDCondition(store[k], "Established", c))
    <3>1. Served(store[k])
      BY <1>3 DEF Establish, ToEstablish, Served
    <3>2. QED
      BY <1>1, <2>1, <2>3, <3>1 DEF SetCRDCondition, CRD, KeepsConditions, FindCRDCondition,
         ConditionTypes
  <2>5. KeepsBundle(store[k], SetCRDCondition(store[k], "Established", c))
    BY <1>1, <2>1, <2>3 DEF SetCRDCondition, CRD, KeepsBundle, BundleValid,
       IsCRDConditionTrue, FindCRDCondition, ConditionTypes
  <2>6. QED
    BY <1>1, <1>2, <1>3, <2>1, <2>2, <2>4, <2>5 DEF Establish, SetCRDCondition, CRD
<1>4. ASSUME BeginFinalize(k) \/ Finalize(k)
      PROVE  \E crd \in CRD : /\ crd.name = k /\ crd.accepted = store[k].accepted
                              /\ KeepsConditions(store[k], crd)
                              /\ KeepsBundle(store[k], crd)
                              /\ UpdateStatus(crd)
  <2>1. \A status \in {"True", "False"}, reason \in Reasons :
          LET new == WithTerminating(store[k], status, reason)
          IN  /\ new \in CRD /\ new.name = k /\ new.accepted = store[k].accepted
              /\ KeepsConditions(store[k], new) /\ KeepsBundle(store[k], new)
    <3>1. \A status \in {"True", "False"}, reason \in Reasons :
            WithTerminating(store[k], status, reason) \in CRD
      BY <1>1, SetConditionType, ConditionType DEF WithTerminating, ConditionTypes
    <3>2. \A status \in {"True", "False"}, reason \in Reasons :
            LET new == WithTerminating(store[k], status, reason)
            IN  /\ new.name = k /\ new.accepted = store[k].accepted
                /\ new.badBundle = store[k].badBundle
                /\ \A type \in {"NamesAccepted", "Established"} :
                     new.conditions[type] = store[k].conditions[type]
      BY <1>1 DEF WithTerminating, ConditionTypes, SetCRDCondition, CRD
    <3>3. QED
      BY <3>1, <3>2 DEF KeepsConditions, KeepsBundle, BundleValid, IsCRDConditionTrue,
         FindCRDCondition, Served
  <2>2. CASE BeginFinalize(k)
    BY <2>1, <2>2 DEF BeginFinalize, Reasons
  <2>3. CASE Finalize(k)
    <3>1. PICK reason \in Reasons :
            UpdateStatus(CRDRemoveFinalizer(WithTerminating(store[k], "False", reason),
                                            CleanupFinalizer))
      BY <2>3 DEF Finalize, FinalReasons, Reasons
    <3> DEFINE new == WithTerminating(store[k], "False", reason)
               released == CRDRemoveFinalizer(new, CleanupFinalizer)
    <3>2. /\ new \in CRD /\ new.name = k /\ new.accepted = store[k].accepted
          /\ KeepsConditions(store[k], new) /\ KeepsBundle(store[k], new)
      BY <2>1
    <3> HIDE DEF new
    <3>3. /\ released \in CRD /\ released.name = k /\ released.accepted = store[k].accepted
          /\ released.conditions = new.conditions /\ released.badBundle = new.badBundle
      BY <3>2 DEF CRDRemoveFinalizer, CRD
    <3>4. KeepsConditions(store[k], released) /\ KeepsBundle(store[k], released)
      BY <3>2, <3>3 DEF KeepsConditions, KeepsBundle, BundleValid, IsCRDConditionTrue,
         FindCRDCondition, Served
    <3>5. UpdateStatus(released)
      BY <3>1 DEF new
    <3>6. QED
      BY <3>3, <3>4, <3>5
  <2>4. QED
    BY <1>4, <2>2, <2>3
<1>5. CASE RemoveFinalizer(k)
  <2>1. PICK f \in Finalizers :
          LET crd == CRDRemoveFinalizer(store[k], f)
          IN  Write(k, NoCRD) \/ Put(k, crd)
    BY <1>5 DEF RemoveFinalizer
  <2> DEFINE crd == CRDRemoveFinalizer(store[k], f)
  <2>2. CASE Write(k, NoCRD)
    BY <2>2 DEF Stores, Keeps
  <2>3. CASE Put(k, crd)
    <3>1. /\ crd \in CRD /\ crd.name = k /\ crd.accepted = store[k].accepted
          /\ crd.conditions = store[k].conditions /\ crd.badBundle = store[k].badBundle
          /\ crd.names = store[k].names
      BY <1>1 DEF CRDRemoveFinalizer, CRD
    <3> HIDE DEF crd
    <3>2. PICK new \in CRD : /\ Stores(k, new) /\ new.accepted = crd.accepted
                             /\ new.badBundle = crd.badBundle /\ new.names = crd.names
                             /\ new.conditions = crd.conditions
      BY <2>3, <3>1, PutStores DEF StorageTypeOK
    <3>3. QED
      BY <1>1, <3>1, <3>2 DEF Keeps, KeepsConditions, BundleValid, IsCRDConditionTrue,
         FindCRDCondition, NamesGiven, Served
  <2>4. QED
    BY <2>1, <2>2, <2>3
<1>6. QED
  BY <1>2, <1>3, <1>4, <1>5

-----------------------------------------------------------------------------
(* Type correctness.                                                       *)

\* A write keeps the storage well typed.
LEMMA StoresType ==
  ASSUME StorageTypeOK, NEW k \in CRDs, NEW obj, Stores(k, obj),
         UNCHANGED cache, userWrites' \in 0..MaxUserWrites
  PROVE  StorageTypeOK'
<1> DEFINE event == [rv |-> rv + 1, name |-> k, obj |-> obj]
<1>1. rv' \in Nat /\ store' \in [CRDs -> CRD \cup {NoCRD}]
  BY DEF Stores, Write, StorageTypeOK
<1>2. event \in Event /\ IsNamed(event.obj, event.name)
  BY DEF Event, IsNamed, Stores, StorageTypeOK
<1>3. watch' = [s \in Servers |-> watch[s] \cup {event}]
  BY DEF Stores, Write
<1> HIDE DEF event
<1>4. /\ watch' \in [Servers -> SUBSET Event]
      /\ \A s \in Servers : \A e \in watch'[s] : IsNamed(e.obj, e.name)
  BY <1>2, <1>3 DEF StorageTypeOK
<1>5. \A j \in CRDs : IsNamed(store'[j], j)
  BY DEF Stores, Write, StorageTypeOK, IsNamed
<1>6. QED
  BY <1>1, <1>4, <1>5 DEF StorageTypeOK

\* User requests do.
LEMMA UserNextType ==
  ASSUME StorageTypeOK, UserNext
  PROVE  UNCHANGED cache /\ StorageTypeOK'
<1>1. UserWrite
  BY DEF UserNext, CreateCRD, UpdateSpec, DeleteCRD
<1>2. UNCHANGED cache /\ userWrites' \in 0..MaxUserWrites
  <2>1. userWrites \in 0..MaxUserWrites /\ MaxUserWrites \in Nat
    BY StorageAssumption DEF StorageTypeOK
  <2>2. QED
    BY <1>1, <2>1 DEF UserWrite
<1>3. QED
  BY <1>2, UserNextStores, StoresType

\* A status update does.
LEMMA UpdateStatusType ==
  ASSUME StorageTypeOK, NEW crd \in CRD, store[crd.name] # NoCRD, UpdateStatus(crd),
         UNCHANGED <<cache, userWrites>>
  PROVE  StorageTypeOK'
<1>1. crd.name \in CRDs /\ userWrites \in 0..MaxUserWrites
  BY DEF CRD, StorageTypeOK
<1>2. CASE NothingStored
  BY <1>2 DEF NothingStored, StorageTypeOK, IsNamed
<1>3. QED
  BY <1>1, <1>2, UpdateStatusStores, StoresType

\* The naming controller, seen as one step, sends a status update with some
\* accepted names and a condition of them.
LEMMA NameUpdates ==
  ASSUME StorageTypeOK, NEW k \in CRDs, Name(k)
  PROVE  \E accepted \in NameSet, c \in Conditions :
           UpdateStatus(SetCRDCondition(
             SetCRDCondition([store[k] EXCEPT !.accepted = accepted], "NamesAccepted", c),
             "Established", EstablishedCondition(store[k], c)))
<1>1. store[k] \in CRD
  BY DEF Name, StorageTypeOK
<1>2. /\ Condition("True", "NoConflicts") \in Conditions
      /\ Condition("False", "plural") \in Conditions
  BY ConditionType DEF Reasons, NameFields, ResourceFields
<1>3. store[k].names \in NameSet /\ store[k].accepted \in NameSet
  BY <1>1 DEF CRD
<1>4. QED
  BY <1>2, <1>3 DEF Name

\* That update keeps the types.
LEMMA NameType ==
  ASSUME StorageTypeOK, NEW k \in CRDs, Name(k), UNCHANGED <<cache, userWrites>>
  PROVE  StorageTypeOK'
<1>1. store[k] # NoCRD /\ store[k] \in CRD /\ store[k].name = k
  BY DEF Name, StorageTypeOK, IsNamed
<1>2. PICK accepted \in NameSet, c \in Conditions :
        UpdateStatus(SetCRDCondition(
          SetCRDCondition([store[k] EXCEPT !.accepted = accepted], "NamesAccepted", c),
          "Established", EstablishedCondition(store[k], c)))
  BY NameUpdates
<1> DEFINE named == [store[k] EXCEPT !.accepted = accepted]
           first == SetCRDCondition(named, "NamesAccepted", c)
           new   == SetCRDCondition(first, "Established", EstablishedCondition(store[k], c))
<1>3. named \in CRD /\ named.name = k
  BY <1>1 DEF CRD
<1> HIDE DEF named
<1>4. first \in CRD /\ first.name = k
  BY <1>3, SetConditionType DEF SetCRDCondition, ConditionTypes, CRD
<1> HIDE DEF first
<1>5. new \in CRD /\ new.name = k
  BY <1>1, <1>4, SetConditionType, EstablishedConditionType
     DEF SetCRDCondition, ConditionTypes, CRD
<1>6. UpdateStatus(new)
  BY <1>2 DEF first, named
<1> HIDE DEF new
<1>7. QED
  BY <1>1, <1>5, <1>6, UpdateStatusType

\* The informer moves CRDs from the watch and the store to the cache.
LEMMA InformerType ==
  ASSUME StorageTypeOK, NEW s \in Servers, (\E e \in watch[s] : Receive(s, e)) \/ List(s)
  PROVE  StorageTypeOK'
<1>1. CASE List(s)
  BY <1>1 DEF List, StorageTypeOK, IsNamed
<1>2. ASSUME NEW e \in watch[s], Receive(s, e)
      PROVE  StorageTypeOK'
  <2>1. e \in Event /\ IsNamed(e.obj, e.name)
    BY DEF StorageTypeOK
  <2>2. QED
    BY <1>2, <2>1 DEF Receive, StorageTypeOK, Event, IsNamed
<1>3. QED
  BY <1>1, <1>2

\* What is stored, key by key.
LEMMA StoresStore ==
  ASSUME StorageTypeOK, NEW k \in CRDs, NEW obj, Stores(k, obj)
  PROVE  /\ rv' = rv + 1
         /\ store'[k] = obj
         /\ \A j \in CRDs \ {k} : store'[j] = store[j]
         /\ \A s \in Servers :
              watch'[s] = watch[s] \cup {[rv |-> rv + 1, name |-> k, obj |-> obj]}
  BY DEF Stores, Write, StorageTypeOK

-----------------------------------------------------------------------------
(* Versions: the store, the events on their way and the caches.            *)

\* A write keeps the order of versions.
LEMMA StoresStoreInv ==
  ASSUME StorageTypeOK, StoreInv, NEW k \in CRDs, NEW obj, Stores(k, obj), UNCHANGED cache
  PROVE  StoreInv'
<1> USE DEF StoreInv
<1> DEFINE event == [rv |-> rv + 1, name |-> k, obj |-> obj]
<1>1. /\ rv' = rv + 1 /\ store'[k] = obj
      /\ \A j \in CRDs \ {k} : store'[j] = store[j]
      /\ \A s \in Servers : watch'[s] = watch[s] \cup {event}
      /\ obj # NoCRD => obj.rv = rv + 1
  BY StoresStore DEF Stores
<1>2. event.rv = rv + 1 /\ event.name = k /\ event.obj = obj
  OBVIOUS
<1> HIDE DEF event
<1>3. /\ rv \in Nat
      /\ \A j \in CRDs : store[j] # NoCRD => store[j].rv \in Nat
      /\ \A s \in Servers, j \in CRDs : cache[s][j] # NoCRD => cache[s][j].rv \in Nat
      /\ \A s \in Servers : \A e \in watch[s] : e.rv \in Nat
  BY DEF StorageTypeOK, CRD, Event
<1>4. VersionInv'
  BY <1>1, <1>2, <1>3 DEF VersionInv, Live
<1>5. CacheInv'
  <2> SUFFICES ASSUME NEW s \in Servers, NEW j \in CRDs
               PROVE  /\ \A e \in watch'[s] :
                           e.name = j =>
                             /\ cache[s][j] # NoCRD => cache[s][j].rv < e.rv
                             /\ store'[j] # NoCRD => /\ e.rv <= store'[j].rv
                                                     /\ e.rv = store'[j].rv => e.obj = store'[j]
                      /\ cache[s][j] # NoCRD /\ store'[j] # NoCRD
                           => /\ cache[s][j].rv <= store'[j].rv
                              /\ cache[s][j].rv = store'[j].rv => cache[s][j] = store'[j]
    BY DEF CacheInv
  <2>1. CASE j = k
    <3>1. \A e \in watch[s] : e.rv < rv + 1
      BY <1>3 DEF VersionInv
    <3>2. cache[s][k] # NoCRD => cache[s][k].rv < rv + 1
      BY <1>3 DEF VersionInv
    <3>3. \A e \in watch[s] : e.name = k /\ cache[s][k] # NoCRD => cache[s][k].rv < e.rv
      BY DEF CacheInv
    <3>4. \A e \in watch'[s] : e \in watch[s] \/ e = event
      BY <1>1
    <3>5. QED
      BY <1>1, <1>2, <1>3, <2>1, <3>1, <3>2, <3>3, <3>4
  <2>2. CASE j # k
    BY <1>1, <1>2, <2>2 DEF CacheInv
  <2>3. QED
    BY <2>1, <2>2
<1>6. EventsDistinct'
  <2>1. \A s \in Servers : \A e \in watch[s] : e.rv < event.rv
    BY <1>2, <1>3 DEF VersionInv
  <2>2. QED
    BY <1>1, <1>2, <1>3, <2>1 DEF EventsDistinct
<1>7. QED
  BY <1>4, <1>5, <1>6

\* So does the informer, which delivers events in order.
LEMMA InformerStoreInv ==
  ASSUME StorageTypeOK, StoreInv, NEW s \in Servers,
         (\E e \in watch[s] : Receive(s, e)) \/ List(s)
  PROVE  StoreInv'
<1> USE DEF StoreInv
<1>1. /\ rv \in Nat
      /\ \A j \in CRDs : store[j] # NoCRD => store[j].rv \in Nat
      /\ \A t \in Servers : \A e \in watch[t] : e.rv \in Nat /\ e.name \in CRDs
  BY DEF StorageTypeOK, CRD, Event
<1>2. CASE List(s)
  <2>1. /\ UNCHANGED <<rv, store>>
        /\ cache'[s] = store /\ watch'[s] = {}
        /\ \A t \in Servers \ {s} : cache'[t] = cache[t] /\ watch'[t] = watch[t]
    BY <1>2 DEF List, StorageTypeOK
  <2>2. VersionInv'
    BY <2>1 DEF VersionInv, Live
  <2>3. CacheInv'
    BY <1>1, <2>1 DEF CacheInv
  <2>4. EventsDistinct'
    BY <2>1 DEF EventsDistinct
  <2>5. QED
    BY <2>2, <2>3, <2>4
<1>3. ASSUME NEW e \in watch[s], Receive(s, e)
      PROVE  StoreInv'
  <2>1. /\ UNCHANGED <<rv, store>>
        /\ watch'[s] = watch[s] \ {e}
        /\ cache'[s][e.name] = e.obj
        /\ \A j \in CRDs : j # e.name => cache'[s][j] = cache[s][j]
        /\ \A t \in Servers \ {s} : cache'[t] = cache[t] /\ watch'[t] = watch[t]
    BY <1>1, <1>3 DEF Receive, StorageTypeOK
  <2>2. \A f \in watch'[s] : e.rv < f.rv
    BY <1>1, <1>3, <2>1 DEF Receive, Oldest, EventsDistinct
  <2>3. e.rv <= rv /\ (e.obj # NoCRD => e.obj.rv = e.rv)
    BY DEF VersionInv
  <2>4. VersionInv'
    <3>1. \A j \in CRDs : cache'[s][j] # NoCRD => cache'[s][j].rv <= rv
      BY <2>1, <2>3 DEF VersionInv
    <3>2. QED
      BY <2>1, <3>1 DEF VersionInv, Live
  <2>5. CacheInv'
    <3>1. ASSUME NEW j \in CRDs
          PROVE  /\ \A f \in watch'[s] :
                      f.name = j => /\ cache'[s][j] # NoCRD => cache'[s][j].rv < f.rv
                                    /\ store[j] # NoCRD => /\ f.rv <= store[j].rv
                                                           /\ f.rv = store[j].rv => f.obj = store[j]
                 /\ cache'[s][j] # NoCRD /\ store[j] # NoCRD
                      => /\ cache'[s][j].rv <= store[j].rv
                         /\ cache'[s][j].rv = store[j].rv => cache'[s][j] = store[j]
      <4>1. CASE j = e.name
        BY <2>1, <2>2, <2>3, <4>1 DEF CacheInv
      <4>2. CASE j # e.name
        BY <2>1, <4>2 DEF CacheInv
      <4>3. QED
        BY <4>1, <4>2
    <3>2. \A t \in Servers : t # s => cache'[t] = cache[t] /\ watch'[t] = watch[t]
      BY <2>1
    <3>3. QED
      BY <2>1, <3>1, <3>2 DEF CacheInv
  <2>6. EventsDistinct'
    BY <2>1 DEF EventsDistinct
  <2>7. QED
    BY <2>4, <2>5, <2>6
<1>4. QED
  BY <1>2, <1>3

-----------------------------------------------------------------------------
(* The life of a CRD.                                                      *)

\* What one step may do to the facts about a CRD.
LifeStep(old, new) ==
  \/ new = old
  \/ old = {} /\ new = {"exists"}
  \/ old # {} /\ new = old \cup {"named"}
  \/ new = old \ {"named"}
  \/ "named" \in old /\ new = old \cup {"established"}
  \/ old # {} /\ new = old \cup {"deleting"}
  \/ "deleting" \in old /\ new = {}

\* The facts about a CRD are in its conditions and in its being deleted.
LEMMA LifeOfFacts ==
  ASSUME NEW crd, crd # NoCRD
  PROVE  /\ LifeOf(crd) \subseteq {"exists", "named", "established", "deleting"}
         /\ "exists" \in LifeOf(crd)
         /\ "named" \in LifeOf(crd) <=> IsCRDConditionTrue(crd, "NamesAccepted")
         /\ "established" \in LifeOf(crd) <=> IsCRDConditionTrue(crd, "Established")
         /\ "deleting" \in LifeOf(crd) <=> (crd.deleting = TRUE)
  BY DEF LifeOf

\* A step that changes what is known of one CRD, in one of these ways, is a
\* step of the lifecycle.
LEMMA LifeStepNext ==
  ASSUME NEW k \in CRDs, \A j \in CRDs \ {k} : store'[j] = store[j],
         LifeStep(LifeOf(store[k]), LifeOf(store'[k]))
  PROVE  [Lifecycle!Next]_Life
<1> DEFINE old == LifeOf(store[k])
           new == LifeOf(store'[k])
<1>1. Life' = [Life EXCEPT ![k] = new] /\ Life[k] = old
  BY DEF Life
<1>2. \A j \in CRDs : Life[j] = LifeOf(store[j])
  BY DEF Life
<1>3. CASE new = old
  BY <1>1, <1>3 DEF Life
<1>4. LifeStep(old, new)
  OBVIOUS
<1> HIDE DEF old, new
<1>5. CASE new # old
  <2>1. CASE old = {} /\ new = {"exists"}
    BY <1>1, <2>1 DEF Lifecycle!Next, Lifecycle!Create, Lifecycle!Become
  <2>2. CASE old # {} /\ new = old \cup {"named"}
    BY <1>1, <2>2 DEF Lifecycle!Next, Lifecycle!Name, Lifecycle!Become
  <2>3. CASE new = old \ {"named"}
    BY <1>1, <2>3 DEF Lifecycle!Next, Lifecycle!Unname, Lifecycle!Become
  <2>4. CASE "named" \in old /\ new = old \cup {"established"}
    BY <1>1, <2>4 DEF Lifecycle!Next, Lifecycle!Establish, Lifecycle!Become
  <2>5. CASE old # {} /\ new = old \cup {"deleting"}
    BY <1>1, <2>5 DEF Lifecycle!Next, Lifecycle!Delete, Lifecycle!Become
  <2>6. CASE "deleting" \in old /\ new = {}
    BY <1>1, <2>6 DEF Lifecycle!Next, Lifecycle!Remove, Lifecycle!Become
  <2>7. QED
    BY <1>4, <1>5, <2>1, <2>2, <2>3, <2>4, <2>5, <2>6 DEF LifeStep
<1>6. QED
  BY <1>3, <1>5

\* A stored object is what was put in all but its version.
LEMMA PutLife ==
  ASSUME StorageTypeOK, NEW k \in CRDs, NEW obj \in CRD, Put(k, obj),
         LifeStep(LifeOf(store[k]), LifeOf(obj))
  PROVE  [Lifecycle!Next]_Life
<1> DEFINE new == [obj EXCEPT !.rv = rv + 1]
<1>0. /\ new \in CRD
      /\ new.conditions = obj.conditions /\ new.deleting = obj.deleting
  <2>1. rv \in Nat
    BY DEF StorageTypeOK
  <2>2. QED
    BY <2>1 DEF CRD
<1>1. new # NoCRD /\ obj # NoCRD
  BY <1>0, ConstantsAssumption
<1>2. store' = [store EXCEPT ![k] = new]
  BY DEF Put, Write
<1> HIDE DEF new
<1>3. LifeOf(new) = LifeOf(obj)
  BY <1>0, <1>1 DEF LifeOf, IsCRDConditionTrue, FindCRDCondition
<1>4. store'[k] = new /\ \A j \in CRDs \ {k} : store'[j] = store[j]
  BY <1>2 DEF StorageTypeOK
<1>5. QED
  BY <1>3, <1>4, LifeStepNext

\* A status update that is stored takes its facts from the caller's object; it
\* removes an object only when that says it was deleted.
LEMMA UpdateStatusLife ==
  ASSUME StorageTypeOK, NEW crd \in CRD, store[crd.name] # NoCRD, UpdateStatus(crd),
         LifeStep(LifeOf(store[crd.name]), LifeOf(crd)),
         crd.deleting => store[crd.name].deleting
  PROVE  [Lifecycle!Next]_Life
<1> DEFINE k   == crd.name
           new == [crd EXCEPT !.names = store[k].names, !.badBundle = store[k].badBundle]
<1>1. k \in CRDs /\ crd # NoCRD
  BY ConstantsAssumption DEF CRD
<1>2. new \in CRD /\ new.conditions = crd.conditions /\ new.deleting = crd.deleting
  BY <1>1 DEF StorageTypeOK, CRD
<1>3. \/ crd.deleting /\ Write(k, NoCRD)
      \/ UNCHANGED store
      \/ Put(k, new)
  BY <1>2 DEF UpdateStatus
<1> HIDE DEF new
<1>4. CASE crd.deleting /\ Write(k, NoCRD)
  <2>1. "deleting" \in LifeOf(store[k])
    BY <1>4, LifeOfFacts DEF StorageTypeOK, CRD
  <2>2. store'[k] = NoCRD /\ \A j \in CRDs \ {k} : store'[j] = store[j]
    BY <1>1, <1>4 DEF Write, StorageTypeOK
  <2>3. LifeStep(LifeOf(store[k]), LifeOf(store'[k]))
    BY <2>1, <2>2 DEF LifeStep, LifeOf
  <2>4. QED
    BY <1>1, <2>2, <2>3, LifeStepNext
<1>5. CASE UNCHANGED store
  BY <1>5 DEF Life
<1>6. CASE Put(k, new)
  <2>1. new # NoCRD
    BY <1>2, ConstantsAssumption
  <2>2. LifeOf(new) = LifeOf(crd)
    BY <1>1, <1>2, <2>1 DEF LifeOf, IsCRDConditionTrue, FindCRDCondition
  <2>3. QED
    BY <1>1, <1>2, <1>6, <2>2, PutLife
<1>7. QED
  BY <1>3, <1>4, <1>5, <1>6

\* CRDs that agree in these facts have the same life.
LEMMA SameLife ==
  ASSUME NEW crd \in CRD, NEW new \in CRD, new.deleting = crd.deleting,
         \A type \in {"NamesAccepted", "Established"} :
           IsCRDConditionTrue(new, type) <=> IsCRDConditionTrue(crd, type)
  PROVE  LifeOf(new) = LifeOf(crd)
<1>1. crd # NoCRD /\ new # NoCRD
  BY ConstantsAssumption
<1>2. \A fact : fact \in LifeOf(new) <=> fact \in LifeOf(crd)
  BY <1>1, LifeOfFacts
<1>3. QED
  BY <1>2

\* The requests of users, one at a time.
LEMMA UserNextLife ==
  ASSUME StorageTypeOK, UserNext
  PROVE  [Lifecycle!Next]_Life
<1>1. PICK k \in CRDs : CreateCRD(k) \/ UpdateSpec(k) \/ DeleteCRD(k)
  BY DEF UserNext
<1>2. rv \in Nat
  BY DEF StorageTypeOK
<1>3. CASE CreateCRD(k)
  <2>1. PICK names \in SpecNames[k], badBundle \in Bundles(k), finalizers \in SUBSET Finalizers :
          Put(k, NewCRD(k, names, badBundle, finalizers))
    BY <1>3 DEF CreateCRD
  <2> DEFINE obj == NewCRD(k, names, badBundle, finalizers)
  <2>2. obj \in CRD
    BY <1>2, StorageAssumption, NewCRDType DEF Bundles
  <2>3. /\ obj.deleting = FALSE
        /\ ~ IsCRDConditionTrue(obj, "NamesAccepted")
        /\ ~ IsCRDConditionTrue(obj, "Established")
    BY DEF NewCRD, ConditionTypes, NoCondition, Condition, IsCRDConditionTrue, FindCRDCondition
  <2>4. Put(k, obj)
    BY <2>1
  <2> HIDE DEF obj
  <2>5. obj # NoCRD
    BY <2>2, ConstantsAssumption
  <2>6. \A fact : fact \in LifeOf(obj) <=> fact = "exists"
    BY <2>3, <2>5, LifeOfFacts
  <2>7. LifeStep(LifeOf(store[k]), LifeOf(obj))
    BY <1>3, <2>6 DEF CreateCRD, LifeOf, LifeStep
  <2>8. QED
    BY <2>2, <2>4, <2>7, PutLife
<1>4. CASE UpdateSpec(k)
  <2>1. PICK names \in SpecNames[k], badBundle \in Bundles(k) :
          Put(k, [store[k] EXCEPT !.names = names, !.badBundle = badBundle])
    BY <1>4 DEF UpdateSpec
  <2> DEFINE obj == [store[k] EXCEPT !.names = names, !.badBundle = badBundle]
  <2>2. store[k] \in CRD /\ names \in NameSet /\ badBundle \in BOOLEAN
    BY <1>4, StorageAssumption DEF UpdateSpec, StorageTypeOK, Bundles
  <2>3. /\ obj \in CRD /\ obj.conditions = store[k].conditions
        /\ obj.deleting = store[k].deleting
    BY <2>2 DEF CRD
  <2>4. Put(k, obj)
    BY <2>1
  <2> HIDE DEF obj
  <2>5. LifeOf(obj) = LifeOf(store[k])
    BY <2>2, <2>3, SameLife DEF IsCRDConditionTrue, FindCRDCondition
  <2>6. QED
    BY <2>3, <2>4, <2>5, PutLife DEF LifeStep
<1>5. CASE DeleteCRD(k)
  <2> DEFINE obj == MarkDeleted(store[k])
  <2>1. store[k] \in CRD /\ store[k] # NoCRD
    BY <1>5 DEF DeleteCRD, StorageTypeOK
  <2>2. /\ obj \in CRD
        /\ \A type \in {"NamesAccepted", "Established"} :
             IsCRDConditionTrue(obj, type) <=> IsCRDConditionTrue(store[k], type)
    BY <2>1, MarkDeletedType DEF IsCRDConditionTrue
  <2>3. obj.deleting = TRUE
    BY <2>1 DEF MarkDeleted, SetCRDCondition, CRD
  <2>4. Put(k, obj)
    BY <1>5 DEF DeleteCRD
  <2> HIDE DEF obj
  <2>5. obj # NoCRD
    BY <2>2, ConstantsAssumption
  <2>6. LifeOf(store[k]) # {}
    BY <2>1, LifeOfFacts
  <2>7. \A fact : fact \in LifeOf(obj) <=> fact \in LifeOf(store[k]) \cup {"deleting"}
    BY <2>1, <2>2, <2>3, <2>5, LifeOfFacts
  <2>8. LifeOf(obj) = LifeOf(store[k]) \cup {"deleting"}
    BY <2>7
  <2>9. QED
    BY <2>2, <2>4, <2>6, <2>8, PutLife DEF LifeStep
<1>6. QED
  BY <1>1, <1>3, <1>4, <1>5

\* What the conditions say after one of them is set.
LEMMA SetConditionLife ==
  ASSUME NEW crd \in CRD, NEW type \in ConditionTypes, NEW c \in Conditions
  PROVE  LET new == SetCRDCondition(crd, type, c)
         IN  /\ new \in CRD /\ new.name = crd.name /\ new.rv = crd.rv
             /\ new.uid = crd.uid /\ new.deleting = crd.deleting
             /\ new.finalizers = crd.finalizers
             /\ new.badBundle = crd.badBundle /\ new.names = crd.names
             /\ new.accepted = crd.accepted
             /\ IsCRDConditionTrue(new, type) <=> c.status = "True"
             /\ \A other \in ConditionTypes \ {type} :
                  IsCRDConditionTrue(new, other) <=> IsCRDConditionTrue(crd, other)
  BY SetConditionType DEF SetCRDCondition, CRD, IsCRDConditionTrue, FindCRDCondition

\* The Terminating condition is no fact of the life of a CRD.
LEMMA TerminatingLife ==
  ASSUME NEW crd \in CRD, NEW status \in {"True", "False"}, NEW reason \in Reasons
  PROVE  LET new == WithTerminating(crd, status, reason)
         IN  /\ new \in CRD /\ new.name = crd.name /\ new.rv = crd.rv
             /\ new.uid = crd.uid /\ new.deleting = crd.deleting
             /\ new.finalizers = crd.finalizers
             /\ IsCRDConditionTrue(new, "Terminating") <=> status = "True"
             /\ LifeOf(new) = LifeOf(crd)
<1>1. Condition(status, reason) \in Conditions /\ Condition(status, reason).status = status
  BY ConditionType DEF Condition
<1>2. LET new == WithTerminating(crd, status, reason)
      IN  /\ new \in CRD /\ new.name = crd.name /\ new.rv = crd.rv
          /\ new.uid = crd.uid /\ new.deleting = crd.deleting
          /\ new.finalizers = crd.finalizers
          /\ IsCRDConditionTrue(new, "Terminating") <=> status = "True"
          /\ \A type \in {"NamesAccepted", "Established"} :
               IsCRDConditionTrue(new, type) <=> IsCRDConditionTrue(crd, type)
  BY <1>1, SetConditionLife DEF WithTerminating, ConditionTypes
<1>3. QED
  BY <1>2, SameLife

\* Nor are finalizers.
LEMMA FinalizerLife ==
  ASSUME NEW crd \in CRD, NEW f
  PROVE  LET new == CRDRemoveFinalizer(crd, f)
         IN  /\ new \in CRD /\ new.name = crd.name /\ new.rv = crd.rv
             /\ new.uid = crd.uid /\ new.deleting = crd.deleting
             /\ new.conditions = crd.conditions
             /\ new.finalizers = crd.finalizers \ {f}
             /\ LifeOf(new) = LifeOf(crd)
<1>1. LET new == CRDRemoveFinalizer(crd, f)
      IN  /\ new \in CRD /\ new.name = crd.name /\ new.rv = crd.rv
          /\ new.uid = crd.uid /\ new.deleting = crd.deleting
          /\ new.conditions = crd.conditions
          /\ new.finalizers = crd.finalizers \ {f}
  BY DEF CRDRemoveFinalizer, CRD
<1>2. QED
  BY <1>1, SameLife DEF IsCRDConditionTrue, FindCRDCondition

\* What the establishing controller sends establishes a CRD whose names are
\* accepted, or changes no fact.
LEMMA EstablishedLife ==
  ASSUME NEW crd \in CRD, ToEstablish(crd)
  PROVE  LET new == WithEstablished(crd)
         IN  /\ new \in CRD /\ new.name = crd.name /\ new.rv = crd.rv
             /\ new.uid = crd.uid /\ new.deleting = crd.deleting
             /\ new.finalizers = crd.finalizers
             /\ IsCRDConditionTrue(new, "Terminating") <=> IsCRDConditionTrue(crd, "Terminating")
             /\ IsCRDConditionTrue(new, "Established") => ~ crd.badBundle
             /\ LifeStep(LifeOf(crd), LifeOf(new))
<1> DEFINE c   == IF crd.badBundle THEN Condition("False", "InvalidCABundle")
                  ELSE Condition("True", "InitialNamesAccepted")
           new == WithEstablished(crd)
<1>1. c \in Conditions /\ (c.status = "True" => ~ crd.badBundle)
  <2>1. /\ Condition("True", "InitialNamesAccepted") \in Conditions
        /\ Condition("False", "InvalidCABundle") \in Conditions
        /\ Condition("False", "InvalidCABundle").status = "False"
    BY ConditionType DEF Reasons, Condition
  <2>2. QED
    BY <2>1
<1>2. new = SetCRDCondition(crd, "Established", c)
  BY DEF WithEstablished
<1> HIDE DEF c, new
<1>3. /\ new \in CRD /\ new.name = crd.name /\ new.rv = crd.rv
      /\ new.uid = crd.uid /\ new.deleting = crd.deleting
      /\ new.finalizers = crd.finalizers
      /\ IsCRDConditionTrue(new, "Established") <=> c.status = "True"
      /\ IsCRDConditionTrue(new, "NamesAccepted") <=> IsCRDConditionTrue(crd, "NamesAccepted")
      /\ IsCRDConditionTrue(new, "Terminating") <=> IsCRDConditionTrue(crd, "Terminating")
  <2>1. /\ "Established" \in ConditionTypes
        /\ "NamesAccepted" \in ConditionTypes \ {"Established"}
        /\ "Terminating" \in ConditionTypes \ {"Established"}
    BY DEF ConditionTypes
  <2>2. QED
    BY <1>1, <1>2, <2>1, SetConditionLife
<1>4. crd # NoCRD /\ new # NoCRD
  BY <1>3, ConstantsAssumption
<1>5. CASE c.status = "True"
  <2>1. "named" \in LifeOf(crd)
    BY <1>4, LifeOfFacts DEF ToEstablish
  <2>2. \A fact : fact \in LifeOf(new) <=> fact \in LifeOf(crd) \cup {"established"}
    BY <1>3, <1>4, <1>5, LifeOfFacts
  <2>3. LifeOf(new) = LifeOf(crd) \cup {"established"}
    BY <2>2
  <2>4. QED
    BY <1>1, <1>3, <2>1, <2>3 DEF LifeStep, new
<1>6. CASE c.status # "True"
  <2>1. LifeOf(new) = LifeOf(crd)
    BY <1>3, <1>6, SameLife DEF ToEstablish
  <2>2. QED
    BY <1>1, <1>3, <2>1 DEF LifeStep, new
<1>7. QED
  BY <1>5, <1>6

\* What the naming controller sends says whether the names are accepted, and
\* leaves Established true where it was.
LEMMA NamedLife ==
  ASSUME NEW crd \in CRD, NEW accepted \in NameSet, NEW c \in Conditions
  PROVE  LET new == SetCRDCondition(
                      SetCRDCondition([crd EXCEPT !.accepted = accepted], "NamesAccepted", c),
                      "Established", EstablishedCondition(crd, c))
         IN  /\ new \in CRD /\ new.name = crd.name
             /\ new.uid = crd.uid /\ new.deleting = crd.deleting
             /\ new.finalizers = crd.finalizers
             /\ IsCRDConditionTrue(new, "Terminating") <=> IsCRDConditionTrue(crd, "Terminating")
             /\ IsCRDConditionTrue(new, "Established")
                  <=> IsCRDConditionTrue(crd, "Established")
             /\ LifeStep(LifeOf(crd), LifeOf(new))
<1> DEFINE named == [crd EXCEPT !.accepted = accepted]
           first == SetCRDCondition(named, "NamesAccepted", c)
           e     == EstablishedCondition(crd, c)
           new   == SetCRDCondition(first, "Established", e)
<1>1. /\ "Established" \in ConditionTypes /\ "NamesAccepted" \in ConditionTypes
      /\ "Established" \in ConditionTypes \ {"NamesAccepted"}
      /\ "NamesAccepted" \in ConditionTypes \ {"Established"}
      /\ "Terminating" \in ConditionTypes \ {"Established"}
      /\ "Terminating" \in ConditionTypes \ {"NamesAccepted"}
  BY DEF ConditionTypes
<1>2. e \in Conditions /\ (e.status = "True" <=> IsCRDConditionTrue(crd, "Established"))
  <2>1. e \in Conditions
    BY EstablishedConditionType
  <2>2. NoCondition.status = "Absent"
    BY DEF NoCondition, Condition
  <2>3. e.status = "True" <=> IsCRDConditionTrue(crd, "Established")
    BY <2>2 DEF EstablishedCondition, IsCRDConditionTrue, Condition
  <2>4. QED
    BY <2>1, <2>3
<1>3. /\ named \in CRD /\ named.name = crd.name
      /\ named.uid = crd.uid /\ named.deleting = crd.deleting
      /\ named.finalizers = crd.finalizers
      /\ named.conditions = crd.conditions
      /\ IsCRDConditionTrue(named, "Terminating") <=> IsCRDConditionTrue(crd, "Terminating")
  BY DEF CRD, IsCRDConditionTrue, FindCRDCondition
<1> HIDE DEF named, e
<1>4. /\ first \in CRD /\ first.name = crd.name
      /\ first.uid = crd.uid /\ first.deleting = crd.deleting
      /\ first.finalizers = crd.finalizers
      /\ IsCRDConditionTrue(first, "Terminating") <=> IsCRDConditionTrue(crd, "Terminating")
      /\ IsCRDConditionTrue(first, "NamesAccepted") <=> c.status = "True"
  BY <1>1, <1>3, SetConditionLife
<1> HIDE DEF first
<1>5. /\ new \in CRD /\ new.name = crd.name
      /\ new.uid = crd.uid /\ new.deleting = crd.deleting
      /\ new.finalizers = crd.finalizers
      /\ IsCRDConditionTrue(new, "Terminating") <=> IsCRDConditionTrue(crd, "Terminating")
      /\ IsCRDConditionTrue(new, "NamesAccepted") <=> c.status = "True"
      /\ IsCRDConditionTrue(new, "Established") <=> e.status = "True"
  <2>1. /\ new \in CRD /\ new.name = first.name
        /\ new.uid = first.uid /\ new.deleting = first.deleting
        /\ new.finalizers = first.finalizers
        /\ IsCRDConditionTrue(new, "Established") <=> e.status = "True"
        /\ \A other \in ConditionTypes \ {"Established"} :
             IsCRDConditionTrue(new, other) <=> IsCRDConditionTrue(first, other)
    BY <1>1, <1>2, <1>4, SetConditionLife
  <2> HIDE DEF new
  <2>2. QED
    BY <1>1, <1>4, <2>1
<1>6. crd # NoCRD /\ new # NoCRD
  BY <1>5, ConstantsAssumption
<1>7. LifeStep(LifeOf(crd), LifeOf(new))
  <2>1. LifeOf(crd) # {}
    BY <1>6, LifeOfFacts
  <2> HIDE DEF new
  <2>2. CASE c.status = "True"
    <3>1. \A fact : fact \in LifeOf(new) <=> fact \in LifeOf(crd) \cup {"named"}
      BY <1>2, <1>5, <1>6, <2>2, LifeOfFacts
    <3>2. QED
      BY <2>1, <3>1 DEF LifeStep
  <2>3. CASE c.status # "True"
    <3>1. \A fact : fact \in LifeOf(new) <=> fact \in LifeOf(crd) \ {"named"}
      BY <1>2, <1>5, <1>6, <2>3, LifeOfFacts
    <3>2. QED
      BY <3>1 DEF LifeStep
  <2>4. QED
    BY <2>2, <2>3
<1>8. QED
  BY <1>2, <1>5, <1>7 DEF first, named, e

\* A step of another controller is a step of the lifecycle.
LEMMA WritersLife ==
  ASSUME StorageTypeOK, NEW k \in CRDs,
         Name(k) \/ Establish(k) \/ BeginFinalize(k) \/ Finalize(k) \/ RemoveFinalizer(k)
  PROVE  [Lifecycle!Next]_Life
<1>1. store[k] \in CRD /\ store[k].name = k /\ store[k] # NoCRD
  BY DEF Name, Establish, BeginFinalize, Finalize, RemoveFinalizer, StorageTypeOK, IsNamed
<1>2. ASSUME NEW crd \in CRD, crd.name = k, crd.deleting = store[k].deleting,
             LifeStep(LifeOf(store[k]), LifeOf(crd)), UpdateStatus(crd)
      PROVE  [Lifecycle!Next]_Life
  BY <1>1, <1>2, UpdateStatusLife
<1>3. CASE Name(k)
  <2>1. PICK accepted \in NameSet, c \in Conditions :
          UpdateStatus(SetCRDCondition(
            SetCRDCondition([store[k] EXCEPT !.accepted = accepted], "NamesAccepted", c),
            "Established", EstablishedCondition(store[k], c)))
    BY <1>3, NameUpdates
  <2>2. QED
    BY <1>1, <1>2, <2>1, NamedLife
<1>4. CASE Establish(k)
  BY <1>1, <1>2, <1>4, EstablishedLife DEF Establish
<1>5. CASE BeginFinalize(k)
  <2>1. UpdateStatus(WithTerminating(store[k], "True", "InstanceDeletionInProgress"))
    BY <1>5 DEF BeginFinalize
  <2>2. "InstanceDeletionInProgress" \in Reasons
    BY DEF Reasons
  <2>3. QED
    BY <1>1, <1>2, <2>1, <2>2, TerminatingLife DEF LifeStep
<1>6. CASE Finalize(k)
  <2>1. PICK reason \in Reasons :
          UpdateStatus(CRDRemoveFinalizer(WithTerminating(store[k], "False", reason),
                                          CleanupFinalizer))
    BY <1>6 DEF Finalize, FinalReasons, Reasons
  <2> DEFINE new      == WithTerminating(store[k], "False", reason)
             released == CRDRemoveFinalizer(new, CleanupFinalizer)
  <2>2. /\ new \in CRD /\ new.name = k /\ new.deleting = store[k].deleting
        /\ LifeOf(new) = LifeOf(store[k])
    BY <1>1, TerminatingLife
  <2> HIDE DEF new
  <2>3. /\ released \in CRD /\ released.name = k
        /\ released.deleting = store[k].deleting
        /\ LifeOf(released) = LifeOf(store[k])
    BY <2>2, FinalizerLife
  <2>4. UpdateStatus(released)
    BY <2>1 DEF new
  <2> HIDE DEF released
  <2>5. QED
    BY <1>2, <2>3, <2>4 DEF LifeStep
<1>7. CASE RemoveFinalizer(k)
  <2>1. PICK f : \/ store[k].deleting /\ Write(k, NoCRD)
                 \/ Put(k, CRDRemoveFinalizer(store[k], f))
    BY <1>7 DEF RemoveFinalizer
  <2>2. CASE store[k].deleting /\ Write(k, NoCRD)
    <3>1. "deleting" \in LifeOf(store[k])
      BY <1>1, <2>2, LifeOfFacts DEF CRD
    <3>2. store'[k] = NoCRD /\ \A j \in CRDs \ {k} : store'[j] = store[j]
      BY <2>2 DEF Write, StorageTypeOK
    <3>3. LifeStep(LifeOf(store[k]), LifeOf(store'[k]))
      BY <3>1, <3>2 DEF LifeStep, LifeOf
    <3>4. QED
      BY <3>2, <3>3, LifeStepNext
  <2>3. CASE Put(k, CRDRemoveFinalizer(store[k], f))
    BY <1>1, <2>3, FinalizerLife, PutLife DEF LifeStep
  <2>4. QED
    BY <2>1, <2>2, <2>3
<1>8. QED
  BY <1>3, <1>4, <1>5, <1>6, <1>7

\* The naming controller writes one object, or nothing, and the webhook of an
\* established CRD can be called as before.
LEMMA NameStores ==
  ASSUME StorageTypeOK, NEW k \in CRDs, Name(k)
  PROVE  \/ NothingStored
         \/ \E obj \in CRD \cup {NoCRD} :
              /\ Stores(k, obj)
              /\ obj # NoCRD /\ BundleValid(store[k]) => BundleValid(obj)
<1>1. store[k] \in CRD /\ store[k].name = k /\ store[k] # NoCRD
  BY DEF Name, StorageTypeOK, IsNamed
<1>2. PICK accepted \in NameSet, c \in Conditions :
        UpdateStatus(SetCRDCondition(
          SetCRDCondition([store[k] EXCEPT !.accepted = accepted], "NamesAccepted", c),
          "Established", EstablishedCondition(store[k], c)))
  BY NameUpdates
<1> DEFINE new == SetCRDCondition(
                    SetCRDCondition([store[k] EXCEPT !.accepted = accepted], "NamesAccepted", c),
                    "Established", EstablishedCondition(store[k], c))
<1>3. /\ new \in CRD /\ new.name = k
      /\ IsCRDConditionTrue(new, "Established") <=> IsCRDConditionTrue(store[k], "Established")
      /\ UpdateStatus(new)
  BY <1>1, <1>2, NamedLife
<1> HIDE DEF new
<1>4. \/ NothingStored
      \/ Stores(k, NoCRD)
      \/ \E obj \in CRD : /\ Stores(k, obj)
                          /\ obj.badBundle = store[k].badBundle
                          /\ obj.conditions = new.conditions
  BY <1>1, <1>3, UpdateStatusStores
<1>5. QED
  BY <1>3, <1>4 DEF BundleValid, IsCRDConditionTrue, FindCRDCondition

=============================================================================
