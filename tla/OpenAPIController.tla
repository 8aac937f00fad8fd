------------------------- MODULE OpenAPIController -------------------------
(***************************************************************************)
(* The controller of pkg/controller/openapi/controller.go: it publishes    *)
(* one OpenAPI v2 document for all CRDs.  The worker keeps, for every      *)
(* established CRD, an object from which its part is built when a request  *)
(* needs it; the part is kept until the hash of the object changes.  The   *)
(* lock of the controller makes each sync one step, and requests read      *)
(* without it.                                                             *)
(***************************************************************************)
EXTENDS PublishedCRDs

VARIABLES
  specsByName,  \* [CRDs -> CRD \cup {NoCRD}], the object kept for each CRD
  built,        \* [CRDs -> CRD \cup {NoCRD}], that of which the part was built
  merged        \* the CRDs whose parts make up the document

openAPIVars == <<specsByName, built, merged>>

OpenAPITypeOK ==
  /\ specsByName \in [CRDs -> CRD \cup {NoCRD}]
  /\ built \in [CRDs -> CRD \cup {NoCRD}]
  /\ merged \subseteq CRDs

OpenAPIInit ==
  /\ specsByName = [k \in CRDs |-> NoCRD]
  /\ built = [k \in CRDs |-> NoCRD]
  /\ merged = {}

OpenAPIHandle ==
  /\ Notified({Head(notifications).name})
  /\ UNCHANGED openAPIVars

-----------------------------------------------------------------------------
(* The worker.                                                             *)

\* updateSpecLocked, after a change of the keys of specsByName.
UpdateSpec == merged' = {k \in CRDs : specsByName'[k] # NoCRD}

\* The document is made from the cache before the worker starts.
OpenAPIStart ==
  /\ ~ started
  /\ started' = TRUE
  /\ specsByName' = [k \in CRDs |-> IF Established(cached[k]) THEN cached[k] ELSE NoCRD]
  /\ UpdateSpec
  /\ UNCHANGED <<informerVars, queue, built>>

\* The CRD is gone, or not established.
RemoveSpec(k) ==
  /\ specsByName' = [specsByName EXCEPT ![k] = NoCRD]
  /\ built' = [built EXCEPT ![k] = NoCRD]
  /\ UpdateSpec

CreateSpec(k) ==
  /\ specsByName' = [specsByName EXCEPT ![k] = cached[k]]
  /\ UpdateSpec
  /\ UNCHANGED built

\* The object is replaced; who reads the part notices by its hash.
ReplaceSpec(k) ==
  /\ specsByName' = [specsByName EXCEPT ![k] = cached[k]]
  /\ UNCHANGED <<built, merged>>

SyncOpenAPI(k) ==
  /\ Take(k)
  /\ \/ ~ Established(cached[k]) /\ specsByName[k] = NoCRD /\ UNCHANGED openAPIVars
     \/ ~ Established(cached[k]) /\ specsByName[k] # NoCRD /\ RemoveSpec(k)
     \/ Established(cached[k]) /\ specsByName[k] = NoCRD /\ CreateSpec(k)
     \/ Established(cached[k]) /\ specsByName[k] # NoCRD /\ ReplaceSpec(k)

-----------------------------------------------------------------------------
(* Requests.                                                               *)

\* As if generations were never used twice.
HashOfGeneration(crd) == <<crd.generation>>

\* generateCRDHash
Hash(crd) == <<crd.uid, crd.generation>>

\* What the part of a CRD is built of when a request needs it.
BuiltOf(k) ==
  IF built[k] # NoCRD /\ Hash(built[k]) = Hash(specsByName[k])
  THEN built[k] ELSE specsByName[k]

\* A request for the document builds the parts that changed.
GetOpenAPI ==
  /\ started
  /\ \E k \in merged : built[k] # BuiltOf(k)
  /\ built' = [k \in CRDs |-> IF k \in merged THEN BuiltOf(k) ELSE built[k]]
  /\ UNCHANGED <<sharedVars, specsByName, merged>>

\* The part of a CRD has all versions that it serves.
Parts(k, crd) == {[name |-> k, version |-> v, spec |-> crd.spec] : v \in crd.spec.served}

\* What a request gets.
Document == UNION {Parts(k, BuiltOf(k)) : k \in merged}

OpenAPINext ==
  \/ OpenAPIHandle \/ OpenAPIStart \/ GetOpenAPI
  \/ \E k \in CRDs : SyncOpenAPI(k)

-----------------------------------------------------------------------------
(* Properties.                                                             *)

\* When CRDs stop changing, a request gets exactly the versions that
\* established CRDs serve, as the specs are, whatever requests built and kept
\* before: no hash is that of another object.
OpenAPISettled ==
  Document = UNION {Parts(k, cached[k]) : k \in {j \in CRDs : Established(cached[j])}}

\* The parts of a CRD in the document are what the cache prescribes, or the CRD
\* will be synced: no change of a CRD is missed, and what a request built of an
\* object that is gone is never taken for a part of another one.
OpenAPIConsistent ==
  \A k \in CRDs :
    \/ ToBeTaken(k)
    \/ {part \in Document : part.name = k}
         = IF Established(cached[k]) THEN Parts(k, cached[k]) ELSE {}

-----------------------------------------------------------------------------
(* What OpenAPIConsistent rests on.                                        *)

\* What is kept of a CRD is what is cached of it, and is in the document.
KeptInv ==
  /\ ~ started => \A k \in CRDs : specsByName[k] = NoCRD
  /\ merged = {k \in CRDs : specsByName[k] # NoCRD}
  /\ \A k \in CRDs :
       \/ ToBeTaken(k)
       \/ specsByName[k] = IF Established(cached[k]) THEN cached[k] ELSE NoCRD

\* The versions of a CRD that are somewhere.
Known(k) == {cached[k], specsByName[k], built[k]} \ {NoCRD}

\* The cache has the last generation of each that is not gone, and the hash is
\* of one spec only.
HashInv ==
  \A k \in CRDs : \A crd \in Known(k) :
    /\ crd.uid <= changes
    /\ cached[k] # NoCRD /\ crd.uid = cached[k].uid => crd.generation <= cached[k].generation
    /\ \A other \in Known(k) : Hash(crd) = Hash(other) => crd.spec = other.spec

OpenAPIInv == KeptInv /\ HashInv

=============================================================================
