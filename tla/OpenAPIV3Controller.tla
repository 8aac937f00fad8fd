------------------------ MODULE OpenAPIV3Controller ------------------------
(***************************************************************************)
(* The controller of pkg/controller/openapiv3/controller.go: it publishes  *)
(* an OpenAPI v3 document for every group version, merged from a part for  *)
(* each CRD.  Parts that define the same kind cannot be merged: the        *)
(* document then stays as it is, and no error is reported.                 *)
(***************************************************************************)
EXTENDS PublishedCRDs

VARIABLES
  specsByGVandName,  \* [GroupVersions -> SUBSET Part], one part for a CRD
  published          \* [GroupVersions -> SUBSET Part], {} for no document

openAPIV3Vars == <<specsByGVandName, published>>

\* The part of a CRD in the document of one of its versions.
Part == [name : CRDs, listKind : {spec.listKind : spec \in Specs}, status : BOOLEAN]

OpenAPIV3TypeOK ==
  \A gv \in GroupVersions :
    /\ specsByGVandName[gv] \subseteq Part
    /\ \A p, q \in specsByGVandName[gv] : p.name = q.name => p = q
    /\ published[gv] \subseteq Part

OpenAPIV3Init ==
  /\ specsByGVandName = [gv \in GroupVersions |-> {}]
  /\ published = [gv \in GroupVersions |-> {}]

OpenAPIV3Handle ==
  /\ Notified({Head(notifications).name})
  /\ UNCHANGED openAPIV3Vars

-----------------------------------------------------------------------------
(* Building and merging the parts of a group version.                      *)

PartFor(k, crd, v) ==
  [name |-> k, listKind |-> crd.spec.listKind, status |-> v \in crd.spec.status]

\* The kinds that a part defines: those of the spec, not the accepted ones.
Definitions(part) == {KindOf[part.name], part.listKind}

Conflict(parts) ==
  \E p, q \in parts : p.name # q.name /\ Definitions(p) \cap Definitions(q) # {}

\* What is published when the parts of a group version change.
Merged(gv, parts) == IF Conflict(parts) THEN published[gv] ELSE parts

-----------------------------------------------------------------------------
(* The worker.                                                             *)

Others(gv, k) == {p \in specsByGVandName[gv] : p.name # k}

\* As if a part that is kept already were left alone.
PartsOnce(gv, k, crd) ==
  CASE ~ Established(crd) -> Others(gv, k)
    [] Serves(crd, gv[2]) /\ gv[1] = GroupOf[k] /\ Others(gv, k) = specsByGVandName[gv]
         -> Others(gv, k) \cup {PartFor(k, crd, gv[2])}
    [] OTHER -> specsByGVandName[gv]

\* What a sync of CRD k, found as crd, makes of the parts: those of versions
\* that it serves are replaced; all are removed if it is gone or not
\* established.
PartsAfter(gv, k, crd) ==
  CASE ~ Established(crd) -> Others(gv, k)
    [] Serves(crd, gv[2]) /\ gv[1] = GroupOf[k]
         -> Others(gv, k) \cup {PartFor(k, crd, gv[2])}
    [] OTHER -> specsByGVandName[gv]

\* Group versions whose parts do not change are not merged again.
SyncOpenAPIV3(k) ==
  LET parts == [gv \in GroupVersions |-> PartsAfter(gv, k, cached[k])]
  IN  /\ Take(k)
      /\ specsByGVandName' = parts
      /\ published' = [gv \in GroupVersions |->
                         IF parts[gv] = specsByGVandName[gv] THEN published[gv]
                         ELSE Merged(gv, parts[gv])]

\* First the parts of all established CRDs are built; the worker does the same.
OpenAPIV3Start ==
  /\ ~ started
  /\ started' = TRUE
  /\ queue' = queue \cup {k \in CRDs : Established(cached[k])}
  /\ UNCHANGED <<informerVars, openAPIV3Vars>>

OpenAPIV3Next ==
  \/ OpenAPIV3Handle \/ OpenAPIV3Start
  \/ \E k \in CRDs : SyncOpenAPIV3(k)

-----------------------------------------------------------------------------
(* Properties.                                                             *)

\* When CRDs stop changing, every version that an established CRD serves is
\* published as its spec says, and nothing of a CRD that is gone, unless kinds
\* conflict; also after a conflict that kept the document from changing.
OpenAPIV3Settled ==
  \A gv \in GroupVersions :
    Conflict(specsByGVandName[gv]) \/
      /\ \A k \in CRDs :
           GroupOf[k] = gv[1] /\ Serves(cached[k], gv[2])
             => PartFor(k, cached[k], gv[2]) \in published[gv]
      /\ \A p \in published[gv] : Established(cached[p.name])

\* When CRDs stop changing, no version is published that is not served.
OpenAPIV3ServedOnly ==
  \A gv \in GroupVersions :
    \A p \in published[gv] : Serves(cached[p.name], gv[2])

\* Unless kinds conflict, what an established CRD serves is published as its spec
\* says, and nothing of a CRD that is gone, or the CRD will be synced.
OpenAPIV3Consistent ==
  \A gv \in GroupVersions, k \in CRDs :
    \/ ToBeTaken(k)
    \/ Conflict(specsByGVandName[gv])
    \/ /\ GroupOf[k] = gv[1] /\ Serves(cached[k], gv[2])
            => PartFor(k, cached[k], gv[2]) \in published[gv]
       /\ (\E p \in published[gv] : p.name = k) => Established(cached[k])

-----------------------------------------------------------------------------
(* What OpenAPIV3Consistent rests on.                                      *)

\* The parts that are kept are published, but for a conflict; which of them are
\* kept depends on each CRD alone.
OpenAPIV3Inv ==
  \A gv \in GroupVersions :
    /\ ~ started => specsByGVandName[gv] = {}
    /\ Conflict(specsByGVandName[gv]) \/ published[gv] = specsByGVandName[gv]
    /\ \A k \in CRDs :
         \/ ToBeTaken(k)
         \/ /\ GroupOf[k] = gv[1] /\ Serves(cached[k], gv[2])
                 => PartFor(k, cached[k], gv[2]) \in specsByGVandName[gv]
            /\ (\E p \in specsByGVandName[gv] : p.name = k) => Established(cached[k])

=============================================================================
