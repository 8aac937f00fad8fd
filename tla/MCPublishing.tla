---------------------------- MODULE MCPublishing ----------------------------
(***************************************************************************)
(* Instances of Publishing for TLC.                                        *)
(***************************************************************************)
EXTENDS Publishing

CONSTANTS c1, c2, good, s1, praise, complaint, complaint2

Complaint(s) == IF s = s1 THEN complaint ELSE complaint2

\* A structural schema needs no condition; s2, of another version, words the
\* violations of other schemas differently.
MCSchemas ==
  [s \in Servers |-> [x \in Subjects |-> IF x = good THEN NoCondition ELSE Complaint(s)]]

\* The annotation of a protected group is a URL, or is not.
MCAnnotations ==
  [s \in Servers |-> [x \in Subjects |-> IF x = good THEN praise ELSE complaint]]

MCSetting(calculate, byGeneration, disturbed) ==
  [ calculate |-> calculate, byGeneration |-> byGeneration, deletes |-> disturbed,
    losesResponses |-> disturbed, resyncs |-> disturbed ]

MCSettings ==
  << MCSetting(MCSchemas, TRUE, TRUE), MCSetting(MCAnnotations, FALSE, FALSE) >>

MCGroupOf == [k \in CRDs |-> "group"]

MCKindOf == [k \in CRDs |-> IF k = c1 THEN "Kind1" ELSE "Kind2"]

MCSpec(versions, served, storage, status, listKind) ==
  [versions |-> versions, served |-> served, storage |-> storage,
   status |-> status, listKind |-> listKind]

\* Two versions, or one of them served otherwise: a version is left out by one
\* change of a spec and is back with another.  The list kind of one CRD may be
\* the kind of the other, or its list kind.
MCSpecs ==
  { MCSpec({1, 2}, {1, 2}, 1, {1}, "List"), MCSpec({2}, {2}, 2, {}, "Kind1") }

=============================================================================
