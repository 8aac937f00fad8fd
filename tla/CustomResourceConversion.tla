---------------------- MODULE CustomResourceConversion ----------------------
(***************************************************************************)
(* The conversion of custom resources between the versions of a CRD, by a  *)
(* webhook or by nothing but setting the version (apiserver/conversion).   *)
(* An object is a JSON object; a list is [is |-> "list", version, items].  *)
(* Of the webhook there is its answer: a response of [gvk, body], with an  *)
(* optional body of [uid, status, objects].  What may fail gives None.     *)
(***************************************************************************)
EXTENDS JSONValues

\* metadata by which an object is known: namespace and uid are like the name.
Identity == {"name"}

\* metadata that a webhook may change: annotations are like the labels.
Changeable == {"labels"}

FieldOf(u, k) == IF k \in Fields(u) THEN u.fields[k] ELSE Null

ItemVersion(u) == FieldOf(u, "apiVersion")

WithVersion(u, to) == Set(u, "apiVersion", to)

Metadata(u) ==
  IF FieldOf(u, "metadata").is = "object" THEN u.fields["metadata"] ELSE Object(NoFields)

IsEmptyObject(in) == in.is = "object" /\ Fields(in) = {"kind", "apiVersion"}

\* A list, and its objects, or an object.
ConvertNothing(in, to) ==
  IF in.is = "list"
  THEN [in EXCEPT !.version = to, !.items = Each(@, LAMBDA x : WithVersion(x, to))]
  ELSE WithVersion(in, to)

-----------------------------------------------------------------------------
(* The request.                                                            *)

ItemsOf(in) == IF in.is = "list" THEN in.items ELSE <<in>>

Unconverted(in, to) == {i \in DOMAIN ItemsOf(in) : ItemVersion(ItemsOf(in)[i]) # to}

\* The places of what is not in the version asked for, in their order.
Places(in, to) ==
  CHOOSE p \in [1 .. Cardinality(Unconverted(in, to)) -> Unconverted(in, to)] :
    \A m, n \in DOMAIN p : m < n => p[m] < p[n]

ObjectsToConvert(in, to) == Each(Places(in, to), LAMBDA i : ItemsOf(in)[i])

\* The first version of ConversionReview that is supported.
ReviewVersion(reviewVersions) ==
  LET supported == SelectSeq(reviewVersions, LAMBDA v : v \in {"v1", "v1beta1"})
  IN IF supported = <<>> THEN None ELSE Some(supported[1])

-----------------------------------------------------------------------------
(* The response.                                                           *)

\* Of a v1beta1 response neither the kind nor the UID is checked.
ConvertedObjects(reviewVersion, uid, response) ==
  IF \/ response.body = None
     \/ reviewVersion = "v1" /\ (response.gvk # "v1" \/ response.body[1].uid # uid)
     \/ response.body[1].status # "Success"
  THEN None ELSE Some(response.body[1].objects)

ValidateConvertedObject(in, out) ==
  /\ FieldOf(in, "kind") = FieldOf(out, "kind")
  /\ \A k \in Identity : FieldOf(Metadata(in), k) = FieldOf(Metadata(out), k)

InvalidLabel == Text("not a label")

\* Labels are checked where they changed.
ValidChange(old, new) ==
  /\ new.is = "object" /\ (old = Null \/ old.is = "object")
  /\ \A v \in Elements(new.fields) : v.is = "string"
  /\ old # new => InvalidLabel \notin Elements(new.fields)

\* The metadata of the original, with the labels that the webhook returned.
RestoreObjectMeta(original, converted) ==
  LET old == Metadata(original)
      new == Metadata(converted)
      returned == {k \in Changeable : FieldOf(new, k) # Null}
  IN IF \/ FieldOf(converted, "metadata").is # "object"
        \/ "metadata" \in Fields(original) /\ original.fields["metadata"].is # "object"
        \/ \E k \in returned : ~ ValidChange(FieldOf(old, k), FieldOf(new, k))
     THEN None
     ELSE Some(Set(converted, "metadata",
            Object([k \in (Fields(old) \ Changeable) \cup returned |->
                      IF k \in returned THEN new.fields[k] ELSE old.fields[k]])))

\* An object takes the place of the one that was sent.
Accept(original, converted, to) ==
  IF ItemVersion(converted) = to /\ ValidateConvertedObject(original, converted)
  THEN RestoreObjectMeta(original, converted) ELSE None

\* As if the index of the answers did not advance.
FirstAnswer(items, to, i) == 1

\* Only the items that were sent have an answer.
AnswerTo(items, to, i) == Cardinality({j \in 1 .. i : ItemVersion(items[j]) # to})

FillIn(list, to, objects) ==
  LET Filled(i) ==
        IF ItemVersion(list.items[i]) = to THEN Some(list.items[i])
        ELSE Accept(list.items[i], objects[AnswerTo(list.items, to, i)], to)
      items == [i \in DOMAIN list.items |-> Filled(i)]
  IN IF None \in Elements(items) THEN None
     ELSE Some([list EXCEPT !.version = to, !.items = Each(items, LAMBDA x : x[1])])

WebhookConvert(in, to, reviewVersions, uid, response) ==
  LET sent == ObjectsToConvert(in, to)
      review == ReviewVersion(reviewVersions)
      objects == ConvertedObjects(review[1], uid, response)
  IN CASE IsEmptyObject(in) -> Some(ConvertNothing(in, to))
       [] ~ IsEmptyObject(in) /\ review = None -> None
       [] ~ IsEmptyObject(in) /\ review # None /\ Unconverted(in, to) = {} ->
            Some(IF in.is = "list" THEN [in EXCEPT !.version = to] ELSE in)
       [] OTHER ->
            IF objects = None \/ Len(objects[1]) # Len(sent) THEN None
            ELSE IF in.is = "list" THEN FillIn(in, to, objects[1])
            ELSE Accept(in, objects[1][1], to)

VersionsIn(in) ==
  {ItemVersion(x) : x \in Elements(ItemsOf(in))} \cup (IF in.is = "list" THEN {in.version} ELSE {})

\* crd has versions, a strategy and reviewVersions.
ConvertToVersion(in, to, crd, uid, response) ==
  IF ~ {to} \cup VersionsIn(in) \subseteq crd.versions
  THEN None
  ELSE IF crd.strategy = "None" THEN Some(ConvertNothing(in, to))
  ELSE WebhookConvert(in, to, crd.reviewVersions, uid, response)

-----------------------------------------------------------------------------
(* What must be true of a conversion.                                      *)

IsListOfObjects(in) ==
  /\ in = [is |-> "list", version |-> in.version, items |-> in.items]
  /\ in.items \in Seq(Elements(in.items))
  /\ \A i \in DOMAIN in.items : IsObject(in.items[i])

\* What there is to convert.
IsInput(in) == (in.is = "object" /\ IsObject(in)) \/ (in.is = "list" /\ IsListOfObjects(in))

\* y is x in the version asked for: of its metadata, labels may be others.
SameItem(x, y, to) ==
  /\ ItemVersion(y) = to /\ FieldOf(x, "kind") = FieldOf(y, "kind")
  /\ ItemVersion(x) = to => y = x
  /\ \A k \in (Fields(Metadata(x)) \cup Fields(Metadata(y))) \ Changeable :
       FieldOf(Metadata(x), k) = FieldOf(Metadata(y), k)

\* out is in the version asked for, item by item the same objects.
SameObjects(in, out, to) ==
  /\ in.is = out.is /\ DOMAIN ItemsOf(in) = DOMAIN ItemsOf(out)
  /\ in.is = "list" => out.version = to
  /\ \A i \in DOMAIN ItemsOf(in) : SameItem(ItemsOf(in)[i], ItemsOf(out)[i], to)

Asked(in, to, crd) == crd.strategy = "Webhook" /\ Unconverted(in, to) # {} /\ ~ IsEmptyObject(in)

\* The answer has what the webhook makes of each object that was sent.
Honest(in, to, response, Converted(_)) ==
  response.body # None /\ response.body[1].objects = Each(ObjectsToConvert(in, to), Converted)

\* The same objects in the version asked for, in their places, with no metadata but the
\* labels changed, whatever the webhook answers.
SameConverted(in, to, crd, uid, response) ==
  \A x \in Elements(ConvertToVersion(in, to, crd, uid, response)) : SameObjects(in, x, to)

\* Only a success is accepted, and in v1 no answer to a request of another UID.
AnswerChecked(in, to, crd, uid, response) ==
  Asked(in, to, crd) /\ ConvertToVersion(in, to, crd, uid, response) # None =>
    /\ response.body # None /\ response.body[1].status = "Success"
    /\ ReviewVersion(crd.reviewVersions) = Some("v1") => response.body[1].uid = uid

\* Each object gets what the webhook made of it, and not of another.
OwnContents(in, to, crd, uid, response, Converted(_)) ==
  Asked(in, to, crd) /\ Honest(in, to, response, Converted) =>
    \A x \in Elements(ConvertToVersion(in, to, crd, uid, response)), i \in Unconverted(in, to) :
      FieldOf(ItemsOf(x)[i], "spec") = FieldOf(Converted(ItemsOf(in)[i]), "spec")

\* A webhook that answers as it should is not refused.
HonestAccepted(in, to, crd, uid, response, Converted(_)) ==
  /\ Asked(in, to, crd) /\ Honest(in, to, response, Converted)
  /\ response.gvk = "v1" /\ response.body[1].status = "Success" /\ response.body[1].uid = uid
  /\ ReviewVersion(crd.reviewVersions) # None
  => ConvertToVersion(in, to, crd, uid, response) # None

\* What a list or an object is converted to (webhook_converter.go Convert).
Faithful(in, to, crd, uid, response, Converted(_)) ==
  /\ SameConverted(in, to, crd, uid, response)
  /\ AnswerChecked(in, to, crd, uid, response)
  /\ OwnContents(in, to, crd, uid, response, Converted)
  /\ HonestAccepted(in, to, crd, uid, response, Converted)

=============================================================================
