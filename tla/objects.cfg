\* Of every subject; an int32 has two bits.
SPECIFICATION MCSpecification
CONSTANTS
  Subjects = {"schema", "conversion", "CRD", "registry", "migration", "message", "specification"}
  Clients = {c1, c2}
  Schema <- MCSchema
  StatusEnabled = TRUE
  ScaleEnabled = TRUE
  Specs <- MCSpecs
  Statuses <- MCStatuses
  Int32Bits = 2
  MaxRevision = 4
  MaxObjects = 200
  Versions = {v1, v2}
  Servers = {s1, s2}
  Instances = {o1, o2}
  MaxUpdates = 5
INVARIANT DecodeStable
INVARIANT PublishedAcceptsValid
INVARIANT RatchetingExact
INVARIANT ConversionFaithful
INVARIANT StoredIsAccepted
INVARIANT UpdatesDoNotLoosen
INVARIANT ObservedIsCurrent
INVARIANT StoredIsValid
INVARIANT StoredVersionsCover
INVARIANT WireFaithful
INVARIANT ConversionLossless
CHECK_DEADLOCK FALSE
