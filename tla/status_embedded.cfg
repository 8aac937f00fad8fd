\* The registry of a resource whose status has an embedded resource.
SPECIFICATION MCSpecification
CONSTANTS
  Subjects = {"registry"}
  Clients = {c1, c2}
  Schema <- MCSchema
  StatusEnabled = TRUE
  ScaleEnabled = TRUE
  Specs <- MCSpecs
  Statuses <- MCStatuses
  Int32Bits = 2
  MaxRevision = 4
  MaxObjects = 200
  Versions = {v1, v2}
  Servers = {s1, s2}
  Instances = {o1, o2}
  MaxUpdates = 5
INVARIANT EmbeddedAreValid
CHECK_DEADLOCK FALSE
