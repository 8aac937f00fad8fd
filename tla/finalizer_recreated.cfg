\* Two servers finalize a CRD that is created again: whose instances are deleted?
SPECIFICATION Spec
CONSTANTS
  c1 = c1
  p1 = p1
  K1 = K1
  s1 = s1
  s2 = s2
  n1 = n1
  NoCRD = NoCRD
  CRDs = {c1}
  GroupOf <- MCGroupOf
  Names = {p1, K1}
  Finalizers = {}
  Servers = {s1, s2}
  SpecNames <- MCSpecNames
  MaxUserWrites = 3
  BadBundles = {}
  Overlapping = {}
  Namespaces = {n1}
  MaxCreates = 1
  MaxFaults = 0
  Resyncs = FALSE
PROPERTY LiveInstancesKept
CHECK_DEADLOCK FALSE
