\* One server, with failures at every step and finalizers of others.
SPECIFICATION FairSpec
CONSTANTS
  c1 = c1
  p1 = p1
  K1 = K1
  s1 = s1
  f1 = f1
  n1 = n1
  n2 = n2
  NoCRD = NoCRD
  CRDs = {c1}
  GroupOf <- MCGroupOf
  Names = {p1, K1}
  Finalizers = {f1}
  Servers = {s1}
  SpecNames <- MCSpecNames
  MaxUserWrites = 3
  BadBundles = {}
  Overlapping = {}
  Namespaces = {n1, n2}
  MaxCreates = 2
  MaxFaults = 1
  Resyncs = TRUE
INVARIANT CleanupIsTerminating
INVARIANT CleanupComplete
PROPERTY FollowsLifecycle
PROPERTY DeletedIsRemoved
PROPERTY LiveInstancesKept
CHECK_DEADLOCK FALSE
