\* One server establishes a CRD: lost watches, restarts, failed requests, lost responses.
SPECIFICATION FairSpec
CONSTANTS
  c1 = c1
  p1 = p1
  K1 = K1
  K2 = K2
  s1 = s1
  f1 = f1
  NoCRD = NoCRD
  CRDs = {c1}
  GroupOf <- MCGroupOf
  Names = {p1, K1, K2}
  Finalizers = {}
  Servers = {s1}
  SpecNames <- MCSpecNames
  MaxUserWrites = 3
  MaxFaults = 1
  Resyncs = TRUE
  BadBundles = {c1}
  Overlapping = {}
INVARIANT EstablishedHasBundle
PROPERTY FollowsLifecycle
PROPERTY AcceptedIsEstablished
PROPERTY BadBundleReported
CHECK_DEADLOCK FALSE
