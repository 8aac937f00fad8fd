\* Two servers, each with its worker, and status updates whose response is lost.
SPECIFICATION Spec
CONSTANTS
  c1 = c1
  c2 = c2
  c3 = c3
  p1 = p1
  p2 = p2
  p3 = p3
  x = x
  K1 = K1
  K2 = K2
  L = L
  s1 = s1
  s2 = s2
  NoCRD = NoCRD
  CRDs = {c1, c2}
  GroupOf <- MCGroupOf
  Names = {p1, p2, p3, x, K1, K2, L}
  Finalizers = {}
  Servers = {s1, s2}
  SpecNames <- MCFewNames
  MaxUserWrites = 2
  MaxFaults = 1
  LosesResponses = TRUE
  Resyncs = TRUE
  BadBundles = {}
  Overlapping = {}
INVARIANT ServedHasEstablishedCondition
INVARIANT ServedHasNames
PROPERTY AcceptsOnlyRequested
PROPERTY EstablishedStays
CHECK_DEADLOCK FALSE
