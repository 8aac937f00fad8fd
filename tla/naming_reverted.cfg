\* Names go back to the accepted ones after a conflict.
SPECIFICATION FairSpec
CONSTANTS
  c1 = c1
  c2 = c2
  c3 = c3
  p1 = p1
  p2 = p2
  p3 = p3
  x = x
  K1 = K1
  K2 = K2
  L = L
  s1 = s1
  NoCRD = NoCRD
  CRDs = {c1}
  GroupOf <- MCGroupOf
  Names = {p1, p2, p3, x, K1, K2, L}
  Finalizers = {}
  Servers = {s1}
  SpecNames <- MCOwnNames
  MaxUserWrites = 3
  MaxFaults = 0
  LosesResponses = FALSE
  Resyncs = FALSE
  BadBundles = {}
  Overlapping = {}
PROPERTY AcceptedIsTrue
CHECK_DEADLOCK FALSE
