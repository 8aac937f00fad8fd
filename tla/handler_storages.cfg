\* Two requests at a time while CRDs are updated, deleted and created again.
SPECIFICATION FairSpec
CONSTANTS
  NoCRD = NoCRD
  Idle = Idle
  CRDs = {c1, c2}
  Versions = {v0, v1, v2}
  Unnamed = {v0}
  Requests = {r1, r2}
  MaxChanges = 3
  MaxStorages = 2
INVARIANT StaleIsHandled
INVARIANT NoneForgotten
INVARIANT ServedByLiveStorage
PROPERTY DrainedIsDestroyed
CHECK_DEADLOCK FALSE
