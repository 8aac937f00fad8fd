\* A version of a CRD stops being served.
SPECIFICATION FairSpec
CONSTANTS
  c1 = c1
  c2 = c2
  NoCRD = NoCRD
  CRDs = {c1, c2}
  GroupOf <- MCGroupOf
  KindOf <- MCKindOf
  Versions = {1, 2}
  Specs <- MCSpecs
  MaxChanges = 3
  Reported = {c1}
  Servers = {s1, s2}
  Settings <- MCSettings
  Subjects = {good, bad}
  Conditions = {praise, complaint, complaint2}
  NoCondition = NoCondition
  Unseen = Unseen
  MaxUserWrites = 3
  MaxFaults = 1
  good = good
  bad = bad
  s1 = s1
  s2 = s2
  praise = praise
  complaint = complaint
  complaint2 = complaint2
PROPERTY OpenAPIV3Forgets
CHECK_DEADLOCK FALSE
