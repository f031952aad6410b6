SPECIFICATION FairSpec
CONSTANTS
  p1 = p1
  p2 = p2
  d1 = d1
  d2 = d2
  k2 = k2
  Tasks = {t1}
  ProductVersions = {p1, p2}
  TechVersions = {d1, d2}
  TechKey <- SharedKeys
  Claims = {c1, c2, c3}
  Staff = {owner, other}
  Owner = owner
  None = None
INVARIANTS
  AtMostOneMessage
  NeverConflicts
  WaitingIsAnswerable
PROPERTIES
  KeepsPromise
  ClaimsSettle
CHECK_DEADLOCK FALSE
