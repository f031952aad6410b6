SPECIFICATION Spec
CONSTANTS
  m1 = m1
  m2 = m2
  m3 = m3
  m4 = m4
  a = a
  b = b
  u = u
  s1 = s1
  s2 = s2
  Tokens = {t1, t2}
  Calls = {c1, c2}
  Messages = {m1, m2, m3, m4}
  Users = {a, b, u}
  Admins = {a, b}
  User <- Senders
  Session <- Sessions
  Id <- Ids
  None = None
  TTL = 1
  MaxTime = 2
SYMMETRY Symmetry
INVARIANTS
  ConfirmedByItsAdmin
PROPERTIES
  UsedOnceInSequence
CHECK_DEADLOCK FALSE
