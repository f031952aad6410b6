SPECIFICATION Spec
CONSTANTS
  m1 = m1
  m2 = m2
  s1 = s1
  u1 = u1
  c1 = c1
  c2 = c2
  c3 = c3
  Msgs = {m1, m2}
  SlotOf <- OneChat
  Slots = {s1}
  UserOf <- OneUser
  Calls = {c1, c2, c3}
  Proposals = {p1, p2}
  MaxKeys = 1
  TTL = 1
  MaxRetries = 2
  MaxTime = 1
  None = None
SYMMETRY Symmetry
INVARIANTS
  OneWriter
  OneCard
PROPERTIES
  KeepsLife
CHECK_DEADLOCK FALSE
