SPECIFICATION Spec
CONSTANTS
  group = group
  Chats = {group}
  Messages = {m1}
  ChatOf <- OneChat
  Sends = {s1, s2}
  Edits = {e1}
  Plain = {s1, s2}
  Receipts = {e1}
  Off = Off
  None = None
  NoRow = NoRow
  Blank = Blank
  WebhookMax = 1
  Slop = 1
  Skew = 1
  MaxTime = 2
SYMMETRY Symmetry
INVARIANTS
  OriginalsCurrent
  OpenCardsTracked
  OutcomesHonest
  CandidateIsIt
CHECK_DEADLOCK FALSE
