\* Four messages, one stop, a queue of two, recursion to depth one.
CONSTANTS
    MaxMsgs = 4
    MaxStops = 1
    Cap = 2
    MaxDepth = 1
    Goals = TRUE
SPECIFICATION FairSpec
INVARIANTS
  Accounted
  OrderKept
  WorkerHoldsSlot
PROPERTIES
  QueueDrains
  SessionUnlocks
CHECK_DEADLOCK FALSE
