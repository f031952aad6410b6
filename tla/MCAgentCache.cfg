\* Two keys, a cache of one, two turns, three sessions, three events.
CONSTANTS
    home = home
    other = other
    Keys <- MCKeys
    Home = home
    Tried <- MCTried
    Cap = 1
    MaxTurns = 2
    MaxSids = 3
    MaxEvents = 3
SPECIFICATION FairSpec
INVARIANTS
  ConversationsApart
  CachedIsLive
  RunningNotReleased
PROPERTIES
  ForeignWritesNoticed
  HandoffSettles
CHECK_DEADLOCK FALSE
