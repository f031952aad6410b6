\* One session that is still running at every stop, four starts of the process.
CONSTANTS
    Sessions = {s1}
    Platforms = {p1}
    Home = p1
    None = None
    Threshold = 3
    MaxBoots = 4
    MaxHeld = 0
    FailWhileDraining = FALSE
    PlatformOf <- MCPlatformOf
SPECIFICATION Spec
INVARIANTS
  StuckLoopsEnd
CHECK_DEADLOCK FALSE
