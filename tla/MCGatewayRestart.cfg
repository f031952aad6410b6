\* One session, one platform, three starts of the process.
CONSTANTS
    Sessions = {s1}
    Platforms = {p1}
    Home = p1
    None = None
    Threshold = 3
    MaxBoots = 3
    MaxHeld = 1
    FailWhileDraining = FALSE
    PlatformOf <- MCPlatformOf
SPECIFICATION FairSpec
INVARIANTS
  CutIsResumable
  PlatformsAccounted
PROPERTIES
  GateOpens
  PlatformsRecover
CHECK_DEADLOCK FALSE
