SPECIFICATION FairProcessSpec
CONSTANTS
  MaxProcs = 3
  MaxCalls = 2
INVARIANTS
  OneGateway
  OkExitIsMeant
PROPERTIES
  StopEnds
CHECK_DEADLOCK FALSE
