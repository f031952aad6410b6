SPECIFICATION Spec
CONSTANTS
  st1 = st1
  st2 = st2
  NP = 2
  NF = 2
  Steps = {st1, st2}
  StepsOf <- TwoFiles
  Missing = Missing
  Torn = Torn
  MaxRuns = 2
INVARIANTS
  CleanRollback
  InstalledCompletely
  PluginSurvives
CHECK_DEADLOCK FALSE
