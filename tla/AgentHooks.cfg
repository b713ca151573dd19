SPECIFICATION FairSpec
CONSTANTS
  MaxWatches = 2
  MaxHooks = 4
  MaxRuns = 2
  MaxDrivers = 3
INVARIANTS
  FiredOnce
PROPERTIES
  HeldIsSent
  StoppedStaysStopped
CHECK_DEADLOCK FALSE
