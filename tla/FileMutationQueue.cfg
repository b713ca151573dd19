SPECIFICATION FairSpec
CONSTANTS
  real = real
  link = link
  MaxCalls = 3
  Paths <- LinkedPaths
  RealPath <- Resolve
INVARIANTS
  OneAtATime
  MapExact
PROPERTIES
  NoLostUpdate
  EveryCallEnds
CHECK_DEADLOCK FALSE
