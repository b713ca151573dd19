SPECIFICATION FairSpec
CONSTANTS
  None = None
  Drivers = {d1, d2}
  MaxInputs = 2
  MaxTail = 2
  MaxRetries = 1
INVARIANTS
  ShownIsTrue
PROPERTIES
  OutcomeIsHonest
  WaitersWake
  RunsSettle
CHECK_DEADLOCK FALSE
