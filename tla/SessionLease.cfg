SPECIFICATION FairSpec
CONSTANTS
  Writers = {a, b}
  None = None
  MaxStarts = 2
  MaxSuspends = 1
  MaxRequests = 3
INVARIANTS
  OneWriter
PROPERTIES
  HandoffHonest
  NextGetsIn
CHECK_DEADLOCK FALSE
