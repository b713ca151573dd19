SPECIFICATION FileSpec
CONSTANTS
  MaxEntries = 3
  MaxFailures = 1
  MaxCrashes = 1
INVARIANTS
  FileSound
  AckedKept
CHECK_DEADLOCK FALSE
