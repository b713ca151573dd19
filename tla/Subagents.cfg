SPECIFICATION SubagentsFairSpec
CONSTANTS
  ReadConcurrency = 1
  MaxGrants = 2
  MaxJobs = 2
  MaxStrikes = 1
  MaxCrashes = 1
INVARIANTS
  GrantsApart
PROPERTIES
  GrantsEnd
  ResultsReach
CHECK_DEADLOCK FALSE
