SPECIFICATION FairSpec
CONSTANTS
  MaxItems = 2
  TurnsPerItem = 1
  NoProgressTurns = 1
  FixedTurns = 1
  Blockers = {"b", "long"}
  Oversized = {"long"}
  PlanAttempts = 2
  AuditRuns = 2
  Strikes = 1
  MaxRejections = 2
  Overlaps = FALSE
INVARIANTS
  Recoverable
PROPERTIES
  EndsForGood
  GoalMovesOn
CHECK_DEADLOCK FALSE
