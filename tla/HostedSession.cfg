SPECIFICATION FairSpec
CONSTANTS
  MaxTurns = 2
  Questions = {q1}
  MaxSeeds = 1
INVARIANTS
  QuestionsKept
PROPERTIES
  Settled
  QuestionsSettle
CHECK_DEADLOCK FALSE
