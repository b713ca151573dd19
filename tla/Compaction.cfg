SPECIFICATION CompactionSpec
CONSTANTS
  Recent = 2
  Budgets = {1, 3}
  MaxEntries = 6
  MaxMarks = 1
  MaxMoves = 1
INVARIANTS
  ContextSound
  Accounted
CHECK_DEADLOCK FALSE
