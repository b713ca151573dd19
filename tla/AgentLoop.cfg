SPECIFICATION FairSpec
CONSTANTS
  MaxMessages = 2
  MaxRuns = 2
  MaxToolTurns = 1
  MaxCalls = 2
  SteeringMode = "one-at-a-time"
  FollowUpMode = "all"
  ToolExecution = "parallel"
INVARIANTS
  TranscriptSound
  BatchesSound
  MessagesKept
PROPERTIES
  NoLaunchAfterAbort
  RunEnds
  KeepsPromise
CHECK_DEADLOCK FALSE
