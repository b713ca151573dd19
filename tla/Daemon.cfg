SPECIFICATION FairSpec
CONSTANTS
  None = None
  Sessions = {s1}
  Clients = {c1, c2}
  Chats = {c1}
  Drops = {c1}
  Kinds = {"prompt", "steer", "prepare"}
  Faults = {"refuse", "crash", "strand"}
  MaxCommands = 2
INVARIANTS
  EnginesKnown
PROPERTIES
  DrainEnds
  UnwatchedCloses
  ReleaseEnds
CHECK_DEADLOCK FALSE
