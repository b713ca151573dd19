SPECIFICATION StartupFairSpec
CONSTANTS
  NoFile = NoFile
  Blank = Blank
  Workers = {w1, w2}
  Readers = {r1}
INVARIANTS
  LockNotLeaked
PROPERTIES
  LaunchEnds
  NextLaunchRecovers
CHECK_DEADLOCK FALSE
