SPECIFICATION FairSpec
CONSTANTS
  N = 5
  MayPost <- ModesInTheMiddle
  MaxQuoted = 2
  ColdStart = TRUE
  MaxInFlight = 3
  MayFail = TRUE
  MayCrash = TRUE
INVARIANTS
  TypeOK
  NoReplay
  OnlyOlderTalkIsQuoted
  ResumeClosesTheWindow
  LockServesTurns
PROPERTY EveryoneGetsTheLock
CHECK_DEADLOCK FALSE
