SPECIFICATION Spec
CONSTANTS
  N = 3
  MayPost <- PauseWhileQueued
  MaxQuoted = 9
  ColdStart = TRUE
  MaxInFlight = 3
  MayFail = FALSE
  MayCrash = FALSE
PROPERTY PausedStartsNothing
CHECK_DEADLOCK FALSE
