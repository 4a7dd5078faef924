SPECIFICATION Spec
CONSTANTS
  N = 5
  MayPost <- PauseThenSilent
  MaxQuoted = 9
  ColdStart = TRUE
  MaxInFlight = 5
  MayFail = FALSE
  MayCrash = FALSE
INVARIANT PauseNeverBackfilled
CHECK_DEADLOCK FALSE
