SPECIFICATION Spec
CONSTANTS
  N = 6
  MayPost <- SilentThenResume
  MaxQuoted = 9
  ColdStart = TRUE
  MaxInFlight = 6
  MayFail = FALSE
  MayCrash = FALSE
INVARIANT QuietLosesNothing
CHECK_DEADLOCK FALSE
