SPECIFICATION Spec
CONSTANTS
  r1 = r1
  r2 = r2
  t1 = t1
  t2 = t2
  Run = {r1, r2}
  Thread = {t1, t2}
  Meetings <- TheMeetings
  UsesMcp = {r1, r2}
  Unaddressed = {r2}
  Sizes <- TheSizes
  MaxProse <- TheProse
  Unlucky = {r2}
  MayCrash = TRUE
INVARIANTS
  TypeOK
  PortsAreWhole
  TunnelIsItsOwn
  TokenFollowsRun
  SessionIsKnown
  AnswerIsShown
  SilenceIsKept
PROPERTY
  GivenUpMeansDown
CHECK_DEADLOCK FALSE
