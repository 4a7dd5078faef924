SPECIFICATION FairSpec
CONSTANTS
  r1 = r1
  r2 = r2
  c1 = c1
  c2 = c2
  p1 = p1
  p2 = p2
  Run = {r1}
  Call = {c1}
  Press = {k1, k2}
  User = {op}
  Pattern = {p1, p2}
  Operator = op
  Seed = {}
  NoPress = NoPress
  RunOf <- OneRunOf
  Needs <- OneNeeds
  SlackMayFail = TRUE
  MayCrash = TRUE
  MayRepost = FALSE
PROPERTIES
  DecisionWakesTheRequest
  EveryRequestEnds
CHECK_DEADLOCK FALSE
