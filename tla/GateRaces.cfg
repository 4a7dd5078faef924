SPECIFICATION Spec
CONSTANTS
  r1 = r1
  r2 = r2
  c1 = c1
  c2 = c2
  p1 = p1
  p2 = p2
  Run = {r1}
  Call = {c1}
  Press = {k1, k2}
  User = {op, bob}
  Pattern = {p1}
  Operator = op
  Seed = {}
  NoPress = NoPress
  RunOf <- OneRunOf
  Needs <- OneNeedsP1
  SlackMayFail = TRUE
  MayCrash = FALSE
  MayRepost = TRUE
SYMMETRY PressSymmetry
INVARIANTS
  AllowedMeansDecided
  GrantsAreMinted
  WaitingCanBeAnswered
  NothingLeftBehind
PROPERTIES
  ResolvedIsFinal
CHECK_DEADLOCK FALSE
