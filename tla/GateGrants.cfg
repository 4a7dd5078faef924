SPECIFICATION Spec
CONSTANTS
  r1 = r1
  r2 = r2
  c1 = c1
  c2 = c2
  p1 = p1
  p2 = p2
  Run = {r1, r2}
  Call = {c1, c2}
  Press = {k1}
  User = {op, ann, bob}
  Pattern = {p1}
  Operator = op
  Seed = {ann}
  NoPress = NoPress
  RunOf <- TwoRunOf
  Needs <- TwoNeeds
  SlackMayFail = FALSE
  MayCrash = TRUE
  MayRepost = FALSE
INVARIANTS
  TypeOK
  RefusedOnlyIfUnseated
PROPERTIES
  ImplementsToolGate
CHECK_DEADLOCK FALSE
