SPECIFICATION Spec
CONSTANTS
  c1 = c1
  c2 = c2
  Conn = {c1, c2}
  Docs <- TheDocs
  MaxWrites = 2
  MaxAuth = 2
  None = None
  Servers = {"keeps", "rotates", "detects"}
  MaxIssue = 1
  MayTear = TRUE
SYMMETRY ConnSymmetry
INVARIANTS
  TypeOK
  FileIsObeyed
  GrantIsKept
  RenewalTakes
CHECK_DEADLOCK FALSE
