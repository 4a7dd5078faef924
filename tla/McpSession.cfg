SPECIFICATION FairSpec
CONSTANTS
  c1 = c1
  owner = owner
  read1 = read1
  write1 = write1
  admin1 = admin1
  root1 = root1
  Conn = {c1}
  Caller <- TheCaller
  Tools = {read1, write1, admin1, root1}
  Catalogues <- TheCatalogues
  Kinds = {"stdio", "http"}
  Allow <- TheAllow
  Deny <- TheDeny
  UserAllow <- TheUserAllow
  UserDeny <- TheUserDeny
  Shared = FALSE
  PerUser = {owner}
  Fallback = TRUE
  MaxCalls = 1
  Everyone = Everyone
  Rules <- TheRules
  MaxEdits = 1
  MaxReqs = 3
  MayAsk <- TheAsks
INVARIANTS
  TypeOK
  DenyWins
  ShownIsCallable
  ListingIsWhole
  AuditedOnce
PROPERTIES
  ImplementsToolProxy
  ListIsAnswered
CHECK_DEADLOCK FALSE
