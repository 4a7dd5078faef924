SPECIFICATION Spec
CONSTANTS
  none = none
  Space = " "
  Blank = {" ", "newline"}
  Quotes = {"'"}
  Operators = {"&&", "&"}
  HookOperators = {"&&", "newline"}
  Special = {">", "newline"}
  Redirect = {">"}
  Trimmed = {"'", "&&", "&", ">"}
  Unsafe = {"rm", "sudo"}
  Unstable = {"A=1", "/work/x", "/work/../x", "/work", "/tmp/x", "/usr/x", "/etc/x", "/srv/x", "../x"}
  Bare = {"git", "status", "push", "rm", "cp", "sudo"}
  AskCommands = {"sudo"}
  Phrases <- ThePhrases
  Markers = {"/work/.ssh"}
  Mutators = {"rm", "cp"}
  Written <- TheWritten
  Root = "/work"
  Longer <- TheLonger
  Link <- TheLinks
  Workspace <- TheWorkspace
  AutoAllow = {"Read"}
  WriteTools = {"Write"}
  NoText = none
  Call <- TheCalls
  Default = "permissive"
  MaxAlways = 2
  MaxRevoked = 1
INVARIANTS
  TypeOK
  SameCallIsCovered
  NothingNewRuns
  OrdinaryWorkOnly
  WritesStayPut
CHECK_DEADLOCK FALSE
