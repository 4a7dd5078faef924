--------------------------- MODULE McpCredentials ---------------------------
(***************************************************************************)
(* The credential of one MCP server: an OAuth grant that two connections   *)
(* refresh while an operator renews it, or a header pasted in Slack.       *)
(* slackagent/mcpproxy.py (OAuth, McpProxy._default_upstream), the         *)
(* mcp_tokens and mcp_header_overrides tables of store.py, mcp_login.py,   *)
(* and bootstrap/authorise-mcp-oauth.py.                                   *)
(*                                                                         *)
(* A grant is numbered; each answer of the token endpoint for it has the   *)
(* next number, its issue.  A token is its grant and its issue.            *)
(***************************************************************************)
EXTENDS McpRegistry

CONSTANTS Conn,       \* the connections
          Servers,    \* the authorisation servers tried: "keeps" the refresh token,
                      \* "rotates" it, or "detects" its reuse and ends the grant
          MaxIssue,   \* bound: refreshes of one grant
          MayTear     \* connections may go, and the daemon crash, during a refresh

Grant == 1..MaxAuth
Token == [grant : Grant, issue : 0..MaxIssue]
Row == [access : Token, refresh : Token, timed : BOOLEAN]

ASSUME CredentialAssumption ==
  /\ MaxIssue \in Nat /\ MaxAuth # 0
  /\ None \notin Row
  /\ Servers \subseteq {"keeps", "rotates", "detects"}
  /\ MayTear \in BOOLEAN

VARIABLES
  server,    \* how the authorisation server treats refresh tokens
  issued,    \* per grant, the last issue
  dead,      \* grants the server no longer honours
  alive,     \* access tokens the upstream accepts
  timed,     \* the grants that came with an expires_at
  row,       \* the mcp_tokens row
  cookie,    \* the mcp_header_overrides row is there
  pc,        \* where a connection stands
  conf,      \* the auth of the server it was opened with
  sends,     \* it was opened with the header override
  retried,   \* the 401 retry of its request is under way
  using,     \* the token it presents, or refreshes with
  login,     \* the |mcp login dialogue: button posted, modal open
  script,    \* where authorise-mcp-oauth.py stands
  torn,      \* history: an issue was never saved
  reused,    \* history: a rotated refresh token came back and ended its grant
  raced      \* history: when the script cleared the rows, a connection or a login was
             \* open, or the new grant had been refreshed already; or either was begun
             \* while the registry had not taken up the file the script wrote

auth    == <<server, issued, dead, alive>>
store   == <<row, cookie>>
conns   == <<pc, conf, sends, retried, using>>
history == <<torn, reused, raced>>
vars == <<config, auth, timed, store, conns, login, script, history>>

First(g) == [grant |-> g, issue |-> 0]

TypeOK ==
  /\ RegistryTypeOK
  /\ server \in Servers
  /\ issued \in [Grant -> 0..MaxIssue]
  /\ dead \subseteq Grant /\ alive \subseteq Token
  /\ {cookie, torn, reused, raced} \subseteq BOOLEAN /\ timed \subseteq Grant
  /\ row \in Row \cup {None}
  /\ pc \in [Conn -> {"off", "idle", "asking", "granted", "sent", "closed"}]
  /\ conf \in [Conn -> 0..MaxAuth]
  /\ {sends, retried} \subseteq [Conn -> BOOLEAN]
  /\ using \in [Conn -> Token]
  /\ login \in {"none", "button", "modal"}
  /\ script \in {"off", "consented", "written", "done"}

Init ==
  /\ \E d \in Docs : Parses(d) /\
       file = [present |-> TRUE, doc |-> d, private |-> TRUE, stamp |-> 1]
  /\ served = None /\ known = 0 /\ skipped = FALSE
  /\ server \in Servers
  /\ issued = [g \in Grant |-> 0] /\ dead = {}
  /\ alive = {First(g) : g \in {file.doc.auth} \ {0}}
  /\ timed \in {{}, Grant}
  /\ row = None /\ cookie = FALSE
  /\ pc = [c \in Conn |-> "off"]
  /\ conf = [c \in Conn |-> 0]
  /\ sends = [c \in Conn |-> FALSE] /\ retried = [c \in Conn |-> FALSE]
  /\ using = [c \in Conn |-> First(1)]
  /\ login = "none" /\ script = "off"
  /\ torn = FALSE /\ reused = FALSE /\ raced = FALSE

Go(c, from, to) == pc[c] = from /\ pc' = [pc EXCEPT ![c] = to]
Open(c) == pc[c] \notin {"off", "closed"}

-----------------------------------------------------------------------------
(* The file, by hand, and the registry.                                    *)

EditFile ==
  /\ script = "off" /\ (Edit \/ Chmod \/ Remove)
  /\ UNCHANGED <<auth, timed, store, conns, login, script, history>>

\* |mcp and the like.
LookUp ==
  /\ Look \/ LookFails
  /\ UNCHANGED <<auth, timed, store, conns, login, script, history>>

-----------------------------------------------------------------------------
(* A connection.                                                           *)

\* What the registry serves may be a last good copy from before the script's.
UseServed == raced' = (raced \/ served'.auth # file.doc.auth)

\* The server as the registry has it now, and the header override if there is one; a look
\* that raises closes the connection, or ends the command, and changes nothing.
Attach(c) ==
  /\ Look /\ served' # None
  /\ Go(c, "off", "idle")
  /\ conf' = [conf EXCEPT ![c] = served'.auth]
  /\ sends' = [sends EXCEPT ![c] = cookie]
  /\ UseServed
  /\ UNCHANGED <<auth, timed, store, retried, using, login, script, torn, reused>>

\* Every field of the row stands before the one in the configuration.
Access(c)  == IF row # None THEN row.access ELSE First(conf[c])
Refresh(c) == IF row # None THEN row.refresh ELSE First(conf[c])

\* expires_at: a row without one leaves the configuration's, of another token, in force.
Fresh(c) ==
  \/ row # None /\ row.timed /\ row.access \in alive
  \/ ~ (row # None /\ row.timed) /\ (conf[c] \in timed => First(conf[c]) \in alive)

\* _access_token, holding the connection's own lock.
Present(c) ==
  /\ conf[c] # 0 /\ Fresh(c) /\ Go(c, "idle", "sent")
  /\ using' = [using EXCEPT ![c] = Access(c)]
  /\ UNCHANGED <<config, auth, timed, store, conf, sends, retried, login, script, history>>

AskRefresh(c) ==
  /\ conf[c] # 0 /\ ~ Fresh(c) /\ Go(c, "idle", "asking")
  /\ using' = [using EXCEPT ![c] = Refresh(c)]
  /\ UNCHANGED <<config, auth, timed, store, conf, sends, retried, login, script, history>>

\* The upstream takes the token, or its answer to the retry is passed on whatever it is.
Answered(c) ==
  /\ using[c] \in alive \/ retried[c]
  /\ Go(c, "sent", "idle")
  /\ retried' = [retried EXCEPT ![c] = FALSE]
  /\ UNCHANGED <<config, auth, timed, store, conf, sends, using, login, script, history>>

\* The first 401 forces a refresh, with whatever the row holds by now.
Unauthorised(c) ==
  /\ using[c] \notin alive /\ ~ retried[c]
  /\ Go(c, "sent", "asking")
  /\ retried' = [retried EXCEPT ![c] = TRUE]
  /\ using' = [using EXCEPT ![c] = Refresh(c)]
  /\ UNCHANGED <<config, auth, timed, store, conf, sends, login, script, history>>

-----------------------------------------------------------------------------
(* The token endpoint.                                                     *)

Current(t) == server = "keeps" \/ t.issue = issued[t.grant]
Honoured(t) == t.grant \notin dead /\ Current(t)

\* A refresh: a new access token, and over the old refresh token a new one.
Refreshes(c) ==
  LET g == using[c].grant
      t == [grant |-> g, issue |-> issued[g] + 1] IN
  /\ Honoured(using[c]) /\ issued[g] < MaxIssue
  /\ Go(c, "asking", "granted")
  /\ issued' = [issued EXCEPT ![g] = @ + 1]
  /\ alive' = alive \cup {t}
  /\ UNCHANGED <<config, server, dead, timed, store, conf, sends, retried, using, login,
                 script, history>>

\* invalid_grant: the request fails with it.  Some servers end the grant over a reuse.
InvalidGrant(c) ==
  LET reuse == server = "detects" /\ ~ Current(using[c]) IN
  /\ ~ Honoured(using[c])
  /\ Go(c, "asking", "idle")
  /\ retried' = [retried EXCEPT ![c] = FALSE]
  /\ dead' = IF reuse THEN dead \cup {using[c].grant} ELSE dead
  /\ reused' = (reused \/ reuse)
  /\ UNCHANGED <<config, server, issued, alive, timed, store, conf, sends, using, login,
                 script, torn, raced>>

\* The refresh token of an answer: the new one, or none when the server keeps the old.
NewRefresh(c) ==
  IF server = "keeps" THEN using[c]
  ELSE [grant |-> using[c].grant, issue |-> issued[using[c].grant]]

\* Mutant: the refresh token that was sent is kept.
OldRefresh(c) == using[c]

\* Mutant: an answer without a refresh token leaves none.
SentRefresh(c) == IF server = "keeps" THEN None ELSE NewRefresh(c)

\* save_mcp_token: the row gets what the answer carried, at once.
KeptRefresh(c) == NewRefresh(c)

Save(c) ==
  LET t == [grant |-> using[c].grant, issue |-> issued[using[c].grant]] IN
  /\ Go(c, "granted", "sent")
  /\ \E e \in BOOLEAN : row' = [access |-> t, refresh |-> KeptRefresh(c), timed |-> e]
  /\ using' = [using EXCEPT ![c] = t]
  /\ UNCHANGED <<config, auth, timed, cookie, conf, sends, retried, login, script, history>>

Expire(t) ==
  /\ alive' = alive \ {t}
  /\ UNCHANGED <<config, server, issued, dead, timed, store, conns, login, script, history>>

-----------------------------------------------------------------------------
(* Ends.                                                                   *)

\* The relay goes: its task is cancelled wherever it is.
HangUp(c) ==
  /\ Open(c) /\ (MayTear \/ pc[c] \notin {"asking", "granted"})
  /\ pc' = [pc EXCEPT ![c] = "closed"]
  /\ torn' = (torn \/ pc[c] = "granted")
  /\ UNCHANGED <<config, auth, timed, store, conf, sends, retried, using, login, script,
                 reused, raced>>

\* The daemon restarts; the rows and the file stay.
Crash ==
  /\ MayTear
  /\ pc' = [c \in Conn |-> IF Open(c) THEN "closed" ELSE pc[c]]
  /\ torn' = (torn \/ \E c \in Conn : pc[c] = "granted")
  /\ ForgetConfig
  /\ UNCHANGED <<auth, timed, store, conf, sends, retried, using, login, script, reused,
                 raced>>

-----------------------------------------------------------------------------
(* |mcp login and |mcp logout, for a server that takes a header.           *)

\* _ineligible_reason
LoginFits(d) == d.type = "http" /\ d.auth = 0

\* Whether a login fits is asked for the button, of the registry's copy, and not again.
RequestLogin ==
  /\ login = "none" /\ Look
  /\ served' # None /\ LoginFits(served')
  /\ login' = "button"
  /\ UseServed
  /\ UNCHANGED <<auth, timed, store, conns, script, torn, reused>>

\* The operator presses the button, and later submits; a server gone by then ends it.
PressButton ==
  /\ login = "button" /\ Look
  /\ login' = IF served' # None THEN "modal" ELSE "button"
  /\ UNCHANGED <<auth, timed, store, conns, script, history>>

Submit ==
  /\ login = "modal" /\ Look
  /\ cookie' = (cookie \/ served' # None)
  /\ login' = "none"
  /\ UNCHANGED <<auth, timed, row, conns, script, history>>

Logout ==
  /\ Look /\ served' # None /\ cookie' = FALSE
  /\ UNCHANGED <<auth, timed, row, conns, login, script, history>>

-----------------------------------------------------------------------------
(* authorise-mcp-oauth.py, on the host beside the running daemon.          *)

\* Up to the code exchange: a new grant; the server may end the one it replaces.
Consent ==
  LET g == file.doc.auth + 1 IN
  /\ script = "off" /\ script' = "consented"
  /\ file.present /\ file.doc.url = "some" /\ file.doc.odd # "bytes" /\ g \in Grant
  /\ alive' = alive \cup {First(g)}
  /\ dead' \in {dead, dead \cup ({g - 1} \ {0})}
  /\ UNCHANGED <<config, server, issued, timed, store, conns, login, history>>

\* write_config reads the file again and puts the grant in, 0600, under a new stamp.
WriteGrant == Write([file.doc EXCEPT !.auth = @ + 1], TRUE)

\* clear_stale_rows: the token row and the header override.
ClearRows ==
  /\ row' = None /\ cookie' = FALSE
  /\ raced' = (raced \/ login # "none" \/ (\E c \in Conn : Open(c))
                \/ (file.doc.auth # 0 /\ issued[file.doc.auth] > 0))

\* Mutant: the rows are cleared before the file is written.
ClearThenWrite ==
  \/ /\ script = "consented" /\ script' = "written"
     /\ ClearRows /\ UNCHANGED config
  \/ /\ script = "written" /\ script' = "done"
     /\ WriteGrant /\ UNCHANGED <<store, raced>>

WriteThenClear ==
  \/ /\ script = "consented" /\ script' = "written"
     /\ WriteGrant /\ UNCHANGED <<store, raced>>
  \/ /\ script = "written" /\ script' = "done"
     /\ ClearRows /\ UNCHANGED config

Authorise ==
  /\ WriteThenClear
  /\ UNCHANGED <<auth, timed, conns, login, torn, reused>>

-----------------------------------------------------------------------------
Step(c) ==
  \/ Attach(c) \/ Present(c) \/ AskRefresh(c) \/ Answered(c) \/ Unauthorised(c)
  \/ Refreshes(c) \/ InvalidGrant(c) \/ Save(c) \/ HangUp(c)

Next ==
  \/ EditFile \/ LookUp
  \/ \E c \in Conn : Step(c)
  \/ \E t \in alive : Expire(t)
  \/ Crash
  \/ RequestLogin \/ PressButton \/ Submit \/ Logout
  \/ Consent \/ Authorise

Spec == Init /\ [][Next]_vars

-----------------------------------------------------------------------------
(* What makes the credentials correct.                                     *)

\* The refresh token a new connection would use.
Held == IF row # None THEN row.refresh ELSE First(file.doc.auth)

\* The grant survives its refreshes: with no refresh and no re-authorisation under way,
\* the refresh token the daemon holds is one the server honours.  Two connections may
\* refresh at once; what ends a grant is an answer lost before it was saved, a server
\* that punishes reuse, or a connection open across the operator's renewal.
GrantIsKept ==
  /\ file.doc.auth # 0 /\ script \in {"off", "done"}
  /\ \A c \in Conn : pc[c] # "granted"
  /\ ~ torn /\ ~ reused /\ ~ raced
  => Honoured(Held)

\* "The database shadows the file ... The row is deleted": after the script, no row of an
\* older grant stands before the new one, and, since "a server that has moved to OAuth has
\* no use for last month's Cookie", no pasted header is sent beside it; if no connection
\* and no login was open when the script cleared the rows.
RenewalTakes ==
  script = "done" /\ ~ raced =>
    /\ row = None \/ row.access.grant = file.doc.auth
    /\ ~ cookie /\ \A c \in Conn : Open(c) => ~ sends[c]
==============================================================================
