----------------------------- MODULE McpSession -----------------------------
(***************************************************************************)
(* The MCP proxy between the guest's relays and one upstream server.       *)
(* slackagent/mcpproxy.py (McpProxy._handle and _Session), the policy of   *)
(* mcpconfig.py, and the mcp_policy, mcp_disabled, mcp_tool_cache and      *)
(* mcp_calls tables of store.py.                                           *)
(*                                                                         *)
(* A connection is one relay of one run.  Its requests are numbered in the *)
(* order the guest sends them; the number is the JSON-RPC id.  A tool      *)
(* pattern is the set of tools it matches.  A tools/list is answered in    *)
(* pages: the page a request asks for stands for its cursor, page 1 for    *)
(* none.                                                                   *)
(***************************************************************************)
EXTENDS Naturals, Sequences, FiniteSets

CONSTANTS Conn,         \* the connections
          Caller,       \* Caller[c]: the Slack user whose run the relay belongs to
          Tools,        \* the tools of the server
          Catalogues,   \* what the upstream may offer: its pages, sets of tools
          Kinds,        \* the upstreams tried: "stdio", "http"
          Allow, Deny,  \* the server's patterns in the configuration
          UserAllow,    \* UserAllow[u]: the caller's own allow list, {} for none
          UserDeny,
          Shared,       \* mode: shared
          PerUser,      \* users with a credential of their own
          Fallback,     \* shared_fallback
          MaxCalls,     \* max_calls_per_run
          Everyone,     \* the scope of a rule without --user
          Rules,        \* bound: the rules the operator may add with |mcp
          MaxEdits,     \* bound: operator commands
          MaxReqs,      \* bound: requests on one connection
          MayAsk        \* MayAsk[c][i]: what the i-th request may be

Users == {Caller[c] : c \in Conn}
Ids == 1..MaxReqs
Patterns == SUBSET Tools
Rule == [effect : {"allow", "deny"}, who : Users \cup {Everyone}, pattern : Patterns]
Request == [kind : {"list", "call", "refused", "other"}, tool : Tools, page : Nat \ {0}]

ASSUME SessionAssumption ==
  /\ {MaxCalls, MaxReqs, MaxEdits} \subseteq Nat
  /\ Rules \subseteq Rule
  /\ Catalogues \subseteq Seq(Patterns) \ {<<>>}
  /\ Kinds \subseteq {"stdio", "http"}
  /\ {Allow, Deny} \subseteq SUBSET Patterns
  /\ {UserAllow, UserDeny} \subseteq [Users -> SUBSET Patterns]
  /\ {Shared, Fallback} \subseteq BOOLEAN
  /\ MayAsk \in [Conn -> [Ids -> SUBSET Request]]

VARIABLES
  upstream,    \* the kind of upstream and its catalogue
  disabled,    \* the mcp_disabled row
  rules,       \* the mcp_policy rows
  edits,       \* operator commands so far
  cache,       \* the mcp_tool_cache row, {} for none
  audit,       \* the mcp_calls rows of each request
  unwritten,   \* history: calls with a row that could not be written
  live,        \* the run behind a connection is registered
  pc,          \* where the connection stands
  policy,      \* _extra_allow and _extra_deny
  calls,       \* _calls
  pending,     \* _pending, and what became of the watchdog of each entry
  seen,        \* _tools_seen
  asked,       \* the requests the guest sent
  read,        \* how many of them the proxy has read
  at,          \* requests the upstream is at work on
  replies,     \* messages from the upstream the proxy has not received yet
  down,        \* the upstream process has ended
  left,        \* the guest has closed its side
  got,         \* replies the guest was sent, by id
  listing,     \* the guest's current listing: what it heard and the cursor it holds
  inForce,     \* history: the rules of the server when the session opened
  shown,       \* history: tools in any list the guest was sent
  forwarded,   \* history: calls that reached the upstream
  broken,      \* history: requests whose stream broke after its answer
  late         \* history: a list came in after the cache had been served for it

operator == <<disabled, rules, edits>>
trail    == <<audit, unwritten>>
session  == <<policy, calls, pending, seen>>
guest    == <<asked, got, listing, shown>>
wire     == <<at, replies, down>>
history  == <<inForce, forwarded, broken, late>>
vars == <<upstream, operator, cache, trail, live, pc, session, read, left, guest, wire,
          history>>

Pages == Len(upstream.catalogue)
Offered == UNION {upstream.catalogue[k] : k \in 1..Pages}

Listing == [state : {"none", "asking", "more", "whole", "failed"},
            page : Nat, heard : SUBSET Tools]
Outcome == {"ok", "fail", "big"}

TypeOK ==
  /\ upstream \in [kind : Kinds, catalogue : Catalogues]
  /\ disabled \in BOOLEAN /\ rules \subseteq Rules /\ edits \in Nat
  /\ cache \subseteq Tools /\ late \in [Conn -> BOOLEAN]
  /\ audit \in [Conn -> [Ids -> Seq({"allowed", "denied", "capped", "error"})]]
  /\ unwritten \in [Conn -> SUBSET Ids]
  /\ live \in [Conn -> BOOLEAN]
  /\ pc \in [Conn -> {"new", "starting", "open", "refused", "closed"}]
  /\ policy \in [Conn -> SUBSET Rule] /\ inForce \in [Conn -> SUBSET Rule]
  /\ calls \in [Conn -> Nat]
  /\ pending \in [Conn -> [Ids -> {"no", "waiting", "unwatched", "answered"}]]
  /\ seen \in [Conn -> SUBSET Tools]
  /\ asked \in [Conn -> Seq(Request)]
  /\ read \in [Conn -> Nat]
  /\ at \in [Conn -> SUBSET Ids]
  /\ replies \in [Conn -> Seq([id : Ids, outcome : Outcome])]
  /\ down \in [Conn -> BOOLEAN] /\ left \in [Conn -> BOOLEAN]
  /\ got \in [Conn -> [Ids -> Nat]]
  /\ listing \in [Conn -> Listing]
  /\ shown \in [Conn -> SUBSET Tools]
  /\ forwarded \in [Conn -> SUBSET Ids]
  /\ broken \in [Conn -> SUBSET Ids]

Init ==
  /\ upstream \in [kind : Kinds, catalogue : Catalogues]
  /\ disabled = FALSE /\ rules \in {{}, Rules} /\ edits = 0
  /\ cache \in {{}, Offered}
  /\ audit = [c \in Conn |-> [i \in Ids |-> <<>>]]
  /\ unwritten = [c \in Conn |-> {}]
  /\ live = [c \in Conn |-> TRUE]
  /\ pc = [c \in Conn |-> "new"]
  /\ policy = [c \in Conn |-> {}] /\ inForce = [c \in Conn |-> {}]
  /\ calls = [c \in Conn |-> 0]
  /\ pending = [c \in Conn |-> [i \in Ids |-> "no"]]
  /\ seen = [c \in Conn |-> {}]
  /\ asked = [c \in Conn |-> <<>>]
  /\ read = [c \in Conn |-> 0]
  /\ at = [c \in Conn |-> {}]
  /\ replies = [c \in Conn |-> <<>>]
  /\ down = [c \in Conn |-> FALSE]
  /\ left = [c \in Conn |-> FALSE]
  /\ got = [c \in Conn |-> [i \in Ids |-> 0]]
  /\ listing = [c \in Conn |-> [state |-> "none", page |-> 0, heard |-> {}]]
  /\ shown = [c \in Conn |-> {}]
  /\ forwarded = [c \in Conn |-> {}]
  /\ broken = [c \in Conn |-> {}]
  /\ late = [c \in Conn |-> FALSE]

Go(c, from, to) == pc[c] = from /\ pc' = [pc EXCEPT ![c] = to]

-----------------------------------------------------------------------------
(* Policy.                                                                 *)

\* mcpconfig.matches: some pattern of the list matches the tool.
Matches(patterns, tool) == \E p \in patterns : tool \in p

\* Mutant: a rule scoped to the caller takes the place of those for everyone.
RuntimeRulesOwnWins(u) ==
  {r \in rules : r.who = IF \E x \in rules : x.who = u THEN u ELSE Everyone}

\* _runtime_patterns: the rules for everyone and those for this caller.
RuntimeRules(u) == {r \in rules : r.who \in {Everyone, u}}

PatternsOf(rs, effect) == {r.pattern : r \in {x \in rs : x.effect = effect}}

\* mcpconfig.decide: any deny wins; the caller's own list replaces the server's; what
\* |mcp allow added comes on top of whichever applies.
Decide(u, tool, extra) ==
  /\ ~ Matches(Deny \cup UserDeny[u] \cup PatternsOf(extra, "deny"), tool)
  /\ Matches((IF UserAllow[u] # {} THEN UserAllow[u] ELSE Allow)
               \cup PatternsOf(extra, "allow"), tool)

Permitted(c, tool) == Decide(Caller[c], tool, policy[c])

\* _filter_tools: a tool the caller may not call is not in the list it gets.
FilterTools(c, tools) == {t \in tools : Permitted(c, t)}

\* Server.credential_for: on a per-user server a caller without a credential of their
\* own has none, unless the server opts into the shared one.
HasCredential(u) == Shared \/ u \in PerUser \/ Fallback

\* mcpconfig.available_for
Available(u) == ~ disabled /\ HasCredential(u)

-----------------------------------------------------------------------------
(* The operator: |mcp allow, deny, forget, disable, enable.                *)

Command == edits < MaxEdits /\ edits' = edits + 1

\* store.add_mcp_policy is idempotent: a rule that is there changes nothing.
SetRule(r) ==
  /\ Command /\ r \notin rules /\ rules' = rules \cup {r}
  /\ UNCHANGED <<upstream, disabled, cache, trail, live, pc, session, read, left, guest,
                 wire, history>>

Forget(r) ==
  /\ Command /\ r \in rules /\ rules' = rules \ {r}
  /\ UNCHANGED <<upstream, disabled, cache, trail, live, pc, session, read, left, guest,
                 wire, history>>

Toggle ==
  /\ Command /\ disabled' = ~ disabled
  /\ UNCHANGED <<upstream, rules, cache, trail, live, pc, session, read, left, guest,
                 wire, history>>

-----------------------------------------------------------------------------
(* Opening and closing a connection.                                       *)

\* _handshake: the token must name a run, the server must be available to its user.
Attach(c) ==
  /\ live[c] /\ Available(Caller[c])
  /\ Go(c, "new", "starting")
  /\ UNCHANGED <<upstream, operator, cache, trail, live, session, read, left, guest, wire,
                 history>>

Refuse(c) ==
  /\ ~ (live[c] /\ Available(Caller[c]))
  /\ Go(c, "new", "refused")
  /\ UNCHANGED <<upstream, operator, cache, trail, live, session, read, left, guest, wire,
                 history>>

\* The upstream is up: _Session takes its copy of the runtime rules.
OpenSession(c) ==
  /\ Go(c, "starting", "open")
  /\ policy' = [policy EXCEPT ![c] = RuntimeRules(Caller[c])]
  /\ inForce' = [inForce EXCEPT ![c] = rules]
  /\ UNCHANGED <<upstream, operator, cache, trail, live, calls, pending, seen, read, left,
                 guest, wire, forwarded, broken, late>>

\* upstream.start raises: the connection is logged and closed.
StartFails(c) ==
  /\ Go(c, "starting", "closed")
  /\ UNCHANGED <<upstream, operator, cache, trail, live, session, read, left, guest, wire,
                 history>>

\* The turn is over or killed: the token is dropped and the tunnel closes.
RunEnds(c) ==
  /\ live[c] /\ live' = [live EXCEPT ![c] = FALSE]
  /\ left' = [left EXCEPT ![c] = TRUE]
  /\ UNCHANGED <<upstream, operator, cache, trail, pc, session, read, guest, wire, history>>

\* A stdio server exits, or is killed, with the requests it was at work on.
UpstreamDies(c) ==
  /\ upstream.kind = "stdio" /\ pc[c] = "open" /\ ~ down[c]
  /\ down' = [down EXCEPT ![c] = TRUE]
  /\ at' = [at EXCEPT ![c] = {}]
  /\ UNCHANGED <<upstream, operator, cache, trail, live, pc, session, read, left, guest,
                 replies, history>>

\* pump: the side that ends first cancels the other, and every watchdog.  What was
\* queued for the other side is dropped, and the session with it.
SessionEnds(c) ==
  /\ left[c] \/ down[c]
  /\ Go(c, "open", "closed")
  /\ at' = [at EXCEPT ![c] = {}]
  /\ replies' = [replies EXCEPT ![c] = <<>>]
  /\ pending' = [pending EXCEPT ![c] = [i \in Ids |-> "no"]]
  /\ seen' = [seen EXCEPT ![c] = {}]
  /\ UNCHANGED <<upstream, operator, cache, trail, live, policy, calls, read, left, guest,
                 down, history>>

-----------------------------------------------------------------------------
(* Guest to upstream.                                                      *)

\* The page a listing may ask for next.
Cursor(c) == IF listing[c].state = "more" THEN listing[c].page + 1 ELSE 1

\* The guest's next request.  It lists one page at a time.
Ask(c, r) ==
  /\ pc[c] = "open" /\ ~ left[c]
  /\ r.kind = "list" => listing[c].state # "asking" /\ r.page = Cursor(c)
  /\ asked' = [asked EXCEPT ![c] = Append(@, r)]
  /\ listing' = IF r.kind = "list"
                THEN [listing EXCEPT ![c].state = "asking", ![c].page = r.page]
                ELSE listing
  /\ UNCHANGED <<upstream, operator, cache, trail, live, pc, session, read, left, got,
                 shown, wire, history>>

\* The next line of the guest's; over HTTP a send lasts until its POST is done.
Reads(c, i, kind) ==
  /\ pc[c] = "open" /\ i = read[c] + 1 /\ i <= Len(asked[c])
  /\ upstream.kind = "http" => at[c] = {}
  /\ asked[c][i].kind = kind
  /\ read' = [read EXCEPT ![c] = i]

Forward(c, i) == at' = [at EXCEPT ![c] = @ \cup {i}]
Reply(c, i)   == got' = [got EXCEPT ![c][i] = @ + 1]

\* _audit: a row that cannot be written is logged, and the call goes on without it.
Audit(c, i, decision) ==
  \/ audit' = [audit EXCEPT ![c][i] = Append(@, decision)] /\ UNCHANGED unwritten
  \/ unwritten' = [unwritten EXCEPT ![c] = @ \cup {i}] /\ UNCHANGED audit

\* resources/, prompts/, completion/: answered here with an error.
RefuseMethod(c, i) ==
  /\ Reads(c, i, "refused") /\ Reply(c, i)
  /\ UNCHANGED <<upstream, operator, cache, trail, live, pc, session, left, asked, listing,
                 shown, wire, history>>

ForwardOther(c, i) ==
  /\ Reads(c, i, "other") /\ Forward(c, i)
  /\ UNCHANGED <<upstream, operator, cache, trail, live, pc, session, left, guest, replies,
                 down, history>>

\* tools/list is forwarded with an entry in _pending and a watchdog.
ForwardList(c, i) ==
  /\ Reads(c, i, "list") /\ Forward(c, i)
  /\ pending' = [pending EXCEPT ![c][i] = "waiting"]
  /\ UNCHANGED <<upstream, operator, cache, trail, live, pc, policy, calls, seen, left,
                 guest, replies, down, history>>

DenyCall(c, i) ==
  /\ Reads(c, i, "call") /\ ~ Permitted(c, asked[c][i].tool)
  /\ Audit(c, i, "denied") /\ Reply(c, i)
  /\ UNCHANGED <<upstream, operator, cache, live, pc, session, left, asked, listing, shown,
                 wire, history>>

\* A permitted call counts, also the one that finds the cap reached.
CountCall(c) == calls' = [calls EXCEPT ![c] = @ + 1]

CapCall(c, i) ==
  /\ Reads(c, i, "call") /\ Permitted(c, asked[c][i].tool)
  /\ CountCall(c) /\ calls'[c] > MaxCalls
  /\ Audit(c, i, "capped") /\ Reply(c, i)
  /\ UNCHANGED <<upstream, operator, cache, live, pc, policy, pending, seen, left, asked,
                 listing, shown, wire, history>>

ForwardCall(c, i) ==
  /\ Reads(c, i, "call") /\ Permitted(c, asked[c][i].tool)
  /\ CountCall(c) /\ calls'[c] <= MaxCalls
  /\ pending' = [pending EXCEPT ![c][i] = "waiting"]
  /\ Forward(c, i)
  /\ forwarded' = [forwarded EXCEPT ![c] = @ \cup {i}]
  /\ UNCHANGED <<upstream, operator, cache, trail, live, pc, policy, seen, left, guest,
                 replies, down, inForce, broken, late>>

-----------------------------------------------------------------------------
(* The upstream.                                                           *)

Says(c, i, outcomes) ==
  /\ i \in at[c] /\ ~ down[c]
  /\ at' = [at EXCEPT ![c] = @ \ {i}]
  /\ replies' = [replies EXCEPT ![c] = @ \o outcomes]
  /\ UNCHANGED <<upstream, operator, cache, trail, live, pc, session, read, left, guest,
                 down, inForce, forwarded, late>>

\* A result, an error (a failed POST queues one), or one over the size cap.
Outcomes(c, i) == IF asked[c][i].kind = "call" THEN Outcome ELSE {"ok", "fail"}

Answer(c, i) ==
  /\ i \in at[c]
  /\ \E o \in Outcomes(c, i) : Says(c, i, << [id |-> i, outcome |-> o] >>)
  /\ UNCHANGED broken

\* HTTP: the POST ends with no message for the request (202, or a stream cut short).
PostQuiet(c, i) ==
  /\ upstream.kind = "http" /\ Says(c, i, <<>>)
  /\ UNCHANGED broken

\* HTTP: the stream breaks after the answer it carried was queued; send() then queues
\* an error for the same id.
PostBreaks(c, i) ==
  /\ upstream.kind = "http" /\ i \in at[c]
  /\ \E o \in Outcomes(c, i) :
       Says(c, i, << [id |-> i, outcome |-> o], [id |-> i, outcome |-> "fail"] >>)
  /\ broken' = [broken EXCEPT ![c] = @ \cup {i}]

-----------------------------------------------------------------------------
(* Upstream to guest.                                                      *)

\* The next message from the upstream; its _pending entry is popped.
Receives(c, i, outcome) ==
  /\ pc[c] = "open" /\ replies[c] # <<>>
  /\ Head(replies[c]) = [id |-> i, outcome |-> outcome]
  /\ replies' = [replies EXCEPT ![c] = Tail(@)]

\* An entry of that kind is in _pending under the id.
Pending(c, i, kind) == pending[c][i] # "no" /\ asked[c][i].kind = kind
Pop(c, i) == pending' = [pending EXCEPT ![c][i] = "no"]

\* Nothing pending under its id: passed on as it is.
PassOn(c, i) ==
  /\ pending[c][i] = "no"
  /\ \E o \in Outcome : Receives(c, i, o)
  /\ Reply(c, i)
  /\ UNCHANGED <<upstream, operator, cache, trail, live, pc, session, read, left, asked,
                 listing, shown, at, down, history>>

CallDecision == [ok |-> "allowed", fail |-> "error", big |-> "capped"]

\* Mutant: a call that failed leaves no row.
AuditSuccess(c, i, o) == IF o = "fail" THEN UNCHANGED trail ELSE Audit(c, i, CallDecision[o])

\* Mutant: the outcome is written where the decision belongs.
AuditOutcome(c, i, o) == Audit(c, i, o)

AuditReply(c, i, o) == Audit(c, i, CallDecision[o])

\* A tools/call is audited by how it went, and answered.
CallReply(c, i) ==
  /\ Pending(c, i, "call")
  /\ \E o \in Outcome : Receives(c, i, o) /\ AuditReply(c, i, o)
  /\ Pop(c, i) /\ Reply(c, i)
  /\ UNCHANGED <<upstream, operator, cache, live, pc, policy, calls, seen, read, left, asked,
                 listing, shown, at, down, history>>

\* The guest is sent a list: a page with its cursor, or a last one.
SendList(c, i, tools, more) ==
  LET page == asked[c][i].page IN
  /\ Reply(c, i)
  /\ shown' = [shown EXCEPT ![c] = @ \cup tools]
  /\ listing' = [listing EXCEPT ![c] =
       [state |-> IF more THEN "more" ELSE "whole", page |-> page,
        heard |-> IF page = 1 THEN tools ELSE @.heard \cup tools]]
  /\ UNCHANGED asked

\* Mutant: the cached list is sent as it is.
UnfilteredList(c) == cache

\* _cached_tools_list
CachedList(c) == FilterTools(c, cache)

Page(c, i) == upstream.catalogue[asked[c][i].page]
IsLast(c, i) == asked[c][i].page = Pages

\* _tools_seen: a first page starts it over, a later one adds to it.
Accumulate(c, i) == IF asked[c][i].page = 1 THEN Page(c, i) ELSE seen[c] \cup Page(c, i)

\* Mutant: each page is taken for the whole list.
SaveEachPage(c, i) == cache' = Accumulate(c, i)

\* save_mcp_tools, when the page without a cursor lands, and unless the write fails.
SaveTools(c, i) ==
  \/ IsLast(c, i) /\ cache' = Accumulate(c, i)
  \/ UNCHANGED cache

\* Mutant: a list that comes after the cache was served is sent all the same.
SendLate(c, i) == SendList(c, i, FilterTools(c, Page(c, i)), ~ IsLast(c, i))

\* Already answered from the cache: swallowed.
Swallow(c, i) == UNCHANGED guest

\* A good page: kept, and sent unless the cache has been served for it.
GoodList(c, i) ==
  /\ Pending(c, i, "list")
  /\ Receives(c, i, "ok") /\ Pop(c, i)
  /\ seen' = [seen EXCEPT ![c] = Accumulate(c, i)]
  /\ SaveTools(c, i)
  /\ IF pending[c][i] = "answered"
     THEN Swallow(c, i) /\ late' = [late EXCEPT ![c] = TRUE]
     ELSE SendList(c, i, FilterTools(c, Page(c, i)), ~ IsLast(c, i)) /\ UNCHANGED late
  /\ UNCHANGED <<upstream, operator, trail, live, pc, policy, calls, read, left, at, down,
                 inForce, forwarded, broken>>

\* The error itself, when there is nothing to put in its place.
SendFailure(c, i) ==
  /\ Reply(c, i) /\ listing' = [listing EXCEPT ![c].state = "failed"]
  /\ UNCHANGED <<asked, shown>>

\* A failed one: the cache stands in for it.
FailedList(c, i) ==
  /\ Pending(c, i, "list")
  /\ Receives(c, i, "fail") /\ Pop(c, i)
  /\ IF pending[c][i] = "answered" THEN Swallow(c, i)
     ELSE IF cache # {} THEN SendList(c, i, CachedList(c), FALSE)
     ELSE SendFailure(c, i)
  /\ UNCHANGED <<upstream, operator, cache, trail, live, pc, policy, calls, seen, read, left,
                 at, down, history>>

\* Mutant: only the first page of a listing is watched.
WatchFirstPage(c, i) == asked[c][i].page = 1

Watched(c, i) == asked[c][i].kind = "list"

\* TOOLS_LIST_TIMEOUT_S has passed: the list is answered from the cache, if there is one.
Watchdog(c, i) ==
  /\ pc[c] = "open" /\ pending[c][i] = "waiting" /\ Watched(c, i)
  /\ pending' = [pending EXCEPT ![c][i] = IF cache # {} THEN "answered" ELSE "unwatched"]
  /\ IF cache # {} THEN SendList(c, i, CachedList(c), FALSE) ELSE UNCHANGED guest
  /\ UNCHANGED <<upstream, operator, cache, trail, live, pc, policy, calls, seen, read, left,
                 wire, history>>

-----------------------------------------------------------------------------
FromGuest(c, i) ==
  \/ RefuseMethod(c, i) \/ ForwardOther(c, i) \/ ForwardList(c, i)
  \/ DenyCall(c, i) \/ CapCall(c, i) \/ ForwardCall(c, i)

ToGuest(c, i) ==
  \/ PassOn(c, i) \/ CallReply(c, i) \/ GoodList(c, i) \/ FailedList(c, i)

Next ==
  \/ \E r \in Rules : SetRule(r) \/ Forget(r)
  \/ Toggle
  \/ \E c \in Conn :
       \/ Attach(c) \/ Refuse(c) \/ OpenSession(c) \/ StartFails(c)
       \/ RunEnds(c) \/ UpstreamDies(c) \/ SessionEnds(c)
       \/ Len(asked[c]) < MaxReqs /\ \E r \in MayAsk[c][Len(asked[c]) + 1] : Ask(c, r)
       \/ \E i \in Ids :
            \/ FromGuest(c, i) \/ ToGuest(c, i) \/ Watchdog(c, i)
            \/ Answer(c, i) \/ PostQuiet(c, i) \/ PostBreaks(c, i)

Spec == Init /\ [][Next]_vars

\* The event loop wakes a watchdog when its time is up; nothing is assumed of the
\* upstream, the guest or the pumps.
FairSpec == Spec /\ \A c \in Conn, i \in Ids : WF_vars(Watchdog(c, i))

-----------------------------------------------------------------------------
(* What makes the proxy correct.                                           *)

\* "Two responses to one id is a protocol violation the CLI would be right to choke on":
\* between the upstream's answer, the watchdog, and what the proxy answers itself, the
\* guest gets one; a request whose HTTP stream broke after its answer is the exception.
OneReply == \A c \in Conn, i \in Ids : i \notin broken[c] => got[c][i] <= 1

\* The patterns denied to the caller of a connection: by the server and by the caller's own
\* entry in the file, and by the |mcp rules, for everyone or for the caller, that were in
\* force when the session opened.
DeniedTo(c) ==
  Deny \cup UserDeny[Caller[c]]
    \cup {r.pattern : r \in {x \in inForce[c] : x.effect = "deny"
                                              /\ x.who \in {Everyone, Caller[c]}}}

\* A tool that one of these denies matches is neither listed nor called, fresh or from the
\* cache, whatever allows it: also the caller's own allow, in the file or with |mcp, against
\* a deny for everyone (of |mcp rules store.py says otherwise: "a per-user row wins over
\* it").
DenyWins ==
  \A c \in Conn : \A p \in DeniedTo(c) :
    /\ p \cap shown[c] = {}
    /\ \A i \in forwarded[c] : asked[c][i].tool \notin p

\* What the agent is shown it may call: a tool in a list it was sent, fresh or cached,
\* is never refused by policy on that connection.
ShownIsCallable ==
  \A c \in Conn : \A i \in 1..Len(asked[c]) :
    asked[c][i].kind = "call" /\ asked[c][i].tool \in shown[c]
      => \A k \in 1..Len(audit[c][i]) : audit[c][i][k] # "denied"

\* A listing the guest completes has every tool it may call, although some of its pages
\* failed, or timed out and were replaced from the cache, which is never "silently
\* shrunk".  Holds of listings of up to two pages, or while no list came in late.
ListingIsWhole ==
  Pages <= 2 \/ (\A c \in Conn : ~ late[c]) =>
    \A c \in Conn : listing[c].state = "whole" =>
      FilterTools(c, Offered) \subseteq listing[c].heard

\* A call has no more than one row in the audit trail, and one when it was answered, by
\* the proxy or by the upstream, also twice, unless the row could not be written; and the
\* row does not say that a call was refused which the server was sent, nor that one went
\* through which it was not sent.  Of calls that are not answered nothing is said: they
\* have no row, where store.py has "Every attempt".
AuditedOnce ==
  \A c \in Conn : \A i \in 1..Len(asked[c]) : asked[c][i].kind = "call" =>
    /\ Len(audit[c][i]) <= 1
    /\ got[c][i] > 0 /\ i \notin unwritten[c] => Len(audit[c][i]) = 1
    /\ \A k \in 1..Len(audit[c][i]) :
         /\ audit[c][i][k] \in {"allowed", "error"} => i \in forwarded[c]
         /\ audit[c][i][k] = "denied" => i \notin forwarded[c]

\* No more calls reach the upstream on a connection than the cap.
CapHolds == \A c \in Conn : Cardinality(forwarded[c]) <= MaxCalls

\* What a client of the proxy can tell of a connection: the tools that a rule of the moment
\* denies its caller, whether it is open, what it may call, what it asked to call, and what
\* was sent upstream.
DeniedNow ==
  [c \in Conn |-> {t \in Tools : Matches(Deny \cup UserDeny[Caller[c]]
                                    \cup PatternsOf(RuntimeRules(Caller[c]), "deny"), t)}]
Stage ==
  [c \in Conn |-> IF pc[c] \in {"new", "starting"} THEN "new"
                  ELSE IF pc[c] = "open" THEN "open" ELSE "over"]
MayUse == [c \in Conn |-> {t \in Tools : pc[c] = "open" /\ Permitted(c, t)}]
CallsOf(c) == {i \in 1..Len(asked[c]) : asked[c][i].kind = "call"}
Wanted == [c \in Conn |-> {<<i, asked[c][i].tool>> : i \in CallsOf(c)}]
PassedOn ==
  [c \in Conn |->
     forwarded[c] \cup {i \in 1..read[c] : asked[c][i].kind \in {"list", "other"}}]

\* Lists, calls, refusals, the cap and the rules go together as ToolProxy promises it: the
\* detailed proxy implements it, however requests, answers and watchdogs interleave.
Proxy == INSTANCE ToolProxy WITH
           denied <- DeniedNow, stage <- Stage, permitted <- MayUse, wanted <- Wanted,
           passed <- PassedOn, answers <- got

ImplementsToolProxy == Proxy!Spec

\* "Keeps the server real": while a list is cached, a tools/list is answered even if the
\* upstream hangs, unless the connection closes first.
ListIsAnswered ==
  \A c \in Conn, i \in Ids :
    (pending[c][i] = "waiting" /\ asked[c][i].kind = "list" /\ cache # {})
      ~> (got[c][i] > 0 \/ pc[c] = "closed")
==============================================================================
