# A TLA+ model of the Slack agent daemon

The repository runs Claude Code in a virtual machine on behalf of a Slack
workspace. A daemon on the host (`src/daemon/slackagent`) listens to Slack,
starts one CLI run per message over ssh, shows the answer in the thread, asks a
person before the agent may run a tool call, and proxies the agent's MCP
traffic. The daemon is one asyncio event loop with a sqlite database behind it:
what is hard about it is what happens between two awaits, what is read before
one and used after it, and what a restart leaves behind.

This directory holds TLA+ modules for the parts of the daemon that carry that
logic, TLC configurations that check them on small instances, and TLAPS proofs
of their safety properties for every value of the constants.

## Inventory

| part | state it keeps | operations | what is hard | what makes it correct |
|---|---|---|---|---|
| approval gate, `approvals.py` | `_runs`, `_waiters`, `_suggestions`, one future per request | `/approve` handler, button handler, repost, register and unregister a run | two presses, the timeout and the end of the run race for one request; Slack calls fail; a restart forgets the waiters | allow only by a decider or a grant one made; one verdict per request; nobody waits for ever |
| store, `store.py` | threads, thread modes, approvals, grants, approvers, MCP tables, settings | one locked sqlite call each, run in worker threads | atomic one by one, not across two calls | conditional update of an approval; monotonic watermark |
| routing and turns, `app.py` | one lock per thread, the bot's identity | handle an event, run a command, run a turn | handlers overtake each other; mode and watermark are read in one await and used in the next; every step of a turn may raise | one turn at a time; the mode holds; nothing is shown twice; a token goes with its run |
| catch-up, `transcript.py`, `prompt.py` | none | fetch a window, quote its newest part | paging, failing fetches, the ends of the window | quotes older talk only, never a pause |
| run bridge, `bridge.py` | two pools of tunnel ports | start ssh, stream, stop | an async generator that outlives its turn; ports must come back on every way out; session id or resume | no tunnel is shared, no port vanishes, a session on disk is known |
| VM control, `vmctl.py` | none | state, start | check, then start | a running VM is not a failure |
| renderer, `render.py` | text so far, `_dirty`, `_message_ts` | fold an event, flush, retract | updates fail and are rate limited | the answer is shown, silence leaves nothing |
| hook, `vm-files/.../approve.py` | none | local policy, then ask | every failure must deny; what a shell line means | fails closed; only ordinary work runs by itself |
| grants, `grants.py` | none | split a command, match, suggest | quoting, compound commands | what a grant covers was meant; what is suggested covers the call |
| MCP proxy, `mcpproxy.py` | pending requests, call count, tools seen, OAuth tokens | relay, intercept, filter, cap, audit, watch, refresh | watchdog against late reply; pages of a listing over several requests; one grant refreshed by several connections | one reply per request; deny wins; a listing is whole; the audit trail is exact; the grant is not lost |
| MCP registry, `mcpconfig.py` | parsed file, mtime, error | reload, `available_for`, `decide` | stale copies | the file is obeyed; a bad file never widens |
| MCP login, `mcp_login.py`, and `authorise-mcp-oauth.py` | rows in the store, the file | button, modal, write; consent, write, clear | written beside a daemon that reads and writes the same rows | a renewal takes |
| commands | none | 11 `\|` commands | run outside the thread's lock | what they say is what happened |
| roles, config, mrkdwn | constants | pure | | |
| provisioning, systemd | host | scripts | | |

How they interact: `app.py` registers a run with the gate, then calls the
bridge, which forwards the gate's and the proxy's listeners into the VM. The
hook in the VM posts to the gate with the run's token and blocks on the answer;
the MCP relay connects to the proxy with the same token. Slack events, button
presses and commands each start a coroutine of their own. All of them share the
store.

## Modules

| module | models | role |
|---|---|---|
| `ToolGate` | what the gate promises the agent | abstract specification |
| `ApprovalGate` | `approvals.py`, `roles.py`, the approvals, grants and approvers tables, the asking half of the hook, `\|pending`, `\|revoke`, `\|approvers` | detailed specification, implements `ToolGate` |
| `ThreadTurns` | `_on_message` and the turn up to the run in `app.py`, `transcript.py`, `\|pause`, `\|silent`, `\|resume`, the thread tables | one thread: which messages reach the agent |
| `RunLife` | the rest of a turn in `app.py`, `bridge.py`, `vmctl.py`, `render.py`, the session columns | the life of a run: VM, token, ports, ssh, session, Slack message |
| `ToolProxy` | what the proxy promises the guest and the server behind it | abstract specification |
| `McpSession` | `_handle`, `_handshake`, `_Session` and the two upstreams in `mcpproxy.py`, `decide` and `available_for` in `mcpconfig.py`, the MCP policy, cache and audit tables, `\|mcp allow`, `deny`, `forget`, `enable`, `disable` | detailed specification of the connections of one MCP server, implements `ToolProxy` |
| `McpRegistry` | `Registry` and the parser in `mcpconfig.py` | the file and the daemon's copy of it, extended by `McpCredentials` |
| `McpCredentials` | `OAuth` in `mcpproxy.py`, `mcp_login.py`, `authorise-mcp-oauth.py`, the token and header rows, `\|mcp login` and `logout` | the credential of one MCP server |
| `CallMatching` | `grants.py`, the rules of `approve.py` | pure operators, extended by `CallPolicy` |
| `CallPolicy` | `\|auth`, the policy of a run, the hook's `main` before it asks, grants that presses leave | a history of calls |
| `MCApprovalGate`, `MCThreadTurns`, `MCRunLife`, `MCMcpSession`, `MCMcpCredentials`, `MCCallPolicy` | | instances for TLC |
| `ApprovalGateProofs`, `ThreadTurnsProofs`, `RunLifeProofs`, `McpSessionProofs`, `McpListingProofs`, `McpCredentialsProofs`, `CallMatchingProofs`, `CallPolicyProofs` | | theorems |

Where they meet: a turn of `ThreadTurns` that starts its run is a turn of
`RunLife` that enters with the thread's lock held. The token that `RunLife`
registers is what lets a request into `ApprovalGate` and a relay into
`McpSession`, whose `live` and `RunEnds` are its registration and its end.
`Needs` and the cover of a call in `ApprovalGate` stand for `Suggest` and
`CoveredBy` of `CallMatching`.

### ApprovalGate

State follows the code: `runs`, `waiters`, `hints`, `ids` and `fut` are the
service's dictionaries and futures; `row`, `by` and `ts` are the columns of an
approvals row; `grants` and `approvers` are the tables; `buttons` is what Slack
shows. `pc`, `press` and `repost` say at which await each coroutine is
suspended. Code between two awaits is one action. A store call made with
`asyncio.to_thread` is an action of its own, taken at the moment it holds the
store's lock, so anything the loop can do while the call is on its way is
interleaved before or after it.

* A tool call is `Call`; the patterns that cover it, and that *Always allow*
  proposes, are the constant `Needs`. A grant row remembers the press that
  created it, a resolved row the press that resolved it; the code stores the
  person.
* `WindowCloses` needs no clock: the timer may fire at any time while the
  handler waits, also with the verdict already set, which `asyncio.wait_for`
  allows since Python 3.12 when both happen in one turn of the loop.
* A post that raises may or may not have reached Slack. A failing `chat_update`
  leaves the buttons.
* `Repost` may happen once per approval. Its own failure ends the command.
* A kill (`Crash`) forgets everything but the database and Slack. The restart
  is the same step, since nothing in the gate acts in between.
* `seated` and `steady` are history variables: whose user was a decider at some
  time, or all the time, since the press was made.
* Not modelled: sqlite errors, a request whose body is not JSON, and a press
  with an unknown approval id.

### ThreadTurns

A message is its timestamp, the position in `thread`. `pc[m]` is where its
handler stands, `queue` the `asyncio.Lock` of the thread, `mode`, `owned` and
`mark` the store's columns, `since` and `quoted` the locals of a turn. `seen`,
`hushed`, `hidden`, `swallowed` and `buried` are history variables about what
the agent was shown and what a mode kept from it.

* Events reach the daemon in the order of posting; from there their handlers
  interleave freely. What is posted while the daemon is down is not delivered
  later, but `conversations.replies` still returns it.
* `tidy` marks the behaviours in which handlers get past their first reads in
  that order. The code does not guarantee it: each event has a task and each
  read a worker thread. The promises about a pause depend on it and say so;
  everything else is checked and proved for all behaviours.
* A fetch that fails, pages that cannot be reached and a missing `auth.test`
  all come to the same: no transcript.
* Refusals (a DM by somebody else, a person not on the allowlist) post a
  message and change nothing, and are left out. So are the daemon's own
  messages, which are never quoted, and an event Slack delivers twice.

### RunLife

`pc[r]` is where the turn stands in `_run_turn_inner`, `gen[r]` where the async
generator `Bridge.run` stands that it consumes, `cli[r]` the CLI behind its ssh
and `events[r]` the stream it has not read yet. `free`, `freeMcp`, `port` and
`mcpPort` are the two `PortPool`s and the ports a run holds, `turns` the
store's column, `disk` the sessions in the guest. `text`, `dirty`, `posted` and
`shown` are the renderer's; prose is counted in pieces.

* The generator is a process of its own because the code makes it one. A turn
  whose body raises while it iterates leaves the generator open; the event loop
  closes it later, and ports and ssh stay taken in between.
* The domain changes by itself, in any direction: the guest boots, shuts down or
  is paused. Two turns that find it down race for `virsh start`; `beaten` holds
  those that chose a verb before another turn brought the domain up.
* What may fail is the constant `Unlucky`: every Slack call, `virsh`, a read of
  the settings, the spawning of ssh, the write of the session mark. A restart of
  the daemon forgets turns, tokens and pools, and ssh ends with it.
* `lost`, `torn`, `refused` and the place `crashed` name what the code does
  lose; the properties allow these losses and no others.

### McpSession

A connection is one relay of one run, a request its number on it. `pending` is
`_pending` with the state of the entry's watchdog, `seen` is `_tools_seen`,
`cache` the row of `mcp_tool_cache`, `audit` the rows of `mcp_calls`, `at` and
`replies` the two ends of the upstream. A pattern is the set of the tools it
matches, a catalogue the pages the upstream offers.

* Over HTTP a send lasts until its POST is done, so the next line of the guest
  is only read then (`Reads`). Over stdio both directions are free.
* `PostQuiet` ends a POST without an answer; `PostBreaks` is the event stream
  that breaks after it carried the answer, for which `send` queues a second
  reply. `broken` remembers it.
* The guest lists one page at a time, as the protocol has it. `listing` is what
  it heard and the cursor it holds. `late` remembers a list that came after the
  cache had been served in its place.
* Two writes may fail and are swallowed: an audit row (`Audit`, after which the
  call goes on; `unwritten` remembers it) and the cache (`SaveTools`).
* What is denied comes from three places: the file for everyone (`Deny`), the
  caller's own entry in it (`UserDeny`), and the `|mcp` rules, for everyone or
  for the caller. `DeniedTo` has them all.
* `ToolProxy` is what the two sides may rely on: a connection keeps the tools it
  opened with, a request is passed on or refused and never both, a call by those
  tools and by the cap, and what was passed on is answered once, with permitted
  tools in it, except after a stream that broke.
* Several connections of one server share the cache, the rules and the enabled
  flag: the module and its theorems have any number, the run has one. What is
  external, the guest and the upstream, does what the code copes with.

### McpRegistry and McpCredentials

The file is there or not, is private or not, has a text and an `st_mtime`;
`served` and `known` are the registry's copy and the mtime it came from. A file
of several servers parses or is refused as a whole, so one server stands for
all. `Raises` has the documents that end in an exception the `except` does not
name: there is no look then, whoever wanted one (`Attach`, the login, `|mcp`) does
nothing, and the next look raises again. An http server has a url, which may be
the empty string. A grant is numbered and so are the answers of the token endpoint for it; a
token is the pair. The authorisation server keeps refresh tokens, rotates them,
or ends the grant when an old one comes back.

* `using[c]` is the token a connection presents, or refreshes with, read before
  the await; the row is written after it. Each connection has a lock of its own,
  as in the code, and it is not in the model because it excludes nobody else.
* `Authorise` runs in another process: consent, the file, then the rows.
  Everything else may happen in between.
* `torn`, `reused`, `raced` and `skipped` name what may cost a grant or a
  reload: an answer that was lost before it was saved, a server that punishes
  reuse, a connection or login open across the renewal, a `chmod` or a failed
  read that the mtime does not show.

### CallMatching and CallPolicy

A Bash command is the sequence of its pieces: a blank, an operator, a quotation
mark or another character that ends a name is a piece, and so is each name between
two of them. So `ls; sudo`, `ls;sudo` and `ls  ;sudo` are three sequences, and
`split()`, `strip` and `startswith` are what they are in the code: `Split` cuts at
white space, or at what the hook ends a command with; `Trim` takes off the ends;
`Program`, `Stripped` and `Heads` are made of them. What is glued together stays one
word of the hook's. Pieces matter by the sets they are in: interpreters and
destructive commands, names with a slash, redirections, commands the hook asks
about. A newline is white space that ends a command for the hook and counts among
the sequences grants never summarise.

A path is two things. To Bash rules it is its text, which `Written` puts on one of
the lists of `_paths_outside_workspace`, `..` and links and all: `/work/../x` is
written inside. To `inside_workspace` it is the sequence of its components, which
`RealPath` resolves. To a grant of another tool than Bash it is a prefix, and the
pattern's last component may be continued as `_matches_one` has it, by a slash, a
space or a question mark, or by anything after a `/` or `:` (`Longer`, `Continues`).

`CallPolicy` makes a history of it: calls one at a time, presses, `|auth` during a
run, `|revoke`. The interleaving of presses is `ApprovalGate`.

## Runs

| run | question | bounds | result |
|---|---|---|---|
| `gate_races` | safety of one approval with every race | 1 call, 2 presses, a decider and a stranger, failing Slack, 1 repost | holds, 3.9 M states |
| `gate_grants` | `ToolGate` is implemented; deciders are heard | 2 calls in 2 runs needing one grant, 1 press, operator, a seeded and a runtime approver, kills | holds, 1.6 M states |
| `gate_live` | a decision wakes the request; every request ends | 1 call needing 2 grants, 2 presses, failing Slack, kills | holds |
| `gate_late_click` | a click racing the timeout is a no-op | 1 call, 1 press | violated |
| `turns` | what is quoted, seen and locked | 5 messages, transcript of 2, 3 handlers at once, failing fetch, placeholder and VM, kill and restart | holds, 0.7 M states |
| `turns_pause_backfill` | a pause is never quoted | 5 messages | violated |
| `turns_pause_queue` | a paused thread starts no turn | 3 messages | violated |
| `turns_quiet_loss` | mention-only mode loses nothing | 6 messages | violated |
| `run_life` | ports, tokens, sessions and answers of runs that fail anywhere | 2 runs in one thread or two, with MCP; pools of (1,1), (2,1) and (2,2); one run that may fail and says a piece of text or the marker; restart | holds, 2.8 M states |
| `mcp_session` | `ToolProxy` is implemented; denies, listings and audit of a connection | 3 requests, 4 tools in 2 or 3 pages, stdio and HTTP, cap of 1 call, one deny of the file for everyone, one for the caller, one of `\|mcp`, each against an allow of the caller's own, 1 operator command, audit and cache writes that fail | holds, 0.7 M states |
| `mcp_credentials` | the file is obeyed, the grant survives, a renewal takes | 2 connections, 3 kinds of authorisation server, 1 refresh of a grant, 2 writes of the file by hand or by the script, files that are good, mistyped, of no use to anybody, or with a limit that is not a number, kills | holds, 4.5 M states |
| `call_policy` | what runs without a button | 19 command lines of one to three commands with quotations, redirections, a newline, a single `&`, odd spaces, names glued to operators and paths with `..`; 5 paths, among them a link, a neighbour and one that goes up; 2 presses of *Always allow*, 1 grant revoked | holds, 0.6 M states |

Why the bounds are enough to see the cases. The races in the gate are pairwise
(press against press, press against timer, press against the end of the run,
each against a grant another call finds), so one approval with two presses, or
two calls with one, contains each of them; a third press only meets a row that
is already resolved. Two patterns make a grant set that is half there. In a
thread the interesting message comes after a mode change that follows a mention
and before another mention, which five messages contain in every order the
definition `ModesInTheMiddle` lists; two quoted messages are enough to cut a
window. Two runs meet at a pool, at the domain or in a thread, and the pool
sizes are the least that show a run waiting for neither port, for the first or
for the second. Two listings of up to three pages are the least in which a page
of the first comes late into the second, and a call before and after a listing
sees the policy both ways. Two connections and one refresh each are a reuse of
a rotated token. Lines of two commands are the least a grant for each command
can be put together from. Safety of the last four systems does not rest on these
bounds where it is proved. Deadlock is not checked: calls, presses, messages,
runs and requests are finite, so every behaviour ends.

The presses are symmetric in `gate_races` and the connections in
`mcp_credentials`, which check no liveness.

Fairness. `ApprovalGate!Fairness` says that the loop keeps running and that
threads and Slack calls return, with a result or an exception. It asks nobody
to press a button, runs no timer, and expects nothing of the end of a run or of
stamping a message. `EveryRequestEnds` adds the timer as its hypothesis, which
is what `wait_for` provides. `ThreadTurns!FairSpec` says the loop keeps serving
handlers as long as one can move; that a run ends is the CLI's exit or ssh's
`ServerAliveInterval`. The daemon need not be restarted. `McpSession!FairSpec`
is weak fairness of the watchdog alone, which `asyncio.sleep` justifies: a
listing is answered although nothing else is assumed to move.

### The disagreements found

By runs that show them:

* `gate_late_click`: `wait_for` expires, a press claims the row before the
  handler's own `resolve_approval("timeout")`, whose result is ignored. The
  thread says *Approved by*, the agent was denied. `store.py` promises a no-op.
* `turns_pause_backfill`: `|silent` typed in a paused thread lifts the pause and
  leaves the watermark, so the next mention quotes the paused window. The README
  and `transcript.py` say never. `|resume` does move it, and
  `ResumeClosesTheWindow` holds and is proved. The same happens by another way:
  a pause in a thread that has no row yet, where the mark of `|resume` finds
  nothing to update.
* `turns_pause_queue`: a message that passed the mode check and waits for the
  lock starts its turn after `|pause`.
* `turns_quiet_loss`: an untagged reply after `|resume` moves the watermark over
  the messages mention-only mode had hidden, without showing them.

By the exceptions that properties had to name; without them the runs fail:

* `AnswerAgain` of `ToolProxy`, `broken`: after a stream that broke behind its
  answer `send` queues an error for the same id (`mcpproxy.py:474`), the second reply that the comment
  on `_upstream_to_guest` rules out.
* `ListingIsWhole`, `late`: with three pages or more a late first page starts
  `_tools_seen` over in the middle of a newer listing, and a later page may then
  cache a short list (`mcpproxy.py:993`).
* `AuditedOnce`: a forwarded call that is never answered leaves no row, where
  `store.py:730` says "Every attempt, not only the successful ones" and
  `store.py:89` "One row per tool call the guest attempted". The property says
  nothing of such calls, neither that they have a row nor that they have none. Nor
  of a row that could not be written, which is logged (`mcpproxy.py:1130`).
* `DenyWins`: "a per-user row wins over it", says `store.py:143` of the rules for
  everyone. `decide` (`mcpconfig.py:138`) looks at every deny first, so an allow for
  the caller does not win over a deny for everyone. The property is that of the
  code, and its mutant is the rule of the comment.
* `FileIsObeyed`, `skipped`: a file refused for its mode is remembered by its
  mtime, which `chmod` does not change; a failed read likewise
  (`mcpconfig.py:387`).
* `GrantIsKept`, `torn` and `raced`; `RenewalTakes`, `raced`: a daemon that
  refreshes while the script renews saves the old grant over the cleared row.
* `PortsAreWhole`, `lost`: the approval port is taken before the `try` that gives
  it back, so an empty MCP pool costs one port per run (`bridge.py:109`).
* `TokenFollowsRun`, `crashed`: a read that raises between `register_run` and the
  `try` leaves the token valid and the placeholder posted (`app.py:441`).
* `SessionIsKnown`, `torn`: a kill, or a failing write, between the CLI's `init`
  and `mark_session_created` leaves a thread that tries `--session-id` for ever
  (`app.py:474`).
* `GivenUpMeansDown`, `beaten`: of two turns that start the VM the second is
  refused, and gives up on a domain that runs (`vmctl.py:46`).
* `AnswerIsShown`, `refused`: nothing flushes again after the end of a turn, so
  two refusals in a row cost the answer (`render.py:158`).
* `SameCallIsCovered`: a pattern is put together with single spaces and does not
  match the call it was made for when that has two; a phrase the hook asks about
  likewise.
* `OrdinaryWorkOnly`, `Glued`: `approve.py:90` says "Matched as whole words anywhere
  in the command", and the header of `tests/test_bash_policy.py` "every ambiguous case
  below is expected to ASK". Words are what `split()` leaves, so `ls;sudo id` is not
  asked about (`approve.py:183`).
* `OrdinaryWorkOnly`, `Outside`: a path is compared as it is written, so
  `rm /home/agent/work/../x`, a link, a relative path and `x>/home/agent/y` are not
  outside (`approve.py:167`).
* `OrdinaryWorkOnly`, `Backgrounds`: the hook does not end a command at a single `&`,
  where `grants.py` does.
* `WritesStayPut`, `Beside` and `Winds`: a grant of `/home/agent/notes` covers
  `/home/agent/notes evil.md`, and `..` or a link after the pressed path leads out of
  it, since a grant of a tool other than Bash is matched by its text
  (`grants.py:239`).

By a definition that had to follow the code:

* `LookRaises`: "A broken file keeps the last good copy", says the comment of
  `Registry` (`mcpconfig.py:345`). A limit that is not a number (`ValueError`, 324),
  users that are no object (`AttributeError`, 280) and bytes that are not UTF-8
  escape the `except` at 406, and the mtime is not kept: the copy stays, and every
  look raises until the file is written again.

## What is proved

Every safety property that a passing run checks is also a theorem, for all values
of the constants that satisfy the module's assumption.

**ApprovalGate**, for any sets of runs, calls, presses, people and patterns, and
with or without failing Slack calls, kills and reposts, from `GateAssumption`
(the constants are of their kinds and there is a call):

* `TypeCorrect`, `AllowedOnlyByDecision`, `GrantsAreDecided`, `ResolvedStays`,
  `RequestsCleanUp`, `DecidersAreHeard`, `SomebodyCanAnswer`.
* `GateImplements`: `Spec => ImplementsToolGate`. The mapping takes the hook's
  answer to `verdict`, and the calls with a winning press or a found cover to
  `warranted`. Initial states map to initial states; `Claim` and `FindGrant`
  map to `Warrant` or a stutter; the hook's actions to `Ask`, `Allow`, `Deny`.

`AllowedMeansDecided` is about the hook only and is not inductive: the answer
came from a response, that from a future or a list of grants, the future from a
button handler four awaits after it checked the person. `GateInv` follows the
chain: what stands behind an allow at each place (`AllowIsWarranted`), that a
handler opens and answers once (`HandlerInOrder`), that a press past the check
belongs to a decider and past the claim owns the row (`PressInOrder`), that
grants and rows were decided. The lemma `NextIsPermanent` carries it: no step
rewrites a resolved row or an earlier press, so whatever was won, minted or
found stays so, also when the grant is revoked or the approver removed.
`SteadyInv` and `ButtonsInv` strengthen the two properties that need more:
buttons go away only after the row is resolved.

**ThreadTurns**, for any number of messages, any mix of what they may be, any
transcript length, from `TurnsAssumption`: `TurnsTypeCorrect`,
`NothingReplayed`, `TranscriptIsOlderTalk`, `TurnsAreSerial`,
`BuriedStaysUnseen`. `NoReplay` needs `Shown`: everything shown is at or below
the watermark, and between a turn's read of the watermark and its run nobody
else shows anything, because the turn holds the lock (`Locked`).
`ResumeClosesTheWindow` needs the order of events as well (`Ordered`,
`PauseInOrder`): a turn still in flight is older than whatever the pause
swallowed, so its transcript cannot reach it.

**RunLife**, for any finite set of runs, any pools and any number of pieces of
text, from `RunAssumption`: `TypeCorrect`, `PortsWhole`, `TunnelOwned`,
`TokenMatches`, `SessionKnown`, `AnswerShown`, `SilenceKept`, `GivesUpWhenDown`.
`LifeInv` ties each piece of state to the place of the turn: the generator
(`GenFits`; ssh lives only between its start and the kill in its `finally`), the
ports it holds (`PortFits`), the token, the verb chosen for the domain, and the
message (`ShownFits`; what is not dirty is shown, what is dirty after the last
flush was refused). `Apart` says no port is in two places, and `Whole` counts
them; that one needs `IsFiniteSet(Run)` and cardinalities.

**McpSession**, for any connections that share the cache and the rules, any
tools, patterns and rules, any cap and any number of requests, from
`SessionAssumption` (a catalogue has at least one page): `TypeCorrect`,
`DenyObeyed` (the denies of the file too, for any file), `ShownCallable`, `Audited`,
`ProxyImplements`, and `AnsweredOnce`
and `CapKept`, whose properties (`OneReply`, `CapHolds`) no run checks, since
`ToolProxy` promises them. `OneReply` is not inductive, because a reply may still be
queued when the watchdog answers; `OnItsWay` says that what is at the upstream or
in the queue of an unbroken request is there once, and has not been answered
unless the watchdog has marked it. `CallsPend` and `Recorded` tie the audit row to the
reply, a row that was not written apart, `RowsAreTrue` what it says to what was
forwarded, and `ByPolicy`
everything shown, forwarded or denied to the copy of the rules that the session
took, and never to the rules of the moment. Nothing one connection does touches
another's invariant (`OthersSame`).

`ProxyImplements` is `Spec => ImplementsToolProxy`. The mapping takes what the
rules of the moment deny, the place of the connection, the tools that the
session's own copy permits, the calls asked for and the requests sent upstream
to the variables of `ToolProxy`. It needs one more part, `ProxyFits`: what is
pending, upstream, queued or broken was sent upstream, and as many calls were
sent as were counted, up to the cap. Then `OpenSession` maps to `Open`, what ends
a connection to `Close`, reading a request to `Pass` or `Refuse`, a reply or a
watchdog to `Answer`, `AnswerAgain` or nothing, and a rule of the operator to
`Rule`, which leaves open connections their tools.

`McpListingProofs!ListedWhole` adds the cache, which they do share. `WholeInv`
says that the guest waits for one page at a time (`OneListing`), that
`_tools_seen` has every page up to the one it is at (`Gathered`, while no list
came late; `FirstPage`, always, which is why two pages are safe), that the guest
has heard them (`Heard`), and that the cache has every page or none.

**McpCredentials**, for any documents, connections, refreshes and grants, from
`RegistryAssumption` and `CredentialAssumption` (there is a grant to number, and
`None` is no row): `TypeCorrect`, `FileObeyed`, `GrantKept`, `RenewalTaken`, and
`UsableServed`, which no run checks. `GrantIsKept` looks at the row only;
`LatestIsHeld` follows the latest refresh token from the server's answer through
the connection that holds it into the row, and `OneGrant`, `NewGrant` and
`OwnGrant` say that before and after the renewal all that is in use is of one
grant.

**CallMatching**, for lines and paths of any length over any words, from
`MatchingAssumption` (the sets of words that the code keeps apart are apart, and
a link leads to a path with no link in it). `split_segments` is a loop over a line,
`Scan` the function that has its state after each piece. `SegmentsAreCommands` and
`SegmentsDropNothing` say what comes out: commands that stand in the line as they
are, and no name lost. From these: `SuggestionCovers`, that `covered_by` accepts what
`suggest` proposed for the same call, when its words are a space apart;
`HookSeesCommands`, that the hook, which splits a line in its own way, sees the
program of every command, when no single `&` is in the line; `NoReasonMeansOrdinary`,
that what it has no reason to ask about holds, command by command, no name that asks
unless it is glued to another, no phrase that asks, and no mutator with a path written
outside; `PathsAreResolved`, that what is compared with the workspace by
`inside_workspace` has neither `..` nor link in it; and `PlainTailsStay`, that a path
below another leads below it when neither comes after.

The invariant of the loop says where what is at hand and what was cut off stand in the
line read so far, and that every name read is in one of them. The library's induction
theorems take an operator, which the provers cannot instantiate, but a set of
positions is a first-order object: `Least` finds its least element by the
well-foundedness of strict inclusion on the finite sets `0..n`, `Induction` follows,
and `Recursion` builds from it the function that a recursive definition names, so that
`ScanIs` and `ResolveIs` can unfold it.

**CallPolicy**, for any calls and any vocabulary, from `PolicyAssumption` (a call
has a tool and a subject, which is a sequence of words, not empty, or `NoText`)
besides: `TypeCorrect`, `WritesContained`, `PressSettles`, `NothingNew`,
`OrdinaryWork`. The policy of a run is kept from its start (`PolicyIsKept`), every
grant was suggested for a call that was pressed (`Minted`), and what was suggested
for a pressed call is granted unless it was revoked (`StillGranted`). So a path that a
grant covers lies below one that was shown on a button or beside it, a command that
grants cover is the same program as one that was, and the hook's own verdict is
`NoReasonMeansOrdinary` under the policy the run started with.

Only model-checked, because ENABLED and fairness are out of the prover's reach:
the liveness properties `DecisionWakesTheRequest`, `EveryRequestEnds`,
`EveryoneGetsTheLock` and `ListIsAnswered`.

## Not modelled

* An event that Slack delivers twice (`app.py:181`): the daemon keeps nothing by
  which to tell it, so a second delivery is a second message.
* The migrations of an older database. `executescript` commits each statement, so
  a kill between two of them can make every later start fail or lose the grants
  (`store.py:309`); they run once, before anything else.
* Paging of `conversations.replies` and its budget appear as a fetch that fails.
  The split of a long answer over several Slack messages is left out.
* `|mcp tools` may probe a server of its own accord, which fills the cache as a
  listing does. The probe takes the first message for its answer
  (`mcpproxy.py:661`).
* The trust of the egress proxy and the bytes of the line protocol.
* `|grants`, `|help`, `|status` and the listings of `|mcp` only print. Dispatch is
  argparse and the operator check.
* Prompt assembly, `mrkdwn.py`, `config.py`: text and constants.
* The lists of the hook and of `grants.py` are sets of names: which names they have,
  and capital letters, which the hook folds for two of its checks and not for the
  others, are not examined. What a path in the middle of a word would do is not
  either: the hook does not see it.
* Several MCP servers in one file: they are parsed or refused together.
* The job files of `agent-exec`, which stay in `/tmp` because `exec` replaces the
  shell that has the trap (`agent-exec:178`), `mcp-relay`, the provisioning
  scripts and the units. systemd's restart is the restart in the modules.

What could be added: the life of a thread over restarts as a composition of
`ThreadTurns` and `RunLife`, and `ApprovalGate` over `CallMatching` in place of
its constant `Needs`. Both multiply state spaces that are checked apart now; the
interfaces named under *Modules* are where they would meet.

## Checking

    tlc -workers 2 -config GateRaces.cfg MCApprovalGate.tla
    tlc -workers 2 -config Turns.cfg MCThreadTurns.tla
    tlc -workers 2 -config RunLife.cfg MCRunLife.tla
    tlc -workers 2 -config McpSession.cfg MCMcpSession.tla
    tlc -workers 2 -config McpCredentials.cfg MCMcpCredentials.tla
    tlc -workers 2 -config CallPolicy.cfg MCCallPolicy.tla
    tlapm RunLifeProofs.tla

and so on for the other configurations and proof modules.

Definitions named with a comment "Mutant:" are plausible bugs of the definition
that follows them. No specification uses them; `PROJECT.json` names for each
property one that TLC finds it violated under.
