------------------------------- MODULE RunLife -------------------------------
(***************************************************************************)
(* The life of a run: the VM it needs, its token, its two tunnel ports,    *)
(* the ssh process and the CLI at its end, the session id it starts or     *)
(* resumes, and the Slack message it writes.                               *)
(* slackagent/app.py (the second half of a turn), bridge.py, vmctl.py,     *)
(* render.py, and the session columns of store.py.                         *)
(*                                                                         *)
(* The turn consumes bridge.run, an async generator.  gen is where that    *)
(* generator stands: a turn whose body raises leaves it to be closed by    *)
(* the event loop, later and on its own.                                   *)
(***************************************************************************)
EXTENDS Naturals, Sequences, FiniteSets

CONSTANTS Run, Thread,
          Meetings,      \* which runs share a thread: the cases considered
          UsesMcp,       \* runs with MCP servers, hence a second forward
          Unaddressed,   \* runs whose message may not be for the bot: no placeholder then
          Sizes,         \* configured sizes of the two port pools: approvals, MCP
          MaxProse,      \* bound: pieces of text, or markers, each run says
          Unlucky,       \* runs whose calls of Slack, virsh, the store and ssh may fail
          MayCrash       \* the daemon may restart

ASSUME RunAssumption ==
  /\ Meetings \subseteq [Run -> Thread]
  /\ UsesMcp \subseteq Run /\ Unaddressed \subseteq Run /\ Unlucky \subseteq Run
  /\ Sizes \subseteq Nat \X Nat /\ MaxProse \in [Run -> Nat]
  /\ IsFiniteSet(Run)
  /\ MayCrash \in BOOLEAN

VARIABLES
  vm,          \* the domain, and whether its sshd answers yet
  pc,          \* where the turn stands
  beaten,      \* the domain was brought up by another turn after this one read its state
  tokens,      \* runs whose token is registered
  size,        \* the sizes of the pools
  free,        \* PortPool._free of the approval pool, in order
  freeMcp,     \* ... and of the MCP pool
  port,        \* the approval port a run holds, 0 for none
  mcpPort,     \* the MCP port it holds
  lost,        \* ports that were taken and not given back
  gen,         \* where bridge.run stands
  cli,         \* the CLI behind the ssh of a run
  events,      \* stream-json events not yet read
  thread,      \* the thread of a run
  resume,      \* the run was started with --resume
  turns,       \* threads.turns
  disk,        \* the session of a thread exists in the guest
  torn,        \* history: a session's init never got to the store
  text,        \* what the renderer has to say: pieces of prose, and the marker
  dirty,       \* SlackRenderer._dirty
  posted,      \* the renderer has a message in Slack
  shown,       \* the pieces of prose it shows
  refused      \* Slack calls refused since the last that went through: 0, 1, more

ports    == <<size, free, freeMcp, port, mcpPort, lost>>
process  == <<gen, cli, events>>
session  == <<thread, resume, turns, disk, torn>>
renderer == <<text, dirty, posted, shown, refused>>
vars == <<vm, pc, beaten, tokens, ports, process, session, renderer>>

InTurn == {"checking", "starting", "virsh start", "virsh resume", "sleeping", "registering",
           "reading", "spawning", "running", "marking",
           "raised", "failing", "finishing"}
Over == {"done", "given up", "crashed", "killed"}

TypeOK ==
  /\ vm \in {"off", "paused", "booting", "up"}
  /\ pc \in [Run -> {"new"} \cup InTurn \cup Over]
  /\ beaten \subseteq Run /\ tokens \subseteq Run
  /\ size \in Sizes
  /\ free \in Seq(1..size[1]) /\ freeMcp \in Seq(1..size[2])
  /\ port \in [Run -> 0..size[1]] /\ mcpPort \in [Run -> 0..size[2]]
  /\ lost \subseteq 1..size[1]
  /\ gen \in [Run -> {"none", "open", "closing", "releasing", "closed"}]
  /\ cli \in [Run -> {"none", "connecting", "talking", "told", "ended", "failed"}]
  /\ events \in [Run -> Seq({"init", "prose", "marker", "result"})]
  /\ thread \in [Run -> Thread] /\ resume \in [Run -> BOOLEAN]
  /\ turns \in [Thread -> Nat] /\ disk \subseteq Thread /\ torn \subseteq Thread
  /\ text \in [Run -> [prose : Nat, marker : BOOLEAN]]
  /\ dirty \in [Run -> BOOLEAN] /\ posted \in [Run -> BOOLEAN]
  /\ shown \in [Run -> Nat] /\ refused \in [Run -> 0..2]

Nothing == [prose |-> 0, marker |-> FALSE]

\* list(range(low, high + 1))
Pool(n) == [i \in 1..n |-> i]

Init ==
  /\ vm \in {"off", "up"}
  /\ pc = [r \in Run |-> "new"] /\ beaten = {} /\ tokens = {}
  /\ size \in Sizes
  /\ free = Pool(size[1]) /\ freeMcp = Pool(size[2])
  /\ port = [r \in Run |-> 0] /\ mcpPort = [r \in Run |-> 0] /\ lost = {}
  /\ gen = [r \in Run |-> "none"] /\ cli = [r \in Run |-> "none"]
  /\ events = [r \in Run |-> <<>>]
  /\ thread \in Meetings /\ resume = [r \in Run |-> FALSE]
  /\ turns = [t \in Thread |-> 0] /\ disk = {} /\ torn = {}
  /\ text = [r \in Run |-> Nothing]
  /\ dirty = [r \in Run |-> FALSE] /\ posted = [r \in Run |-> FALSE]
  /\ shown = [r \in Run |-> 0] /\ refused = [r \in Run |-> 0]

Go(r, from, to) == pc[r] = from /\ pc' = [pc EXCEPT ![r] = to]
Gen(r, from, to) == gen[r] = from /\ gen' = [gen EXCEPT ![r] = to]

-----------------------------------------------------------------------------
(* The renderer.                                                           *)

\* _staying_silent: the marker, and nothing besides.
Silent(t) == t.marker /\ t.prose = 0

\* One, or more than one.
Another(n) == IF n = 0 THEN 1 ELSE 2

\* Mutant: a message that is out already is not taken back.
RetractNothing(r, t) ==
  /\ text' = [text EXCEPT ![r] = t] /\ dirty' = [dirty EXCEPT ![r] = FALSE]
  /\ UNCHANGED <<posted, shown, refused>>

\* _retract: nothing more to say, and the placeholder is deleted; one attempt.
Retract(r, t) ==
  /\ text' = [text EXCEPT ![r] = t] /\ dirty' = [dirty EXCEPT ![r] = FALSE]
  /\ IF ~ posted[r] THEN UNCHANGED <<posted, shown, refused>>
     ELSE \/ /\ posted' = [posted EXCEPT ![r] = FALSE]
             /\ UNCHANGED <<shown, refused>>
          \/ /\ r \in Unlucky /\ refused' = [refused EXCEPT ![r] = Another(@)]
             /\ UNCHANGED <<posted, shown>>

\* The text stays as it was shown, to be shown by the next flush.
Unsent(r, t) ==
  /\ text' = [text EXCEPT ![r] = t] /\ dirty' = [dirty EXCEPT ![r] = TRUE]
  /\ UNCHANGED <<posted, shown>>

\* Mutant: a refused update counts as sent.
GiveUpUpdate(r, t) ==
  /\ text' = [text EXCEPT ![r] = t] /\ dirty' = [dirty EXCEPT ![r] = FALSE]
  /\ UNCHANGED <<posted, shown>>

RefusedUpdate(r, t) == Unsent(r, t)

\* chat_postMessage the first time, chat_update from then on.
Update(r, t) ==
  \/ /\ text' = [text EXCEPT ![r] = t] /\ dirty' = [dirty EXCEPT ![r] = FALSE]
     /\ posted' = [posted EXCEPT ![r] = TRUE]
     /\ shown' = [shown EXCEPT ![r] = t.prose]
     /\ refused' = [refused EXCEPT ![r] = 0]
  \/ /\ r \in Unlucky /\ RefusedUpdate(r, t)
     /\ refused' = [refused EXCEPT ![r] = Another(@)]

\* flush(force=True), with t the text by now: silence, nothing to post yet, or an update.
ForcedFlush(r, t) ==
  IF Silent(t) THEN Retract(r, t)
  ELSE IF ~ posted[r] /\ t.prose = 0
  THEN Unsent(r, t) /\ UNCHANGED refused
  ELSE Update(r, t)

\* One that finds nothing new does nothing.
LastFlush(r) == IF dirty[r] THEN ForcedFlush(r, text[r]) ELSE UNCHANGED renderer

\* handle of an ordinary event: a flush unless one went out a moment ago.
Flush(r, t) == \/ ForcedFlush(r, t)
               \/ Unsent(r, t) /\ UNCHANGED refused

Prose(r) == [text[r] EXCEPT !.prose = @ + 1]

\* fail: a line of text, and a flush.
Fail(r) == ForcedFlush(r, Prose(r))

-----------------------------------------------------------------------------
(* The VM.                                                                 *)

Domstate == IF vm = "booting" THEN "up" ELSE vm

\* The guest comes up, is shut down, or is paused by libvirt.
VmMoves ==
  /\ \/ vm = "booting" /\ vm' = "up"
     \/ vm = "up" /\ vm' \in {"off", "paused"}
  /\ UNCHANGED <<pc, beaten, tokens, ports, process, session, renderer>>

\* The turn holds its thread's lock: session and placeholder.
Enter(r) ==
  /\ \A s \in Run : thread[s] = thread[r] => pc[s] \notin InTurn
  /\ Go(r, "new", "checking")
  /\ resume' = [resume EXCEPT ![r] = turns[thread[r]] > 0]
  /\ \E quiet \in {FALSE, (r \in Unaddressed)} : posted' = [posted EXCEPT ![r] = ~ quiet]
  /\ UNCHANGED <<vm, beaten, tokens, ports, process, thread, turns, disk, torn, text, dirty,
                 shown, refused>>

\* is_running
VmRuns(r) ==
  /\ Domstate = "up" /\ Go(r, "checking", "registering")
  /\ UNCHANGED <<vm, beaten, tokens, ports, process, session, renderer>>

VmIsDown(r) ==
  /\ Domstate # "up" /\ Go(r, "checking", "starting")
  /\ Fail(r)
  /\ UNCHANGED <<vm, beaten, tokens, ports, process, session>>

\* Mutant: start and resume are told apart, running is not.
VerbAlways == IF vm = "paused" THEN "virsh resume" ELSE "virsh start"

\* VmControl.start reads the state again and picks a verb.
Verb == IF Domstate = "up" THEN "sleeping"
        ELSE IF vm = "paused" THEN "virsh resume" ELSE "virsh start"

StartVm(r) ==
  /\ Go(r, "starting", Verb)
  /\ UNCHANGED <<vm, beaten, tokens, ports, process, session, renderer>>

\* Turns that have read the state and go by it.
Choosing == {r \in Run : pc[r] \in {"virsh start", "virsh resume"}}

\* virsh does what it was told if the domain is still in the state for it.
Virsh(r) ==
  /\ \/ vm = "off" /\ Go(r, "virsh start", "sleeping") /\ vm' = "booting"
     \/ vm = "paused" /\ Go(r, "virsh resume", "sleeping") /\ vm' = "up"
  /\ beaten' = (beaten \cup Choosing) \ {r}
  /\ UNCHANGED <<tokens, ports, process, session, renderer>>

VirshFails(r) ==
  /\ \/ (vm # "off" \/ r \in Unlucky) /\ Go(r, "virsh start", "given up")
     \/ (vm # "paused" \/ r \in Unlucky) /\ Go(r, "virsh resume", "given up")
  /\ Fail(r)
  /\ beaten' = beaten \ {r}
  /\ UNCHANGED <<vm, tokens, ports, process, session>>

\* Twenty seconds, whatever the guest does in them.
Slept(r) ==
  /\ Go(r, "sleeping", "registering")
  /\ UNCHANGED <<vm, beaten, tokens, ports, process, session, renderer>>

-----------------------------------------------------------------------------
(* Token and ports.                                                        *)

Register(r) ==
  /\ Go(r, "registering", "reading")
  /\ tokens' = tokens \cup {r}
  /\ UNCHANGED <<vm, beaten, ports, process, session, renderer>>

\* The settings or the MCP policy cannot be read: outside the try, the token stays.
ReadRaises(r) ==
  /\ r \in Unlucky /\ Go(r, "reading", "crashed")
  /\ UNCHANGED <<vm, beaten, tokens, ports, process, session, renderer>>

\* PortPool.acquire, for approvals and for MCP: an uncontended lock does not yield, so the
\* settings are read, the ports taken and the process asked for without another task.
TakePorts(r) ==
  /\ Go(r, "reading", "spawning")
  /\ free # <<>> /\ free' = Tail(free) /\ port' = [port EXCEPT ![r] = Head(free)]
  /\ IF r \in UsesMcp
     THEN /\ freeMcp # <<>> /\ freeMcp' = Tail(freeMcp)
          /\ mcpPort' = [mcpPort EXCEPT ![r] = Head(freeMcp)]
     ELSE UNCHANGED <<freeMcp, mcpPort>>
  /\ UNCHANGED <<vm, beaten, tokens, size, lost, process, session, renderer>>

NoPort(r) ==
  /\ free = <<>> /\ Go(r, "reading", "failing")
  /\ UNCHANGED <<vm, beaten, tokens, ports, process, session, renderer>>

\* Mutant: the second acquire is inside the try, whose finally releases both.
NoMcpPortInTry(r) ==
  /\ r \in UsesMcp /\ free # <<>> /\ freeMcp = <<>>
  /\ Go(r, "reading", "raised") /\ Gen(r, "none", "closing")
  /\ free' = Tail(free) /\ port' = [port EXCEPT ![r] = Head(free)]
  /\ UNCHANGED <<vm, beaten, tokens, size, freeMcp, mcpPort, lost, cli, events, session,
                 renderer>>

\* The MCP pool is empty: RuntimeError before the try, and the approval port is gone.
NoMcpPort(r) ==
  /\ r \in UsesMcp /\ free # <<>> /\ freeMcp = <<>>
  /\ Go(r, "reading", "failing")
  /\ free' = Tail(free) /\ lost' = lost \cup {Head(free)}
  /\ UNCHANGED <<vm, beaten, tokens, size, freeMcp, port, mcpPort, process, session, renderer>>

\* ssh is started, and told to start or to resume the session.
Spawn(r) ==
  /\ Go(r, "spawning", "running") /\ Gen(r, "none", "open")
  /\ cli' = [cli EXCEPT ![r] = "connecting"]
  /\ UNCHANGED <<vm, beaten, tokens, ports, events, session, renderer>>

\* It cannot be started: the generator raises, by way of its finally.
SpawnFails(r) ==
  /\ r \in Unlucky /\ Go(r, "spawning", "raised") /\ Gen(r, "none", "closing")
  /\ UNCHANGED <<vm, beaten, tokens, ports, cli, events, session, renderer>>

\* The job cannot be written, or a line of the stream is longer than the limit: so here,
\* with ssh still there.
StreamRaises(r) ==
  /\ r \in Unlucky /\ Go(r, "running", "raised") /\ Gen(r, "open", "closing")
  /\ UNCHANGED <<vm, beaten, tokens, ports, cli, events, session, renderer>>

-----------------------------------------------------------------------------
(* The CLI at the other end.                                               *)

CliUnchanged == UNCHANGED <<vm, pc, beaten, tokens, ports, gen, thread, resume, turns, renderer>>

\* --session-id of a session that exists is refused, --resume needs one that does.
Accepts(r) == resume[r] <=> thread[r] \in disk

\* The session is on disk, and the init event on its way.
CliInit(r) ==
  /\ cli[r] = "connecting" /\ vm = "up" /\ Accepts(r)
  /\ cli' = [cli EXCEPT ![r] = "talking"]
  /\ disk' = disk \cup {thread[r]}
  /\ events' = [events EXCEPT ![r] = <<"init">>]
  /\ CliUnchanged /\ UNCHANGED torn

CliSays(r) ==
  /\ cli[r] = "talking" /\ vm = "up" /\ Len(events[r]) < 2
  /\ \/ /\ text[r].prose < MaxProse[r] /\ ~ text[r].marker
        /\ \E e \in {"prose", "marker"} : events' = [events EXCEPT ![r] = Append(@, e)]
        /\ UNCHANGED cli
     \/ /\ events' = [events EXCEPT ![r] = Append(@, "result")]
        /\ cli' = [cli EXCEPT ![r] = "told"]
  /\ CliUnchanged /\ UNCHANGED <<disk, torn>>

CliExits(r) ==
  /\ cli[r] = "told" /\ cli' = [cli EXCEPT ![r] = "ended"]
  /\ CliUnchanged /\ UNCHANGED <<events, disk, torn>>

InitUnread(r) == events[r] # <<>> /\ Head(events[r]) = "init"

\* A refusal, a lost connection, a dead CLI: what was not read yet is lost.
CliFails(r) ==
  /\ cli[r] \in {"connecting", "talking", "told"}
  /\ cli' = [cli EXCEPT ![r] = "failed"]
  /\ events' = [events EXCEPT ![r] = <<>>]
  /\ torn' = IF InitUnread(r) THEN torn \cup {thread[r]} ELSE torn
  /\ CliUnchanged /\ UNCHANGED disk

-----------------------------------------------------------------------------
(* The turn reads the stream.                                              *)

Reads(r, e) ==
  /\ gen[r] = "open" /\ events[r] # <<>> /\ Head(events[r]) = e
  /\ events' = [events EXCEPT ![r] = Tail(@)]

\* Mutant: the session is marked at the end, if there is one.
ReadInitOnly(r) ==
  /\ pc[r] = "running" /\ Reads(r, "init")
  /\ UNCHANGED <<vm, pc, beaten, tokens, ports, gen, cli, session, renderer>>

ReadInit(r) ==
  /\ Reads(r, "init") /\ Go(r, "running", "marking")
  /\ UNCHANGED <<vm, beaten, tokens, ports, gen, cli, session, renderer>>

\* mark_session_created, from the first init on; then the renderer has a look as well.
MarkCreated(r) ==
  /\ Go(r, "marking", "running")
  /\ turns' = [turns EXCEPT ![thread[r]] = @ + 1]
  /\ LastFlush(r) \/ UNCHANGED renderer
  /\ UNCHANGED <<vm, beaten, tokens, ports, process, thread, resume, disk, torn>>

\* The store raises in the body of the loop: the turn goes on to fail, the generator is
\* left open.
MarkRaises(r) ==
  /\ r \in Unlucky /\ Go(r, "marking", "failing")
  /\ torn' = torn \cup {thread[r]}
  /\ UNCHANGED <<vm, beaten, tokens, ports, process, thread, resume, turns, disk, renderer>>

ReadText(r) ==
  /\ pc[r] = "running"
  /\ \/ Reads(r, "prose") /\ Flush(r, Prose(r))
     \/ Reads(r, "marker") /\ Flush(r, [text[r] EXCEPT !.marker = TRUE])
  /\ UNCHANGED <<vm, pc, beaten, tokens, ports, gen, cli, session>>

\* A result that is an error adds a line of text.
ReadResult(r) ==
  /\ pc[r] = "running" /\ Reads(r, "result")
  /\ Fail(r) \/ ForcedFlush(r, text[r])
  /\ UNCHANGED <<vm, pc, beaten, tokens, ports, gen, cli, session>>

\* End of the stream: the _bridge event, with a line of text for a bad exit.
StreamEnds(r) ==
  /\ pc[r] = "running" /\ events[r] = <<>> /\ cli[r] \in {"ended", "failed"}
  /\ Gen(r, "open", "closing")
  /\ IF cli[r] = "failed" THEN Fail(r) ELSE LastFlush(r)
  /\ UNCHANGED <<vm, pc, beaten, tokens, ports, cli, events, session>>

-----------------------------------------------------------------------------
(* The end of the generator: its finally.                                  *)

\* The event loop closes a generator its turn has dropped.
Abandoned(r) ==
  /\ gen[r] = "open" /\ pc[r] \in {"failing", "finishing", "done"}
  /\ gen' = [gen EXCEPT ![r] = "closing"]
  /\ UNCHANGED <<vm, pc, beaten, tokens, ports, cli, events, session, renderer>>

\* Mutant: the port is given back before ssh is gone.
ReleaseFirst(r) ==
  /\ Gen(r, "closing", "releasing")
  /\ free' = Append(free, port[r])
  /\ UNCHANGED <<vm, pc, beaten, tokens, size, freeMcp, port, mcpPort, lost, cli, events,
                 session, renderer>>

\* process.kill and wait.
KillSsh(r) ==
  /\ Gen(r, "closing", "releasing")
  /\ cli' = [cli EXCEPT ![r] = IF @ \in {"none", "ended"} THEN @ ELSE "failed"]
  /\ events' = [events EXCEPT ![r] = <<>>]
  /\ torn' = IF InitUnread(r) THEN torn \cup {thread[r]} ELSE torn
  /\ UNCHANGED <<vm, pc, beaten, tokens, ports, thread, resume, turns, disk, renderer>>

\* Both ports go to the end of their pools.
ReleasePorts(r) ==
  /\ Gen(r, "releasing", "closed")
  /\ free' = Append(free, port[r])
  /\ port' = [port EXCEPT ![r] = 0]
  /\ freeMcp' = IF r \in UsesMcp THEN Append(freeMcp, mcpPort[r]) ELSE freeMcp
  /\ mcpPort' = [mcpPort EXCEPT ![r] = 0]
  /\ UNCHANGED <<vm, pc, beaten, tokens, size, lost, cli, events, session, renderer>>

-----------------------------------------------------------------------------
(* The end of the turn.                                                    *)

\* The generator is exhausted, or raised.
LoopEnds(r) ==
  /\ gen[r] = "closed"
  /\ Go(r, "running", "finishing") \/ Go(r, "raised", "failing")
  /\ UNCHANGED <<vm, beaten, tokens, ports, process, session, renderer>>

\* Mutant: a failed turn ends without the finally.
ReportAndStop(r) ==
  /\ Go(r, "failing", "done") /\ Fail(r)
  /\ UNCHANGED <<vm, beaten, tokens, ports, process, session>>

\* except Exception: "The run failed."
ReportFailure(r) ==
  /\ Go(r, "failing", "finishing") /\ Fail(r)
  /\ UNCHANGED <<vm, beaten, tokens, ports, process, session>>

\* finally: unregister_run, and a last flush; the lock is released.
Finish(r) ==
  /\ Go(r, "finishing", "done")
  /\ tokens' = tokens \ {r}
  /\ LastFlush(r)
  /\ UNCHANGED <<vm, beaten, ports, process, session>>

-----------------------------------------------------------------------------
\* The daemon dies and starts again: turns, tokens and pools are new; ssh goes with it.
Restart ==
  /\ MayCrash /\ \E r \in Run : pc[r] \in InTurn
  /\ pc' = [r \in Run |-> IF pc[r] \in InTurn THEN "killed" ELSE pc[r]]
  /\ torn' = torn \cup {thread[r] : r \in {s \in Run : InitUnread(s) \/ pc[s] = "marking"}}
  /\ gen' = [r \in Run |-> "none"]
  /\ cli' = [r \in Run |-> IF cli[r] = "none" THEN "none" ELSE "failed"]
  /\ events' = [r \in Run |-> <<>>]
  /\ tokens' = {}
  /\ free' = Pool(size[1]) /\ freeMcp' = Pool(size[2])
  /\ port' = [r \in Run |-> 0] /\ mcpPort' = [r \in Run |-> 0] /\ lost' = {}
  /\ beaten' = {}
  /\ UNCHANGED <<vm, size, thread, resume, turns, disk, renderer>>

Turn(r) ==
  \/ Enter(r) \/ VmRuns(r) \/ VmIsDown(r) \/ StartVm(r) \/ Virsh(r) \/ VirshFails(r)
  \/ Slept(r) \/ Register(r) \/ ReadRaises(r)
  \/ TakePorts(r) \/ NoPort(r) \/ NoMcpPort(r)
  \/ Spawn(r) \/ SpawnFails(r) \/ StreamRaises(r)
  \/ ReadInit(r) \/ MarkCreated(r) \/ MarkRaises(r) \/ ReadText(r) \/ ReadResult(r)
  \/ StreamEnds(r) \/ LoopEnds(r) \/ ReportFailure(r) \/ Finish(r)

Generator(r) == Abandoned(r) \/ KillSsh(r) \/ ReleasePorts(r)

Cli(r) == CliInit(r) \/ CliSays(r) \/ CliExits(r) \/ CliFails(r)

Next == VmMoves \/ Restart \/ \E r \in Run : Turn(r) \/ Generator(r) \/ Cli(r)

Spec == Init /\ [][Next]_vars

-----------------------------------------------------------------------------
(* What makes a run correct.                                               *)

SshAlive(r) == cli[r] \in {"connecting", "talking", "told"}
Holds(r) == {port[r]} \ {0}
FreePorts == {free[i] : i \in 1..Len(free)}

\* Every approval port is free, held by one run, or lost to an empty MCP pool: a pool
\* never hands out a port twice, and only that case makes it smaller.
PortsAreWhole ==
  /\ Len(free) + Cardinality({r \in Run : port[r] # 0}) + Cardinality(lost) = size[1]
  /\ FreePorts \cup lost \cup UNION {Holds(r) : r \in Run} = 1..size[1]

\* "A second concurrent run would ... silently ride the first run's tunnel": the port of
\* an ssh that still lives belongs to no other run and is not in the pool.
TunnelIsItsOwn ==
  \A r \in Run : SshAlive(r) =>
    /\ port[r] # 0 /\ port[r] \notin FreePorts
    /\ \A s \in Run \ {r} : port[s] # port[r]

\* A token is registered exactly while its run may ask: from before ssh starts until the
\* turn ends, whichever way it does; unless the settings could not be read.
TokenFollowsRun ==
  \A r \in Run :
    /\ r \in tokens => pc[r] \in InTurn \cup {"crashed"}
    /\ SshAlive(r) /\ pc[r] \in {"running", "marking"} => r \in tokens

\* "The thread is permanently broken" otherwise: once a session is on disk the store
\* knows, unless its init event was lost on the way or could not be written down.
SessionIsKnown ==
  \A t \in disk \ torn :
    \/ turns[t] > 0
    \/ \E r \in Run : thread[r] = t /\ (InitUnread(r) \/ pc[r] = "marking")

\* A turn gives up on a domain that runs only when another turn brought it up between its
\* look at the state and its virsh.
GivenUpMeansDown ==
  [][\A r \in Run : pc[r] # "given up" /\ pc'[r] = "given up"
       => Domstate # "up" \/ r \in beaten]_vars

\* Slack refusing one call does not cost the answer: what a run said is shown when it is
\* over, unless the last two attempts were refused.
AnswerIsShown ==
  \A r \in Run : pc[r] = "done" /\ text[r].prose > 0
    => (posted[r] /\ shown[r] = text[r].prose) \/ refused[r] = 2

\* An answer that is nothing but the marker leaves nothing in the thread, a placeholder
\* included, unless Slack refused to delete it.
SilenceIsKept ==
  \A r \in Run : pc[r] = "done" /\ Silent(text[r]) => ~ posted[r] \/ refused[r] > 0
==============================================================================
