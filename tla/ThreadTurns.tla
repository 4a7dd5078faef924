----------------------------- MODULE ThreadTurns -----------------------------
(***************************************************************************)
(* One Slack thread: which of its messages reach the agent, and how.       *)
(* slackagent/app.py (_on_message and the first half of the turn),         *)
(* commands/{pause,silent,resume}.py, transcript.py, and the mode and      *)
(* watermark columns of store.py.                                          *)
(*                                                                         *)
(* A message is its Slack timestamp: 1, 2, ... in the order of posting.    *)
(* Every event is handled by a coroutine of its own, so the handlers       *)
(* interleave at their awaits; the per-thread lock orders the turns only.  *)
(***************************************************************************)
EXTENDS Naturals, Sequences, FiniteSets

CONSTANTS N,            \* messages posted in the thread
          MayPost,      \* MayPost[m]: what the m-th message may be
          MaxQuoted,    \* prompt.MAX_MESSAGES
          ColdStart,    \* CATCH_UP_NEW_THREADS
          MaxInFlight,  \* bound: handlers at work when the next message is posted
          MayFail,      \* the Slack fetch, or starting the VM, may fail
          MayCrash      \* the daemon may be down for a while

Msg == 1..N
Post == [kind : {"say", "pause", "silent", "resume"}, tagged : BOOLEAN]

ASSUME TurnsAssumption ==
  /\ {N, MaxQuoted, MaxInFlight} \subseteq Nat \ {0}
  /\ MayPost \in [Msg -> SUBSET Post]
  /\ {ColdStart, MayFail, MayCrash} \subseteq BOOLEAN

VARIABLES
  thread,      \* the messages posted so far, as Slack keeps them
  pc,          \* where the handler of each message stands
  mode,        \* thread_modes.mode
  owned,       \* the threads row exists
  mark,        \* threads.last_seen_ts, 0 for NULL
  queue,       \* the per-thread asyncio.Lock: holder first, then waiters
  since,       \* since_ts of each turn
  quoted,      \* the transcript each turn puts before its message
  seen,        \* history: the messages the agent has been shown
  hushed,      \* history: messages a pause kept from the agent
  hidden,      \* history: messages mention-only mode kept from the agent
  swallowed,   \* history: messages the pause now in force kept from the agent
  buried,      \* history: messages of pauses that |resume lifted in a thread with a session
  up,          \* the daemon runs
  tidy         \* events get past their first reads in the order of posting

turn    == <<since, quoted>>
history == <<seen, hushed, hidden, swallowed, buried>>
store   == <<mode, owned, mark>>
vars == <<thread, pc, store, queue, turn, history, up, tidy>>

InTurn == {"catching", "fetching", "marking", "starting", "running"}
Routing == {"finding", "routing"}
Active == Routing \cup {"sent", "admitted", "queued"} \cup InTurn

TypeOK ==
  /\ thread \in Seq(Post) /\ Len(thread) <= N
  /\ pc \in [Msg -> Active \cup {"unsent", "done", "ignored", "dropped", "lost"}]
  /\ mode \in {"active", "silent", "paused"}
  /\ owned \in BOOLEAN /\ up \in BOOLEAN /\ tidy \in BOOLEAN
  /\ mark \in 0..N
  /\ queue \in Seq(Msg)
  /\ since \in [Msg -> 0..N]
  /\ quoted \in [Msg -> SUBSET Msg]
  /\ seen \subseteq Msg /\ hushed \subseteq Msg /\ hidden \subseteq Msg
  /\ swallowed \subseteq Msg /\ buried \subseteq Msg

Init ==
  /\ thread = <<>>
  /\ pc = [m \in Msg |-> "unsent"]
  /\ mode = "active" /\ owned = FALSE /\ mark = 0
  /\ queue = <<>>
  /\ since = [m \in Msg |-> 0]
  /\ quoted = [m \in Msg |-> {}]
  /\ seen = {} /\ hushed = {} /\ hidden = {} /\ swallowed = {} /\ buried = {}
  /\ up = TRUE /\ tidy \in BOOLEAN

Go(m, from, to) == pc[m] = from /\ pc' = [pc EXCEPT ![m] = to]

-----------------------------------------------------------------------------
(* Slack: people post; what is posted while the daemon is down is not      *)
(* delivered later.                                                        *)

PostMessage(p) ==
  LET m == Len(thread) + 1 IN
  /\ m \in Msg /\ p \in MayPost[m]
  /\ Cardinality({e \in Msg : pc[e] \in Active}) < MaxInFlight
  /\ thread' = Append(thread, p)
  /\ Go(m, "unsent", IF up THEN "sent" ELSE "lost")
  /\ UNCHANGED <<store, queue, turn, history, up, tidy>>

\* An event starts its handler: a reply looks up the thread, a mention need not.
Deliver(m) ==
  /\ \A e \in 1..(m - 1) : pc[e] # "sent" /\ (tidy => pc[e] \notin Routing)
  /\ Go(m, "sent", IF thread[m].tagged THEN "routing" ELSE "finding")
  /\ UNCHANGED <<thread, store, queue, turn, history, up, tidy>>

\* store.find_session: an untagged reply in a thread the bot does not own is ignored.
FindSession(m) ==
  /\ Go(m, "finding", IF owned THEN "routing" ELSE "ignored")
  /\ UNCHANGED <<thread, store, queue, turn, history, up, tidy>>

-----------------------------------------------------------------------------
(* The commands run inside the handler, before any lock.                   *)

Pause(m) ==
  /\ Go(m, "routing", "done") /\ thread[m].kind = "pause"
  /\ mode' = "paused"
  /\ UNCHANGED <<thread, owned, mark, queue, turn, history, up, tidy>>

Silent(m) ==
  /\ Go(m, "routing", "done") /\ thread[m].kind = "silent"
  /\ mode' = "silent"
  /\ swallowed' = {}
  /\ UNCHANGED <<thread, owned, mark, queue, turn, seen, hushed, hidden, buried, up, tidy>>

\* Mutant: a watermark that a slow turn can rewind.
Latest(m) == m

\* Mutant: a watermark one past the message it marks.
PastTheMessage(m) == m + 1

\* store.mark_forwarded: monotonic, and an UPDATE that finds no row without a session.
Advanced(m) == IF owned /\ mark < m THEN m ELSE mark

\* What |resume says "was never seen by anyone and does not come back".
Bury == /\ buried' = IF owned THEN buried \cup swallowed ELSE buried
        /\ swallowed' = {}

\* Mutant: |resume leaves the watermark where it was.
ResumeUnmarked(m) ==
  /\ Go(m, "routing", "done") /\ thread[m].kind = "resume"
  /\ mode' = "active"
  /\ Bury
  /\ UNCHANGED <<thread, owned, mark, queue, turn, seen, hushed, hidden, up, tidy>>

\* Only a resume that lifts a pause moves the watermark.
Resume(m) ==
  /\ Go(m, "routing", "done") /\ thread[m].kind = "resume"
  /\ mode' = "active"
  /\ mark' = IF mode = "paused" THEN Advanced(m) ELSE mark
  /\ Bury
  /\ UNCHANGED <<thread, owned, queue, turn, seen, hushed, hidden, up, tidy>>

-----------------------------------------------------------------------------
(* From the mode check to the end of the turn.                             *)

\* store.thread_mode, in a thread: a dropped message is counted and forgotten.
CheckMode(m) ==
  LET muted == mode = "paused"
      shy   == mode = "silent" /\ ~ thread[m].tagged IN
  /\ Go(m, "routing", IF muted \/ shy THEN "dropped" ELSE "admitted")
  /\ thread[m].kind = "say"
  /\ hushed' = IF muted THEN hushed \cup {m} ELSE hushed
  /\ swallowed' = IF muted THEN swallowed \cup {m} ELSE swallowed
  /\ hidden' = IF shy THEN hidden \cup {m} ELSE hidden
  /\ UNCHANGED <<thread, store, queue, turn, seen, buried, up, tidy>>

AwaitLock(m) ==
  /\ Go(m, "admitted", "queued")
  /\ queue' = Append(queue, m)
  /\ UNCHANGED <<thread, store, turn, history, up, tidy>>

\* Holding the lock: get_or_create_session; only a mention is caught up.
EnterTurn(m) ==
  /\ queue # <<>> /\ Head(queue) = m
  /\ Go(m, "queued", IF thread[m].tagged THEN "catching" ELSE "marking")
  /\ owned' = TRUE
  /\ UNCHANGED <<thread, mode, mark, queue, turn, history, up, tidy>>

\* The "working" placeholder of a mention cannot be posted: the turn is given up
\* before it marked anything.
PlaceholderFails(m) ==
  /\ MayFail /\ Go(m, "catching", "done")
  /\ queue' = Tail(queue)
  /\ UNCHANGED <<thread, store, turn, history, up, tidy>>

\* last_forwarded_ts, and the early returns of catch_up.
ReadWatermark(m) ==
  /\ since' = [since EXCEPT ![m] = mark]
  /\ Go(m, "catching",
        IF (mark = 0 /\ ~ ColdStart) \/ m = 1 THEN "marking" ELSE "fetching")
  /\ UNCHANGED <<thread, store, queue, quoted, history, up, tidy>>

\* Mutant: operator commands quoted like anything else in the thread.
WindowWithCommands(from, m) == {x \in Msg : from < x /\ x < m}

\* Quotable: conversation after the watermark and before the mention, never a command.
Window(from, m) == {x \in Msg : from < x /\ x < m /\ thread[x].kind = "say"}

\* The newest of them, as many as a transcript holds.
Newest(S) == {x \in S : Cardinality({y \in S : y > x}) < MaxQuoted}

\* conversations.replies; a failure costs the transcript, not the turn.
Fetch(m) ==
  /\ Go(m, "fetching", "marking")
  /\ \/ quoted' = [quoted EXCEPT ![m] = Newest(Window(since[m], m))]
     \/ MayFail /\ UNCHANGED quoted
  /\ UNCHANGED <<thread, store, queue, since, history, up, tidy>>

MarkForwarded(m) ==
  /\ Go(m, "marking", "starting")
  /\ mark' = Advanced(m)
  /\ UNCHANGED <<thread, mode, owned, queue, turn, history, up, tidy>>

\* The prompt goes to the VM: transcript first, the message last.
StartRun(m) ==
  /\ Go(m, "starting", "running")
  /\ seen' = seen \cup {m} \cup quoted[m]
  /\ UNCHANGED <<thread, store, queue, turn, hushed, hidden, swallowed, buried, up, tidy>>

\* Mutant: the early return when the VM does not start keeps the lock.
VmDownHoldingLock(m) ==
  /\ MayFail /\ Go(m, "starting", "done")
  /\ UNCHANGED <<thread, store, queue, turn, history, up, tidy>>

\* The VM cannot be started: the turn returns, what it had marked stays marked.
VmDown(m) ==
  /\ MayFail /\ Go(m, "starting", "done")
  /\ queue' = Tail(queue)
  /\ UNCHANGED <<thread, store, turn, history, up, tidy>>

\* Reply, failure or kill: `async with` releases the lock and wakes the next waiter.
EndTurn(m) ==
  /\ Go(m, "running", "done")
  /\ queue' = Tail(queue)
  /\ UNCHANGED <<thread, store, turn, history, up, tidy>>

-----------------------------------------------------------------------------
\* The store survives; handlers and the lock do not.
Crash ==
  /\ MayCrash /\ up /\ up' = FALSE
  /\ pc' = [m \in Msg |-> IF pc[m] \in Active THEN "lost" ELSE pc[m]]
  /\ queue' = <<>>
  /\ UNCHANGED <<thread, store, turn, history, tidy>>

Restart ==
  /\ ~ up /\ up' = TRUE
  /\ UNCHANGED <<thread, pc, store, queue, turn, history, tidy>>

Step(m) ==
  \/ Deliver(m) \/ FindSession(m)
  \/ Pause(m) \/ Silent(m) \/ Resume(m)
  \/ CheckMode(m) \/ AwaitLock(m) \/ EnterTurn(m) \/ PlaceholderFails(m)
  \/ ReadWatermark(m) \/ Fetch(m)
  \/ MarkForwarded(m) \/ StartRun(m) \/ VmDown(m) \/ EndTurn(m)

Next == \/ \E p \in Post : PostMessage(p)
        \/ \E m \in Msg : Step(m)
        \/ Crash
        \/ Restart

Spec == Init /\ [][Next]_vars

\* The loop keeps serving handlers; a run ends because the CLI does or ssh gives up.
FairSpec == Spec /\ WF_vars(\E m \in Msg : Step(m))

-----------------------------------------------------------------------------
(* What makes the thread correct.                                          *)

\* The agent is never quoted a message it was already shown, whether forwarded or
\* quoted: across overtaking handlers, failed fetches, resumes and restarts.
NoReplay == \A m \in Msg : pc[m] = "starting" => quoted[m] \cap seen = {}

\* A transcript holds only conversation older than the mention: never the mention
\* itself, a newer message, or an operator's command.
OnlyOlderTalkIsQuoted ==
  \A m \in Msg : \A x \in quoted[m] : x < m /\ thread[x].kind = "say"

\* What a pause swallowed stays swallowed once |resume has lifted it in a thread with a
\* session: also from turns in flight at that moment, later pauses, and restarts;
\* provided handlers pass their first reads in order.
ResumeClosesTheWindow == tidy => buried \cap seen = {}

\* The lock serves the turns: whoever is inside a turn holds it, and it is never left
\* with a handler that is gone, which would block the thread until the next restart.
LockServesTurns ==
  /\ \A m \in Msg : pc[m] \in InTurn => queue # <<>> /\ Head(queue) = m
  /\ \A i \in 1..Len(queue) : pc[queue[i]] \in {"queued"} \cup (IF i = 1 THEN InTurn ELSE {})

\* However its turns end, a thread's lock is freed again: nobody admitted waits forever.
EveryoneGetsTheLock == (queue # <<>>) ~> (queue = <<>>)

\* "A |pause window is never quoted", "A pause is never backfilled" (README.md,
\* transcript.py): nothing a pause dropped is shown to the agent later.
PauseNeverBackfilled == tidy => hushed \cap seen = {}

\* "While a thread is paused NOTHING in it reaches Claude", "Pause stops new messages
\* starting new turns" (commands/pause.py).
PausedStartsNothing ==
  [][\A m \in Msg : pc[m] = "queued" /\ pc'[m] \in InTurn => mode # "paused"]_vars

\* "Nothing is lost while it is quiet: the next time you tag it, the messages it was
\* not shown come with the mention" (commands/silent.py).
QuietLosesNothing ==
  tidy => \A m \in Msg, x \in hidden : m \in seen /\ thread[m].tagged /\ x < m => x \in seen
==============================================================================
