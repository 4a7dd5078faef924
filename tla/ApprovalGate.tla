---------------------------- MODULE ApprovalGate ----------------------------
(***************************************************************************)
(* The human approval gate: slackagent/approvals.py and the tables it uses *)
(* in store.py.                                                            *)
(*                                                                         *)
(* One asyncio event loop runs three kinds of coroutine: the HTTP handler  *)
(* that holds a hook's request open (pc), the handler of a Slack button    *)
(* press (press), and `|pending --repost` (repost).  Code between two      *)
(* awaits is one action; what an await does elsewhere (a store call in a   *)
(* thread, a Slack call) is an action of its own, so that everything the   *)
(* loop can run meanwhile is interleaved with it.                          *)
(***************************************************************************)
EXTENDS FiniteSets

CONSTANTS Run,              \* run tokens: one per claude process in the VM
          Call,             \* tool calls; each opens at most one approval
          Press,            \* button presses Slack delivers
          User,             \* Slack users
          Pattern,          \* patterns a standing grant may have
          Operator,         \* AUTHORIZED_USER_ID
          Seed,             \* APPROVERS of daemon/.env
          RunOf,            \* the run a call belongs to
          Needs,            \* Needs[c]: patterns that together cover c, also what
                            \* "Always allow" proposes; {} when nothing can cover it
          NoPress,          \* NULL: the approval's resolved_by, a grant's created_by
          SlackMayFail,     \* Slack calls may raise
          MayCrash,         \* the daemon may be killed and restarted
          MayRepost         \* the operator uses |pending --repost

ASSUME GateAssumption ==
  /\ Call # {}
  /\ Operator \in User
  /\ Seed \subseteq User
  /\ RunOf \in [Call -> Run]
  /\ Needs \in [Call -> SUBSET Pattern]
  /\ NoPress \notin Press
  /\ {SlackMayFail, MayCrash, MayRepost} \subseteq BOOLEAN

VARIABLES
  runs,        \* _runs: is the run's token registered?
  waiters,     \* _waiters: approvals with a future in the table
  hints,       \* _suggestions: approvals whose suggestion is remembered
  ids,         \* PendingRun.approval_ids, over all runs
  fut,         \* the future of each approval
  pc,          \* where the HTTP handler of each call stands
  granted,     \* `granted` in that handler: the Grant objects found
  reply,       \* its HTTP response
  hook,        \* what the hook in the VM told the CLI
  row,         \* approvals.state
  by,          \* approvals.resolved_by: the press whose user the row names
  ts,          \* approvals.message_ts
  buttons,     \* messages of the approval whose buttons are still live in Slack
  repost,      \* where |pending --repost stands for each approval
  grants,      \* the grants table: pattern -> the press that created the row
  approvers,   \* the approvers table
  press,       \* where each button handler stands
  pressOf,     \* [call, user, choice] of a press
  seenTs,      \* row["message_ts"] as that handler read it
  toGrant,     \* patterns it has still to add
  seated,      \* history: presses whose user was a decider at some time since
  steady       \* history: presses whose user was a decider all the time since

memory   == <<waiters, hints, ids, fut>>
request  == <<pc, granted, reply>>
table    == <<row, by>>
slack    == <<buttons>>
people   == <<grants, approvers>>
history  == <<seated, steady>>
pressing == <<press, pressOf, seenTs, toGrant>>
vars == <<runs, memory, request, hook, table, ts, slack, repost, people,
          pressing, history>>

Choice == {"approve", "deny", "always"}
Message == {"none", "first", "second"}
PressInfo == [call : Call, user : User, choice : Choice]
Grant == [pattern : Pattern, createdBy : Press \cup {NoPress}]

\* The handler is suspended at an await.
Suspended == {"matching", "granted", "opening", "opened", "posting", "attaching",
              "waiting", "expiring", "stamping", "denying"}
PressInFlight == {"checking", "reading", "claiming", "claimed", "granting", "stamping"}

TypeOK ==
  /\ runs \in [Run -> {"new", "live", "over"}]
  /\ waiters \subseteq Call /\ hints \subseteq Call /\ ids \subseteq Call
  /\ fut \in [Call -> {"none", "open", "allow", "deny", "expired"}]
  /\ pc \in [Call -> Suspended \cup {"idle", "done", "gone"}]
  /\ granted \in [Call -> SUBSET Grant]
  /\ reply \in [Call -> {"none", "allow", "deny"}]
  /\ hook \in [Call -> {"idle", "asking", "allow", "deny"}]
  /\ row \in [Call -> {"none", "pending", "approved", "denied", "timeout"}]
  /\ by \in [Call -> Press \cup {NoPress}]
  /\ ts \in [Call -> Message]
  /\ buttons \in [Call -> SUBSET Message]
  /\ repost \in [Call -> {"idle", "posting", "attaching", "over"}]
  /\ grants \in [Pattern -> Press \cup {NoPress}]
  /\ approvers \subseteq User
  /\ press \in [Press -> PressInFlight \cup {"idle", "refused", "over"}]
  /\ pressOf \in [Press -> PressInfo]
  /\ seenTs \in [Press -> Message]
  /\ toGrant \in [Press -> SUBSET Pattern]
  /\ seated \subseteq Press /\ steady \subseteq Press

Init ==
  /\ runs = [r \in Run |-> "new"]
  /\ waiters = {} /\ hints = {} /\ ids = {}
  /\ fut = [c \in Call |-> "none"]
  /\ pc = [c \in Call |-> "idle"]
  /\ granted = [c \in Call |-> {}]
  /\ reply = [c \in Call |-> "none"]
  /\ hook = [c \in Call |-> "idle"]
  /\ row = [c \in Call |-> "none"]
  /\ by = [c \in Call |-> NoPress]
  /\ ts = [c \in Call |-> "none"]
  /\ buttons = [c \in Call |-> {}]
  /\ repost = [c \in Call |-> "idle"]
  /\ grants = [p \in Pattern |-> NoPress]
  /\ approvers = {}
  /\ press = [k \in Press |-> "idle"]
  /\ pressOf = [k \in Press |-> [call |-> CHOOSE c \in Call : TRUE,
                                user |-> Operator, choice |-> "deny"]]
  /\ seenTs = [k \in Press |-> "none"]
  /\ toGrant = [k \in Press |-> {}]
  /\ seated = {} /\ steady = {}

-----------------------------------------------------------------------------
(* Helpers: roles.deciders, store.resolve_approval, grants.covered_by.     *)

\* Mutant: a runtime list that replaces the seed, the mistake roles.py warns of.
DecidersOverridden == {Operator} \cup (IF approvers = {} THEN Seed ELSE approvers)

Deciders == {Operator} \cup Seed \cup approvers

Covered(c) == Needs[c] # {} /\ \A p \in Needs[c] : grants[p] # NoPress

\* Mutant: the UPDATE without AND state = 'pending'.
ResolveAlways(c, state, who) == /\ row' = [row EXCEPT ![c] = state]
                                /\ by'  = [by EXCEPT ![c] = who]

\* UPDATE ... WHERE id = c AND state = 'pending'
Resolve(c, state, who) ==
  IF row[c] = "pending"
  THEN /\ row' = [row EXCEPT ![c] = state]
       /\ by'  = [by EXCEPT ![c] = who]
  ELSE UNCHANGED table

\* Mutant: the action id stored as it came.
OutcomeAsSent(choice) == choice

Outcome(choice) == IF choice = "deny" THEN "denied" ELSE "approved"

\* chat_update replaces the buttons of one message; a failure is only logged.
FinalizeMessage(c, m) ==
  \/ buttons' = [buttons EXCEPT ![c] = @ \ {m}]
  \/ SlackMayFail /\ UNCHANGED buttons

Go(c, from, to) == pc[c] = from /\ pc' = [pc EXCEPT ![c] = to]

Respond(c, from, verdict) ==
  Go(c, from, "done") /\ reply' = [reply EXCEPT ![c] = verdict]

Advance(k, from, to) == press[k] = from /\ press' = [press EXCEPT ![k] = to]

\* Mutant: the future is dropped, the run still lists the approval.
ForgetWaiter(c) == waiters' = waiters \ {c} /\ UNCHANGED ids

Forget(c) == /\ waiters' = waiters \ {c}
             /\ ids' = ids \ {c}

-----------------------------------------------------------------------------
(* Runs (app.py registers a run before the CLI starts and drops it after). *)

RegisterRun(r) ==
  /\ runs[r] = "new"
  /\ runs' = [runs EXCEPT ![r] = "live"]
  /\ UNCHANGED <<memory, request, hook, table, ts, slack, repost, people, pressing, history>>

\* Pops the run and answers the futures registered under it.
UnregisterRun(r) ==
  LET dropped == {c \in ids \cap waiters : RunOf[c] = r} IN
  /\ runs[r] = "live"
  /\ runs' = [runs EXCEPT ![r] = "over"]
  /\ waiters' = waiters \ dropped
  /\ fut' = [c \in Call |-> IF c \in dropped /\ fut[c] = "open" THEN "deny" ELSE fut[c]]
  /\ UNCHANGED <<hints, ids, request, hook, table, ts, slack, repost, people, pressing, history>>

-----------------------------------------------------------------------------
(* _handle_approve, from one await to the next.                            *)

\* An unknown token is answered 403 at once, without a word to Slack.
Ask(c) ==
  /\ hook[c] = "idle" /\ runs[RunOf[c]] # "new"
  /\ hook' = [hook EXCEPT ![c] = "asking"]
  /\ IF runs[RunOf[c]] = "live"
     THEN Go(c, "idle", "matching") /\ UNCHANGED reply
     ELSE Respond(c, "idle", "deny")
  /\ UNCHANGED <<runs, memory, granted, table, ts, slack, repost, people, pressing, history>>

\* store.find_grant, in a thread.
FindGrant(c) ==
  /\ IF Covered(c)
     THEN /\ Go(c, "matching", "granted")
          /\ granted' = [granted EXCEPT ![c] =
                {[pattern |-> p, createdBy |-> grants[p]] : p \in Needs[c]}]
     ELSE Go(c, "matching", "opening") /\ UNCHANGED granted
  /\ UNCHANGED <<runs, memory, reply, hook, table, ts, slack, repost, people, pressing, history>>

ReplyGranted(c) ==
  /\ Respond(c, "granted", "allow")
  /\ UNCHANGED <<runs, memory, granted, hook, table, ts, slack, repost, people, pressing, history>>

\* store.open_approval, in a thread.
OpenApproval(c) ==
  /\ Go(c, "opening", "opened")
  /\ row' = [row EXCEPT ![c] = "pending"]
  /\ UNCHANGED <<runs, memory, granted, reply, hook, by, ts, slack, repost, people, pressing, history>>

\* Back on the loop: the future, the run's id set and the suggestion, then the post.
StartWaiting(c) ==
  /\ Go(c, "opened", "posting")
  /\ fut' = [fut EXCEPT ![c] = "open"]
  /\ waiters' = waiters \cup {c}
  /\ ids' = ids \cup {c}
  /\ hints' = IF Needs[c] # {} THEN hints \cup {c} ELSE hints
  /\ UNCHANGED <<runs, granted, reply, hook, table, ts, slack, repost, people, pressing, history>>

\* chat_postMessage: from here on the buttons can be pressed.
PostButtons(c) ==
  /\ Go(c, "posting", "attaching")
  /\ buttons' = [buttons EXCEPT ![c] = @ \cup {"first"}]
  /\ UNCHANGED <<runs, memory, granted, reply, hook, table, ts, repost, people, pressing, history>>

\* The post raises, whether or not Slack had accepted the message.
PostFails(c) ==
  /\ SlackMayFail
  /\ Go(c, "posting", "denying")
  /\ \E shown \in {{}, {"first"}} : buttons' = [buttons EXCEPT ![c] = @ \cup shown]
  /\ Forget(c)
  /\ UNCHANGED <<runs, hints, fut, granted, reply, hook, table, ts, repost, people, pressing, history>>

DenyUnposted(c) ==
  /\ Respond(c, "denying", "deny")
  /\ Resolve(c, "denied", NoPress)
  /\ UNCHANGED <<runs, memory, granted, hook, ts, slack, repost, people, pressing, history>>

AttachTs(c) ==
  /\ Go(c, "attaching", "waiting")
  /\ ts' = [ts EXCEPT ![c] = "first"]
  /\ UNCHANGED <<runs, memory, granted, reply, hook, table, slack, repost, people, pressing, history>>

\* wait_for returns the verdict; the finally block and the response follow at once.
Answered(c) ==
  /\ fut[c] \in {"allow", "deny"}
  /\ Respond(c, "waiting", fut[c])
  /\ Forget(c)
  /\ hints' = hints \ {c}
  /\ UNCHANGED <<runs, fut, granted, hook, table, ts, slack, repost, people, pressing, history>>

\* wait_for gives up and the future is done.  Since Python 3.12 this can also lose a
\* verdict that was set in the same turn of the event loop.
WindowCloses(c) ==
  /\ Go(c, "waiting", "expiring")
  /\ fut' = [fut EXCEPT ![c] = "expired"]
  /\ UNCHANGED <<runs, waiters, hints, ids, granted, reply, hook, table, ts, slack, repost, people, pressing, history>>

\* Mutant: a handler that goes on only when its own claim succeeded.
ExpireOwnRow(c) ==
  /\ row[c] = "pending"
  /\ Go(c, "expiring", "stamping")
  /\ Resolve(c, "timeout", NoPress)
  /\ UNCHANGED <<runs, memory, granted, reply, hook, ts, slack, repost, people, pressing, history>>

\* resolve_approval("timeout"); whether it claimed the row is not looked at.
ExpireRow(c) ==
  /\ Go(c, "expiring", "stamping")
  /\ Resolve(c, "timeout", NoPress)
  /\ UNCHANGED <<runs, memory, granted, reply, hook, ts, slack, repost, people, pressing, history>>

\* Stamps the message this handler posted, then the finally block and the response.
FinishExpired(c) ==
  /\ Respond(c, "stamping", "deny")
  /\ FinalizeMessage(c, "first")
  /\ Forget(c)
  /\ hints' = hints \ {c}
  /\ UNCHANGED <<runs, fut, granted, hook, table, ts, repost, people, pressing, history>>

-----------------------------------------------------------------------------
(* The hook's end of the request (vm-files approve.py).                    *)

HookHears(c) ==
  /\ hook[c] = "asking" /\ reply[c] # "none"
  /\ hook' = [hook EXCEPT ![c] = reply[c]]
  /\ UNCHANGED <<runs, memory, request, table, ts, slack, repost, people, pressing, history>>

\* Mutant: a hook that fails open when it gets no answer.
HookFailsOpen(c) ==
  /\ hook[c] = "asking"
  /\ hook' = [hook EXCEPT ![c] = "allow"]
  /\ UNCHANGED <<runs, memory, request, table, ts, slack, repost, people, pressing, history>>

\* Its own timeout, a lost tunnel or a killed daemon: every failure denies.
HookGivesUp(c) ==
  /\ hook[c] = "asking"
  /\ hook' = [hook EXCEPT ![c] = "deny"]
  /\ UNCHANGED <<runs, memory, request, table, ts, slack, repost, people, pressing, history>>

-----------------------------------------------------------------------------
(* handle_button, from one await to the next.                              *)

\* A press may come from anybody in the channel, on any message still showing
\* buttons; "Always allow" is only offered when there is something to propose.
PressButton(k, c, u, a) ==
  /\ Advance(k, "idle", "checking")
  /\ buttons[c] # {} /\ (a = "always" => Needs[c] # {})
  /\ pressOf' = [pressOf EXCEPT ![k] = [call |-> c, user |-> u, choice |-> a]]
  /\ IF u \in Deciders
     THEN seated' = seated \cup {k} /\ steady' = steady \cup {k}
     ELSE UNCHANGED history
  /\ UNCHANGED <<runs, memory, request, hook, table, ts, slack, repost, people, seenTs, toGrant>>

\* Mutant: the refusal replaces the original message, as a response_url reply does
\* unless it says replace_original=False.
RefuseInPlace(k) ==
  /\ Advance(k, "checking", IF pressOf[k].user \in Deciders THEN "reading" ELSE "refused")
  /\ IF pressOf[k].user \in Deciders
     THEN UNCHANGED buttons
     ELSE buttons' = [buttons EXCEPT ![pressOf[k].call] = {}]
  /\ UNCHANGED <<runs, memory, request, hook, table, ts, repost, people,
                 pressOf, seenTs, toGrant, history>>

\* roles.load reads the approvers on every press.
CheckDecider(k) ==
  /\ Advance(k, "checking", IF pressOf[k].user \in Deciders THEN "reading" ELSE "refused")
  /\ UNCHANGED <<runs, memory, request, hook, table, ts, slack, repost, people,
                 pressOf, seenTs, toGrant, history>>

\* The row, message_ts included, is read once and used after the claim.
ReadRow(k) ==
  /\ Advance(k, "reading", "claiming")
  /\ seenTs' = [seenTs EXCEPT ![k] = ts[pressOf[k].call]]
  /\ UNCHANGED <<runs, memory, request, hook, table, ts, slack, repost, people,
                 pressOf, toGrant, history>>

\* Mutant: the return value of resolve_approval ignored.
ClaimUnchecked(k) ==
  /\ Advance(k, "claiming", "claimed")
  /\ Resolve(pressOf[k].call, Outcome(pressOf[k].choice), k)
  /\ UNCHANGED <<runs, memory, request, hook, ts, slack, repost, people,
                 pressOf, seenTs, toGrant, history>>

\* The first to find the row pending decides; the others are told it is resolved.
Claim(k) ==
  LET c == pressOf[k].call IN
  /\ Advance(k, "claiming", IF row[c] = "pending" THEN "claimed" ELSE "over")
  /\ Resolve(c, Outcome(pressOf[k].choice), k)
  /\ UNCHANGED <<runs, memory, request, hook, ts, slack, repost, people,
                 pressOf, seenTs, toGrant, history>>

Widens(k) == pressOf[k].choice = "always" /\ pressOf[k].call \in hints

StartGranting(k) ==
  /\ Widens(k)
  /\ Advance(k, "claimed", "granting")
  /\ toGrant' = [toGrant EXCEPT ![k] = Needs[pressOf[k].call]]
  /\ UNCHANGED <<runs, memory, request, hook, table, ts, slack, repost, people,
                 pressOf, seenTs, history>>

\* store.add_grant, once per pattern: an existing row stays as it is.
AddGrant(k, p) ==
  /\ press[k] = "granting" /\ p \in toGrant[k]
  /\ grants' = [grants EXCEPT ![p] = IF @ = NoPress THEN k ELSE @]
  /\ toGrant' = [toGrant EXCEPT ![k] = @ \ {p}]
  /\ UNCHANGED <<runs, memory, request, hook, table, ts, slack, repost, approvers,
                 press, pressOf, seenTs, history>>

\* Mutant: after creating grants the handler returns without waking the request.
SettleUnlessGranting(k) ==
  LET c == pressOf[k].call IN
  /\ \/ ~ Widens(k) /\ Advance(k, "claimed", "stamping")
     \/ toGrant[k] = {} /\ Advance(k, "granting", "stamping")
  /\ fut' = [fut EXCEPT ![c] = IF press[k] = "claimed" /\ c \in waiters /\ @ = "open"
                               THEN IF pressOf[k].choice = "deny" THEN "deny" ELSE "allow"
                               ELSE @]
  /\ UNCHANGED <<runs, waiters, hints, ids, request, hook, table, ts, slack, repost, people,
                 pressOf, seenTs, toGrant, history>>

\* Only now is the waiting handler told: _waiters.get, set_result unless done.
Settle(k) ==
  LET c == pressOf[k].call IN
  /\ \/ ~ Widens(k) /\ Advance(k, "claimed", "stamping")
     \/ toGrant[k] = {} /\ Advance(k, "granting", "stamping")
  /\ fut' = [fut EXCEPT ![c] = IF c \in waiters /\ @ = "open"
                               THEN IF pressOf[k].choice = "deny" THEN "deny" ELSE "allow"
                               ELSE @]
  /\ UNCHANGED <<runs, waiters, hints, ids, request, hook, table, ts, slack, repost, people,
                 pressOf, seenTs, toGrant, history>>

Stamp(k) ==
  /\ Advance(k, "stamping", "over")
  /\ FinalizeMessage(pressOf[k].call, seenTs[k])
  /\ UNCHANGED <<runs, memory, request, hook, table, ts, repost, people,
                 pressOf, seenTs, toGrant, history>>

-----------------------------------------------------------------------------
(* The operator's commands.                                                *)

\* |pending --repost: only a request with a live waiter and a pending row.
Repost(c) ==
  /\ MayRepost /\ repost[c] = "idle"
  /\ c \in waiters /\ fut[c] = "open" /\ row[c] = "pending"
  /\ repost' = [repost EXCEPT ![c] = "posting"]
  /\ UNCHANGED <<runs, memory, request, hook, table, ts, slack, people, pressing, history>>

RepostButtons(c) ==
  /\ repost[c] = "posting"
  /\ \/ /\ repost' = [repost EXCEPT ![c] = "attaching"]
        /\ buttons' = [buttons EXCEPT ![c] = @ \cup {"second"}]
     \/ /\ SlackMayFail
        /\ repost' = [repost EXCEPT ![c] = "over"]
        /\ UNCHANGED buttons
  /\ UNCHANGED <<runs, memory, request, hook, table, ts, people, pressing, history>>

RepostAttachTs(c) ==
  /\ repost[c] = "attaching"
  /\ repost' = [repost EXCEPT ![c] = "over"]
  /\ ts' = [ts EXCEPT ![c] = "second"]
  /\ UNCHANGED <<runs, memory, request, hook, table, slack, people, pressing, history>>

RevokeGrant(p) ==
  /\ grants[p] # NoPress
  /\ grants' = [grants EXCEPT ![p] = NoPress]
  /\ UNCHANGED <<runs, memory, request, hook, table, ts, slack, repost, approvers, pressing, history>>

RevokeAll ==
  /\ grants # [p \in Pattern |-> NoPress]
  /\ grants' = [p \in Pattern |-> NoPress]
  /\ UNCHANGED <<runs, memory, request, hook, table, ts, slack, repost, approvers, pressing, history>>

Removable == User \ ({Operator} \cup Seed)

PressesOf(u) == {k \in Press : press[k] \in PressInFlight /\ pressOf[k].user = u}

AddApprover(u) ==
  /\ u \in Removable \ approvers
  /\ approvers' = approvers \cup {u}
  /\ seated' = seated \cup PressesOf(u)
  /\ UNCHANGED <<runs, memory, request, hook, table, ts, slack, repost, grants, pressing, steady>>

RemoveApprover(u) ==
  /\ u \in Removable \cap approvers
  /\ approvers' = approvers \ {u}
  /\ steady' = steady \ PressesOf(u)
  /\ UNCHANGED <<runs, memory, request, hook, table, ts, slack, repost, grants, pressing, seated>>

-----------------------------------------------------------------------------
(* A kill of the daemon: sqlite and Slack keep what they have, the process *)
(* forgets the rest, and the connections of waiting hooks break.           *)

Crash ==
  /\ MayCrash
  /\ runs' = [r \in Run |-> IF runs[r] = "live" THEN "over" ELSE runs[r]]
  /\ waiters' = {} /\ hints' = {} /\ ids' = {}
  /\ fut' = [c \in Call |-> "none"]
  /\ pc' = [c \in Call |-> IF pc[c] \in Suspended THEN "gone" ELSE pc[c]]
  /\ repost' = [c \in Call |-> IF repost[c] = "idle" THEN "idle" ELSE "over"]
  /\ press' = [k \in Press |-> IF press[k] \in PressInFlight THEN "over" ELSE press[k]]
  /\ toGrant' = [k \in Press |-> {}]
  /\ UNCHANGED <<granted, reply, hook, table, ts, slack, people, pressOf, seenTs, history>>

Next ==
  \/ \E r \in Run : RegisterRun(r) \/ UnregisterRun(r)
  \/ \E c \in Call : \/ Ask(c) \/ FindGrant(c) \/ ReplyGranted(c) \/ OpenApproval(c)
                     \/ StartWaiting(c) \/ PostButtons(c) \/ PostFails(c) \/ DenyUnposted(c)
                     \/ AttachTs(c) \/ Answered(c) \/ WindowCloses(c) \/ ExpireRow(c)
                     \/ FinishExpired(c) \/ HookHears(c) \/ HookGivesUp(c)
                     \/ Repost(c) \/ RepostButtons(c) \/ RepostAttachTs(c)
  \/ \E k \in Press, c \in Call, u \in User, a \in Choice : PressButton(k, c, u, a)
  \/ \E k \in Press : \/ CheckDecider(k) \/ ReadRow(k) \/ Claim(k) \/ StartGranting(k)
                      \/ Settle(k) \/ Stamp(k)
  \/ \E k \in Press, p \in Pattern : AddGrant(k, p)
  \/ \E p \in Pattern : RevokeGrant(p)
  \/ RevokeAll
  \/ \E u \in User : AddApprover(u) \/ RemoveApprover(u)
  \/ Crash

Spec == Init /\ [][Next]_vars

\* The loop keeps running, threads and Slack calls return; nobody has to press
\* anything and the timer is left out.
Fairness ==
  /\ \A c \in Call : /\ WF_vars(FindGrant(c)) /\ WF_vars(ReplyGranted(c))
                     /\ WF_vars(OpenApproval(c)) /\ WF_vars(StartWaiting(c))
                     /\ WF_vars(PostButtons(c) \/ PostFails(c)) /\ WF_vars(DenyUnposted(c))
                     /\ WF_vars(AttachTs(c)) /\ WF_vars(Answered(c))
                     /\ WF_vars(ExpireRow(c)) /\ WF_vars(FinishExpired(c))
  /\ \A k \in Press : /\ WF_vars(CheckDecider(k)) /\ WF_vars(ReadRow(k)) /\ WF_vars(Claim(k))
                      /\ WF_vars(StartGranting(k)) /\ WF_vars(Settle(k))
                      /\ \A p \in Pattern : WF_vars(AddGrant(k, p))

FairSpec == Spec /\ Fairness

-----------------------------------------------------------------------------
(* What makes the gate correct.                                            *)

\* The row of c says "approved" by a press that said so and whose user was a decider.
Won(c) == /\ row[c] = "approved"
          /\ by[c] \in seated
          /\ pressOf[by[c]].call = c
          /\ pressOf[by[c]].choice # "deny"

\* k is an "Always allow" that won its approval, and p is what that call needed.
Minted(k, p) == /\ k \in seated
                /\ pressOf[k].choice = "always"
                /\ Won(pressOf[k].call) /\ by[pressOf[k].call] = k
                /\ p \in Needs[pressOf[k].call]

\* Found(c): a full set of grants answered c, each made by a decider's "Always allow".
Found(c) == /\ Needs[c] # {} /\ {g.pattern : g \in granted[c]} = Needs[c]
            /\ \A g \in granted[c] : Minted(g.createdBy, g.pattern)

\* The CLI is told "allow" only when a decider's press won the call's own approval,
\* or grants that such presses created covered it: whatever the races between
\* presses, the timeout, the end of the run, reposts, revocations and a crash.
AllowedMeansDecided == \A c \in Call : hook[c] = "allow" => Won(c) \/ Found(c)

\* A standing grant exists only because the one press that resolved an approval was
\* an "Always allow" of a decider, for a pattern that call needed.
GrantsAreMinted == \A p \in Pattern : grants[p] # NoPress => Minted(grants[p], p)

\* A refusal ("only ... can approve") reaches nobody who was a decider all the while:
\* the runtime list adds to the seed and takes effect on requests already waiting.
RefusedOnlyIfUnseated == \A k \in Press : press[k] = "refused" => k \notin steady

\* A request that still waits for a person can be answered by one: pressing, refusing
\* or reposting never takes the last live buttons away.
WaitingCanBeAnswered ==
  \A c \in Call : pc[c] = "waiting" /\ fut[c] = "open" /\ row[c] = "pending" => buttons[c] # {}

\* Whatever way a request ends (verdict, timeout, failed post, end of run, crash) it
\* leaves no future and no id behind; |pending lists from these.
NothingLeftBehind ==
  \A c \in waiters \cup ids :
     pc[c] \in {"posting", "attaching", "waiting", "expiring", "stamping"}

\* The audit trail: a resolved row, and who resolved it, never change again.
ResolvedIsFinal ==
  [][\A c \in Call : row[c] \notin {"none", "pending"} =>
        row'[c] = row[c] /\ by'[c] = by[c]]_vars

\* Somebody's decision wakes the request that waits for it, without the timer's help.
DecisionWakesTheRequest ==
  \A c \in Call : (pc[c] = "waiting" /\ row[c] \in {"approved", "denied"}) ~> pc[c] # "waiting"

\* With the approval timeout, every request the listener accepted is answered.
EveryRequestEnds ==
  (\A c \in Call : WF_vars(WindowCloses(c)))
    => \A c \in Call : (pc[c] \in Suspended) ~> (pc[c] \in {"done", "gone"})

\* The gate implements what ToolGate promises to the agent.
Gate == INSTANCE ToolGate WITH
          verdict <- hook,
          warranted <- {c \in Call : Won(c) \/ Found(c)}

ImplementsToolGate == Gate!Spec

\* What store.resolve_approval says of a click racing the timeout: "a no-op rather
\* than a second verdict".  The hook was told "deny" because the window closed ...
LateClickIsNoOp ==
  \A c \in Call : pc[c] = "done" /\ fut[c] = "expired" => row[c] # "approved"
=============================================================================
