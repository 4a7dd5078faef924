------------------------- MODULE ApprovalGateProofs -------------------------
(***************************************************************************)
(* Theorems about ApprovalGate, for any runs, calls, users, presses and    *)
(* patterns.                                                               *)
(***************************************************************************)
EXTENDS ApprovalGate, TLAPS

USE GateAssumption

-----------------------------------------------------------------------------
(* Type correctness.                                                       *)

\* The gate starts well typed.
LEMMA TypeInit == Init => TypeOK
  BY DEF Init, TypeOK, PressInfo, Choice, Message, Suspended, PressInFlight

\* Runs and their end, and a crash.
LEMMA TypeRuns ==
  ASSUME TypeOK, \/ \E r \in Run : RegisterRun(r) \/ UnregisterRun(r)
                 \/ Crash
  PROVE  TypeOK'
  <1>1. CASE \E r \in Run : RegisterRun(r)
    BY <1>1 DEF RegisterRun, TypeOK, memory, request, table, slack, people, history, pressing
  <1>2. CASE \E r \in Run : UnregisterRun(r)
    BY <1>2 DEF UnregisterRun, TypeOK, request, table, slack, people, history, pressing
  <1>3. CASE Crash
    BY <1>3 DEF Crash, TypeOK, table, slack, people, history
  <1>4. QED BY <1>1, <1>2, <1>3

\* The HTTP handler of a call.
LEMMA TypeHandler ==
  ASSUME TypeOK, NEW c \in Call,
         \/ Ask(c) \/ FindGrant(c) \/ ReplyGranted(c) \/ OpenApproval(c)
         \/ StartWaiting(c) \/ PostButtons(c) \/ PostFails(c) \/ DenyUnposted(c)
         \/ AttachTs(c) \/ Answered(c) \/ WindowCloses(c) \/ ExpireRow(c) \/ FinishExpired(c)
  PROVE  TypeOK'
  <1> USE DEF TypeOK, Go, memory, request, table, slack, people, history, pressing
  <1> USE DEF Respond, Suspended
  <1>1. CASE Ask(c) BY <1>1 DEF Ask
  <1>2. CASE FindGrant(c)
    <2>1. {[pattern |-> p, createdBy |-> grants[p]] : p \in Needs[c]} \subseteq Grant
      BY DEF Grant
    <2>2. QED BY <1>2, <2>1 DEF FindGrant
  <1>3. CASE ReplyGranted(c) BY <1>3 DEF ReplyGranted
  <1>4. CASE OpenApproval(c) BY <1>4 DEF OpenApproval
  <1>5. CASE StartWaiting(c) BY <1>5 DEF StartWaiting
  <1>6. CASE PostButtons(c) BY <1>6 DEF PostButtons, Message
  <1>7. CASE PostFails(c) BY <1>7 DEF PostFails, Forget, Message
  <1>8. CASE DenyUnposted(c) BY <1>8 DEF DenyUnposted, Resolve
  <1>9. CASE AttachTs(c) BY <1>9 DEF AttachTs, Message
  <1>10. CASE Answered(c) BY <1>10 DEF Answered, Forget
  <1>11. CASE WindowCloses(c) BY <1>11 DEF WindowCloses
  <1>12. CASE ExpireRow(c) BY <1>12 DEF ExpireRow, Resolve
  <1>13. CASE FinishExpired(c) BY <1>13 DEF FinishExpired, FinalizeMessage, Forget
  <1>14. QED BY <1>1, <1>2, <1>3, <1>4, <1>5, <1>6, <1>7, <1>8, <1>9, <1>10, <1>11,
                <1>12, <1>13

\* The hook, and |pending --repost.
LEMMA TypeHookRepost ==
  ASSUME TypeOK, NEW c \in Call,
         HookHears(c) \/ HookGivesUp(c) \/ Repost(c) \/ RepostButtons(c) \/ RepostAttachTs(c)
  PROVE  TypeOK'
  <1> USE DEF TypeOK, memory, request, table, slack, people, history, pressing, Message
  <1>1. CASE HookHears(c) BY <1>1 DEF HookHears
  <1>2. CASE HookGivesUp(c) BY <1>2 DEF HookGivesUp
  <1>3. CASE Repost(c) BY <1>3 DEF Repost
  <1>4. CASE RepostButtons(c) BY <1>4 DEF RepostButtons
  <1>5. CASE RepostAttachTs(c) BY <1>5 DEF RepostAttachTs
  <1>6. QED BY <1>1, <1>2, <1>3, <1>4, <1>5

\* A button press.
LEMMA TypePress ==
  ASSUME TypeOK, NEW k \in Press,
         \/ \E c \in Call, u \in User, a \in Choice : PressButton(k, c, u, a)
         \/ CheckDecider(k) \/ ReadRow(k) \/ Claim(k) \/ StartGranting(k)
         \/ \E p \in Pattern : AddGrant(k, p)
         \/ Settle(k) \/ Stamp(k)
  PROVE  TypeOK'
  <1> USE DEF TypeOK, Advance, memory, request, table, slack, people, history, pressing
  <1> USE DEF PressInFlight
  <1>0. pressOf[k].call \in Call /\ pressOf[k].choice \in Choice
    BY DEF PressInfo
  <1>1. CASE \E c \in Call, u \in User, a \in Choice : PressButton(k, c, u, a)
    BY <1>1 DEF PressButton, PressInfo
  <1>2. CASE CheckDecider(k) BY <1>2 DEF CheckDecider
  <1>3. CASE ReadRow(k) BY <1>0, <1>3 DEF ReadRow
  <1>4. CASE Claim(k) BY <1>0, <1>4 DEF Claim, Resolve, Outcome
  <1>5. CASE StartGranting(k) BY <1>0, <1>5 DEF StartGranting
  <1>6. CASE \E p \in Pattern : AddGrant(k, p) BY <1>6 DEF AddGrant
  <1>7. CASE Settle(k) BY <1>0, <1>7 DEF Settle
  <1>8. CASE Stamp(k) BY <1>0, <1>8 DEF Stamp, FinalizeMessage
  <1>9. QED BY <1>1, <1>2, <1>3, <1>4, <1>5, <1>6, <1>7, <1>8

\* |revoke and |approvers.
LEMMA TypePeople ==
  ASSUME TypeOK, \/ \E p \in Pattern : RevokeGrant(p)
                 \/ RevokeAll
                 \/ \E u \in User : AddApprover(u) \/ RemoveApprover(u)
  PROVE  TypeOK'
  <1> USE DEF TypeOK, memory, request, table, slack, pressing, history
  <1>1. CASE \E p \in Pattern : RevokeGrant(p) BY <1>1 DEF RevokeGrant
  <1>2. CASE RevokeAll BY <1>2 DEF RevokeAll
  <1>3. CASE \E u \in User : AddApprover(u) BY <1>3 DEF AddApprover, Removable, PressesOf
  <1>4. CASE \E u \in User : RemoveApprover(u) BY <1>4 DEF RemoveApprover, Removable
  <1>5. QED BY <1>1, <1>2, <1>3, <1>4

\* No step of the daemon, of Slack or of a crash leaves the types.
LEMMA TypeNext == TypeOK /\ [Next]_vars => TypeOK'
  <1> SUFFICES ASSUME TypeOK, [Next]_vars PROVE TypeOK'
    OBVIOUS
  <1>1. CASE Next
    BY <1>1, TypeRuns, TypeHandler, TypeHookRepost, TypePress, TypePeople DEF Next
  <1>2. CASE UNCHANGED vars
    BY <1>2 DEF vars, TypeOK, memory, request, table, slack, people, history, pressing
  <1>3. QED BY <1>1, <1>2

\* Every reachable state of the gate is well typed.
THEOREM TypeCorrect == Spec => []TypeOK
  <1>1. QED BY TypeInit, TypeNext, PTL DEF Spec

-----------------------------------------------------------------------------
(* The inductive invariant.  AllowedMeansDecided speaks of the hook only;  *)
(* the parts below follow an "allow" back through the response, the future *)
(* and the claim to the check of the person who pressed.                   *)

\* Where "allow" may stand, and what stands behind it there.
AllowIsWarranted ==
  /\ \A c \in Call : hook[c] = "allow" => reply[c] = "allow"
  /\ \A c \in Call : reply[c] = "allow" => Won(c) \/ Found(c)
  /\ \A c \in Call : pc[c] = "granted" => Found(c)
  /\ \A c \in Call : fut[c] = "allow" => Won(c)

\* A handler opens its row once and answers once.
HandlerInOrder ==
  /\ \A c \in Call : pc[c] \in {"idle", "matching", "granted", "opening"} => row[c] = "none"
  /\ \A c \in Call : reply[c] # "none" => pc[c] = "done"

\* A press that is past the check belongs to a decider; past the claim, the row is its own.
PressInOrder ==
  /\ \A k \in seated : press[k] # "idle"
  /\ \A k \in Press : press[k] = "checking" /\ pressOf[k].user \in Deciders => k \in seated
  /\ \A k \in Press : press[k] \in {"reading", "claiming", "claimed", "granting", "stamping"}
                        => k \in seated
  /\ \A k \in Press : press[k] \in {"claimed", "granting"}
                        => LET c == pressOf[k].call IN
                           row[c] = Outcome(pressOf[k].choice) /\ by[c] = k
  /\ \A k \in Press : press[k] = "granting"
                        => /\ pressOf[k].choice = "always"
                           /\ toGrant[k] \subseteq Needs[pressOf[k].call]

\* Nothing but a decider's press approves a row, and what a handler found was minted.
RowsAreDecided ==
  /\ \A c \in Call : row[c] = "approved" => Won(c)
  /\ \A c \in Call : granted[c] # {} => Found(c)

GateInv == /\ TypeOK /\ AllowIsWarranted /\ HandlerInOrder /\ PressInOrder
           /\ GrantsAreMinted /\ RowsAreDecided

\* What no step takes back: a resolved row, a press that was seen seated, and with
\* them whatever was won, minted or found.
Permanent ==
  /\ seated \subseteq seated'
  /\ \A k \in seated : pressOf'[k] = pressOf[k]
  /\ \A c \in Call : row[c] \notin {"none", "pending"} => row'[c] = row[c] /\ by'[c] = by[c]

\* The HTTP handler resolves only a pending row, and never rewrites who resolved it.
LEMMA HandlerIsPermanent ==
  ASSUME GateInv, NEW c \in Call,
         \/ Ask(c) \/ FindGrant(c) \/ ReplyGranted(c) \/ OpenApproval(c)
         \/ StartWaiting(c) \/ PostButtons(c) \/ PostFails(c) \/ DenyUnposted(c)
         \/ AttachTs(c) \/ Answered(c) \/ WindowCloses(c) \/ ExpireRow(c) \/ FinishExpired(c)
  PROVE  Permanent
  <1> USE DEF Permanent, table, history, pressing
  <1> row \in [Call -> {"none", "pending", "approved", "denied", "timeout"}]
      /\ by \in [Call -> Press \cup {NoPress}] /\ seated \subseteq Press
    BY DEF GateInv, TypeOK
  <1>1. CASE OpenApproval(c)
    <2>1. row[c] = "none" BY <1>1 DEF GateInv, HandlerInOrder, OpenApproval, Go
    <2>2. QED BY <1>1, <2>1 DEF OpenApproval
  <1>2. CASE DenyUnposted(c) BY <1>2 DEF DenyUnposted, Resolve
  <1>3. CASE ExpireRow(c) BY <1>3 DEF ExpireRow, Resolve
  <1>4. CASE \/ Ask(c) \/ FindGrant(c) \/ ReplyGranted(c) \/ StartWaiting(c) \/ PostButtons(c)
    BY <1>4 DEF Ask, FindGrant, ReplyGranted, StartWaiting, PostButtons
  <1>5. CASE \/ PostFails(c) \/ AttachTs(c) \/ Answered(c) \/ WindowCloses(c) \/ FinishExpired(c)
    BY <1>5 DEF PostFails, AttachTs, Answered, WindowCloses, FinishExpired
  <1>6. QED BY <1>1, <1>2, <1>3, <1>4, <1>5

\* A button handler neither: its claim is the conditional UPDATE of resolve_approval.
LEMMA PressIsPermanent ==
  ASSUME GateInv, NEW k \in Press,
         \/ \E c \in Call, u \in User, a \in Choice : PressButton(k, c, u, a)
         \/ CheckDecider(k) \/ ReadRow(k) \/ Claim(k) \/ StartGranting(k)
         \/ \E p \in Pattern : AddGrant(k, p)
         \/ Settle(k) \/ Stamp(k)
  PROVE  Permanent
  <1> USE DEF Permanent, table, history
  <1> /\ row \in [Call -> {"none", "pending", "approved", "denied", "timeout"}]
      /\ by \in [Call -> Press \cup {NoPress}] /\ seated \subseteq Press
      /\ pressOf \in [Press -> PressInfo]
    BY DEF GateInv, TypeOK
  <1>1. CASE \E c \in Call, u \in User, a \in Choice : PressButton(k, c, u, a)
    <2>1. k \notin seated BY <1>1 DEF GateInv, PressInOrder, PressButton, Advance
    <2>2. QED BY <1>1, <2>1 DEF PressButton
  <1>2. CASE Claim(k)
    <2>1. pressOf[k].call \in Call BY DEF PressInfo
    <2>2. QED BY <1>2, <2>1 DEF Claim, Resolve
  <1>3. CASE CheckDecider(k) \/ ReadRow(k) \/ StartGranting(k) \/ Settle(k) \/ Stamp(k)
    BY <1>3 DEF CheckDecider, ReadRow, StartGranting, Settle, Stamp
  <1>4. CASE \E p \in Pattern : AddGrant(k, p) BY <1>4 DEF AddGrant
  <1>5. QED BY <1>1, <1>2, <1>3, <1>4

\* So no step of the system rewrites a resolved row or what a press that was seated said.
LEMMA NextIsPermanent == GateInv /\ [Next]_vars => Permanent
  <1> SUFFICES ASSUME GateInv, [Next]_vars PROVE Permanent
    OBVIOUS
  <1> USE DEF table, history, pressing
  <1>1. CASE \E r \in Run : RegisterRun(r) \/ UnregisterRun(r)
    BY <1>1 DEF RegisterRun, UnregisterRun, Permanent
  <1>2. CASE \E c \in Call : HookHears(c) \/ HookGivesUp(c) \/ Repost(c)
                               \/ RepostButtons(c) \/ RepostAttachTs(c)
    BY <1>2 DEF HookHears, HookGivesUp, Repost, RepostButtons, RepostAttachTs, Permanent
  <1>3. CASE \/ \E p \in Pattern : RevokeGrant(p)
             \/ RevokeAll
             \/ \E u \in User : AddApprover(u) \/ RemoveApprover(u)
    BY <1>3 DEF RevokeGrant, RevokeAll, AddApprover, RemoveApprover, Permanent
  <1>4. CASE Crash BY <1>4 DEF Crash, Permanent
  <1>5. CASE UNCHANGED vars BY <1>5 DEF vars, Permanent
  <1>6. QED BY <1>1, <1>2, <1>3, <1>4, <1>5, HandlerIsPermanent, PressIsPermanent DEF Next

\* A won approval stays won.
LEMMA WonStays ==
  ASSUME Permanent, NEW c \in Call, Won(c)
  PROVE  Won(c)'
  BY DEF Permanent, Won

\* A press that minted a grant stays the one that minted it.
LEMMA MintedStays ==
  ASSUME Permanent, pressOf \in [Press -> PressInfo], seated \subseteq Press,
         NEW k, NEW p, Minted(k, p)
  PROVE  Minted(k, p)'
  <1> DEFINE c == pressOf[k].call
  <1>1. c \in Call BY DEF Minted, PressInfo
  <1>2. pressOf'[k] = pressOf[k] /\ k \in seated' BY DEF Minted, Permanent
  <1>3. by[c] = k /\ row[c] = "approved" BY DEF Minted, Won
  <1>4. by'[c] = k /\ row'[c] = "approved" BY <1>1, <1>3 DEF Permanent
  <1>5. QED BY <1>2, <1>4 DEF Minted, Won

\* A cover that find_grant returned stays the cover of that call, whatever is revoked.
LEMMA FoundStays ==
  ASSUME Permanent, pressOf \in [Press -> PressInfo], seated \subseteq Press,
         NEW c \in Call, Found(c), granted'[c] = granted[c]
  PROVE  Found(c)'
  <1>1. \A g \in granted[c] : Minted(g.createdBy, g.pattern)'
    BY MintedStays DEF Found
  <1>2. QED BY <1>1 DEF Found

\* The inductive invariant holds when the daemon starts.
LEMMA GateInit == Init => GateInv
  <1> SUFFICES ASSUME Init PROVE GateInv
    OBVIOUS
  <1>1. TypeOK BY TypeInit
  <1>2. AllowIsWarranted /\ HandlerInOrder BY DEF Init, AllowIsWarranted, HandlerInOrder
  <1>3. PressInOrder BY DEF Init, PressInOrder
  <1>4. GrantsAreMinted /\ RowsAreDecided BY DEF Init, GrantsAreMinted, RowsAreDecided
  <1>5. QED BY <1>1, <1>2, <1>3, <1>4 DEF GateInv

\* A response that was given stays, because a handler answers once.
LEMMA HandlerNext == GateInv /\ Next => HandlerInOrder'
  <1> SUFFICES ASSUME GateInv, Next PROVE HandlerInOrder'
    OBVIOUS
  <1> USE DEF HandlerInOrder, Go, Respond, memory, request, table
  <1>0. /\ HandlerInOrder
        /\ row \in [Call -> {"none", "pending", "approved", "denied", "timeout"}]
        /\ pc \in [Call -> Suspended \cup {"idle", "done", "gone"}]
        /\ reply \in [Call -> {"none", "allow", "deny"}]
        /\ pressOf \in [Press -> PressInfo]
    BY DEF GateInv, TypeOK
  <1>1. CASE \E c \in Call : \/ Ask(c) \/ FindGrant(c) \/ ReplyGranted(c) \/ OpenApproval(c)
                             \/ StartWaiting(c)
    BY <1>0, <1>1 DEF Ask, FindGrant, ReplyGranted, OpenApproval, StartWaiting
  <1>2. CASE \E c \in Call : \/ PostButtons(c) \/ PostFails(c) \/ DenyUnposted(c) \/ AttachTs(c)
    BY <1>0, <1>2 DEF PostButtons, PostFails, DenyUnposted, AttachTs, Resolve
  <1>3. CASE \E c \in Call : \/ Answered(c) \/ WindowCloses(c) \/ ExpireRow(c) \/ FinishExpired(c)
    BY <1>0, <1>3 DEF Answered, WindowCloses, ExpireRow, FinishExpired, Resolve
  <1>4. CASE \E c \in Call : HookHears(c) \/ HookGivesUp(c) \/ Repost(c)
                               \/ RepostButtons(c) \/ RepostAttachTs(c)
    BY <1>0, <1>4 DEF HookHears, HookGivesUp, Repost, RepostButtons, RepostAttachTs
  <1>5. CASE \E k \in Press, c \in Call, u \in User, a \in Choice : PressButton(k, c, u, a)
    BY <1>0, <1>5 DEF PressButton
  <1>6. CASE \E k \in Press : Claim(k)
    BY <1>0, <1>6 DEF Claim, Resolve, PressInfo
  <1>7. CASE \E k \in Press : \/ CheckDecider(k) \/ ReadRow(k) \/ StartGranting(k)
                              \/ Settle(k) \/ Stamp(k) \/ \E p \in Pattern : AddGrant(k, p)
    BY <1>0, <1>7 DEF CheckDecider, ReadRow, StartGranting, Settle, Stamp, AddGrant
  <1>8. CASE \/ \E r \in Run : RegisterRun(r) \/ UnregisterRun(r)
             \/ \E p \in Pattern : RevokeGrant(p)
             \/ RevokeAll
             \/ \E u \in User : AddApprover(u) \/ RemoveApprover(u)
    BY <1>0, <1>8 DEF RegisterRun, UnregisterRun, RevokeGrant, RevokeAll, AddApprover, RemoveApprover
  <1>9. CASE Crash
    BY <1>0, <1>9 DEF Crash, Suspended
  <1>10. QED BY <1>1, <1>2, <1>3, <1>4, <1>5, <1>6, <1>7, <1>8, <1>9 DEF Next

\* Only the check of a decider, and the claim of a pending row, take a press further.
LEMMA PressNext == GateInv /\ Next => PressInOrder'
  <1> SUFFICES ASSUME GateInv, Next PROVE PressInOrder'
    OBVIOUS
  <1>0. /\ PressInOrder
        /\ row \in [Call -> {"none", "pending", "approved", "denied", "timeout"}]
        /\ by \in [Call -> Press \cup {NoPress}]
        /\ press \in [Press -> PressInFlight \cup {"idle", "refused", "over"}]
        /\ pressOf \in [Press -> PressInfo]
        /\ toGrant \in [Press -> SUBSET Pattern]
        /\ seated \subseteq Press
    BY DEF GateInv, TypeOK
  <1>p. Permanent BY NextIsPermanent
  <1> USE DEF PressInOrder, PressInFlight, PressInfo, Outcome, Advance, table
  <1>1. CASE \E k \in Press, c \in Call, u \in User, a \in Choice : PressButton(k, c, u, a)
    BY <1>0, <1>1 DEF PressButton, Deciders, people, history
  <1>2. CASE \E k \in Press : CheckDecider(k) \/ ReadRow(k) \/ Stamp(k)
    BY <1>0, <1>2 DEF CheckDecider, ReadRow, Stamp, Deciders, people, history
  <1>3. CASE \E k \in Press : Claim(k)
    BY <1>0, <1>3 DEF Claim, Resolve, Deciders, people, history
  <1>4. CASE \E k \in Press : StartGranting(k) \/ Settle(k)
    BY <1>0, <1>4 DEF StartGranting, Settle, Widens, Deciders, people, history
  <1>5. CASE \E k \in Press, p \in Pattern : AddGrant(k, p)
    BY <1>0, <1>5 DEF AddGrant, Deciders, history
  <1>6. CASE \E u \in User : AddApprover(u)
    BY <1>0, <1>6 DEF AddApprover, PressesOf, Deciders, pressing
  <1>7. CASE \E u \in User : RemoveApprover(u)
    BY <1>0, <1>7 DEF RemoveApprover, Deciders, pressing
  <1>8. CASE \/ \E p \in Pattern : RevokeGrant(p)
             \/ RevokeAll
             \/ Crash
             \/ \E r \in Run : RegisterRun(r) \/ UnregisterRun(r)
    BY <1>0, <1>8 DEF RevokeGrant, RevokeAll, Crash, RegisterRun, UnregisterRun,
                      Deciders, people, history, pressing
  <1>9. CASE \E c \in Call : \/ Ask(c) \/ FindGrant(c) \/ ReplyGranted(c) \/ OpenApproval(c)
                             \/ StartWaiting(c) \/ PostButtons(c) \/ PostFails(c)
                             \/ DenyUnposted(c) \/ AttachTs(c) \/ Answered(c)
                             \/ WindowCloses(c) \/ ExpireRow(c) \/ FinishExpired(c)
                             \/ HookHears(c) \/ HookGivesUp(c) \/ Repost(c)
                             \/ RepostButtons(c) \/ RepostAttachTs(c)
    <2>1. UNCHANGED <<press, pressOf, toGrant, approvers, seated>>
      BY <1>9 DEF Ask, FindGrant, ReplyGranted, OpenApproval, StartWaiting, PostButtons,
                  PostFails, DenyUnposted, AttachTs, Answered, WindowCloses, ExpireRow,
                  FinishExpired, HookHears, HookGivesUp, Repost, RepostButtons,
                  RepostAttachTs, people, history, pressing
    <2>2. \A k \in Press : press[k] \in {"claimed", "granting"}
             => LET c == pressOf[k].call IN row'[c] = row[c] /\ by'[c] = by[c]
      BY <1>0, <1>p DEF Permanent
    <2>3. QED BY <1>0, <2>1, <2>2 DEF Deciders
  <1>10. QED BY <1>1, <1>2, <1>3, <1>4, <1>5, <1>6, <1>7, <1>8, <1>9 DEF Next

\* A grant is added by the press that holds the claim.
LEMMA GrantsNext == GateInv /\ Next => GrantsAreMinted'
  <1> SUFFICES ASSUME GateInv, Next PROVE GrantsAreMinted'
    OBVIOUS
  <1>0. /\ GrantsAreMinted /\ PressInOrder
        /\ grants \in [Pattern -> Press \cup {NoPress}]
        /\ pressOf \in [Press -> PressInfo]
        /\ seated \subseteq Press
    BY DEF GateInv, TypeOK
  <1>p. Permanent BY NextIsPermanent
  <1>m. \A k, p : Minted(k, p) => Minted(k, p)'
    BY <1>0, <1>p, MintedStays
  <1>1. ASSUME NEW k \in Press, NEW p \in Pattern, AddGrant(k, p)
        PROVE  GrantsAreMinted'
    <2>1. Minted(k, p)
      BY <1>0, <1>1 DEF AddGrant, PressInOrder, Minted, Won, Outcome
    <2>2. \A q \in Pattern \ {p} : grants'[q] = grants[q]
      BY <1>0, <1>1 DEF AddGrant
    <2>3. grants'[p] \in {grants[p], k}
      BY <1>0, <1>1 DEF AddGrant
    <2>4. QED BY <1>0, <1>m, <2>1, <2>2, <2>3 DEF GrantsAreMinted
  <1>2. CASE \A q \in Pattern : grants'[q] \in {grants[q], NoPress}
    BY <1>0, <1>2, <1>m DEF GrantsAreMinted
  <1>3. CASE RevokeAll \/ \E p \in Pattern : RevokeGrant(p)
    BY <1>0, <1>2, <1>3 DEF RevokeAll, RevokeGrant
  <1>4. CASE \/ Crash
             \/ \E r \in Run : RegisterRun(r) \/ UnregisterRun(r)
             \/ \E u \in User : AddApprover(u) \/ RemoveApprover(u)
    BY <1>0, <1>2, <1>4 DEF Crash, RegisterRun, UnregisterRun, AddApprover, RemoveApprover, people
  <1>5. CASE \E k \in Press : \/ \E c \in Call, u \in User, a \in Choice : PressButton(k, c, u, a)
                              \/ CheckDecider(k) \/ ReadRow(k) \/ Claim(k) \/ StartGranting(k)
                              \/ Settle(k) \/ Stamp(k)
    BY <1>0, <1>2, <1>5 DEF PressButton, CheckDecider, ReadRow, Claim, StartGranting, Settle,
                            Stamp, people
  <1>6. CASE \E c \in Call : \/ Ask(c) \/ FindGrant(c) \/ ReplyGranted(c) \/ OpenApproval(c)
                             \/ StartWaiting(c) \/ PostButtons(c) \/ PostFails(c)
                             \/ DenyUnposted(c) \/ AttachTs(c) \/ Answered(c)
                             \/ WindowCloses(c) \/ ExpireRow(c) \/ FinishExpired(c)
                             \/ HookHears(c) \/ HookGivesUp(c) \/ Repost(c)
                             \/ RepostButtons(c) \/ RepostAttachTs(c)
    BY <1>0, <1>2, <1>6 DEF Ask, FindGrant, ReplyGranted, OpenApproval, StartWaiting, PostButtons,
                PostFails, DenyUnposted, AttachTs, Answered, WindowCloses, ExpireRow,
                FinishExpired, HookHears, HookGivesUp, Repost, RepostButtons,
                RepostAttachTs, people
  <1>7. QED BY <1>1, <1>3, <1>4, <1>5, <1>6 DEF Next

\* The grants a handler finds are a full cover, and each was minted.
LEMMA FoundByMatching ==
  ASSUME GateInv, Next, NEW c \in Call, FindGrant(c), pc'[c] = "granted"
  PROVE  Found(c)'
  <1>0. /\ GrantsAreMinted
        /\ pc \in [Call -> Suspended \cup {"idle", "done", "gone"}]
        /\ granted \in [Call -> SUBSET Grant]
        /\ pressOf \in [Press -> PressInfo]
        /\ seated \subseteq Press
    BY DEF GateInv, TypeOK
  <1>p. Permanent BY NextIsPermanent
  <1>1. /\ Covered(c)
        /\ granted'[c] = {[pattern |-> p, createdBy |-> grants[p]] : p \in Needs[c]}
    BY <1>0 DEF FindGrant, Go
  <1>2. \A p \in Needs[c] : Minted(grants[p], p)
    BY <1>0, <1>1 DEF GrantsAreMinted, Covered
  <1>3. \A g \in granted'[c] : Minted(g.createdBy, g.pattern)
    BY <1>1, <1>2
  <1>4. \A g \in granted'[c] : Minted(g.createdBy, g.pattern)'
    <2>1. TAKE g \in granted'[c]
    <2> DEFINE by_ == g.createdBy
               for_ == g.pattern
    <2>2. Minted(by_, for_) BY <1>3
    <2>3. QED BY <1>0, <1>p, <2>2, MintedStays
  <1>5. {g.pattern : g \in granted'[c]} = Needs[c]
    <2> DEFINE G(p) == [pattern |-> p, createdBy |-> grants[p]]
    <2>1. \A p : G(p).pattern = p OBVIOUS
    <2>2. granted'[c] = {G(p) : p \in Needs[c]} BY <1>1
    <2> HIDE DEF G
    <2>3. QED BY <2>1, <2>2
  <1>6. QED BY <1>1, <1>4, <1>5 DEF Found, Covered

\* The future says "allow" because of Settle, the response because of the future or of
\* grants that were found, the hook because of the response.
LEMMA AllowNext == GateInv /\ Next => AllowIsWarranted'
  <1> SUFFICES ASSUME GateInv, Next PROVE AllowIsWarranted'
    OBVIOUS
  <1>0. /\ AllowIsWarranted /\ HandlerInOrder /\ PressInOrder /\ GrantsAreMinted
        /\ fut \in [Call -> {"none", "open", "allow", "deny", "expired"}]
        /\ pc \in [Call -> Suspended \cup {"idle", "done", "gone"}]
        /\ granted \in [Call -> SUBSET Grant]
        /\ reply \in [Call -> {"none", "allow", "deny"}]
        /\ hook \in [Call -> {"idle", "asking", "allow", "deny"}]
        /\ pressOf \in [Press -> PressInfo]
        /\ grants \in [Pattern -> Press \cup {NoPress}]
        /\ seated \subseteq Press
    BY DEF GateInv, TypeOK
  <1>p. Permanent BY NextIsPermanent
  <1>w. \A c \in Call : Won(c) => Won(c)'
    BY <1>p, WonStays
  <1>f. \A c \in Call : Found(c) /\ granted'[c] = granted[c] => Found(c)'
    BY <1>0, <1>p, FoundStays
  <1> USE DEF AllowIsWarranted, Go, Respond, memory, request
  <1>1. ASSUME NEW c \in Call, FindGrant(c)
        PROVE  AllowIsWarranted'
    <2>1. \A d \in Call \ {c} : granted'[d] = granted[d] /\ pc'[d] = pc[d]
      BY <1>0, <1>1 DEF FindGrant
    <2>2. pc'[c] = "granted" => Found(c)'
      BY <1>1, FoundByMatching
    <2>3. UNCHANGED <<hook, reply, fut>> /\ reply[c] = "none"
      BY <1>0, <1>1 DEF FindGrant, HandlerInOrder
    <2>4. QED BY <1>0, <1>w, <1>f, <2>1, <2>2, <2>3
  <1>2. ASSUME NEW k \in Press, Settle(k)
        PROVE  AllowIsWarranted'
    <2> DEFINE c == pressOf[k].call
    <2>1. c \in Call /\ pressOf[k].choice \in Choice
      BY <1>0 DEF PressInfo
    <2>2. fut'[c] = "allow" => Won(c)
      <3>1. CASE fut[c] = "allow" BY <1>0, <2>1, <3>1
      <3>2. CASE fut[c] # "allow" /\ fut'[c] = "allow"
        <4>1. pressOf[k].choice # "deny"
          BY <1>0, <1>2, <2>1, <3>2 DEF Settle
        <4>2. k \in seated /\ row[c] = Outcome(pressOf[k].choice) /\ by[c] = k
          BY <1>0, <1>2 DEF Settle, Advance, PressInOrder
        <4>3. QED BY <4>1, <4>2 DEF Won, Outcome
      <3>3. QED BY <3>1, <3>2
    <2>3. \A d \in Call \ {c} : fut'[d] = fut[d]
      BY <1>0, <1>2, <2>1 DEF Settle
    <2>4. UNCHANGED <<hook, reply, granted, pc>>
      BY <1>2 DEF Settle
    <2>5. QED BY <1>0, <1>w, <1>f, <2>2, <2>3, <2>4
  <1>3. CASE \E c \in Call : \/ Ask(c) \/ ReplyGranted(c) \/ OpenApproval(c) \/ StartWaiting(c)
                             \/ PostButtons(c) \/ PostFails(c) \/ DenyUnposted(c)
    BY <1>0, <1>w, <1>f, <1>3 DEF Ask, ReplyGranted, OpenApproval, StartWaiting, PostButtons,
                                  PostFails, DenyUnposted, HandlerInOrder
  <1>4. CASE \E c \in Call : AttachTs(c) \/ Answered(c) \/ WindowCloses(c) \/ ExpireRow(c)
                               \/ FinishExpired(c)
    BY <1>0, <1>w, <1>f, <1>4 DEF AttachTs, Answered, WindowCloses, ExpireRow, FinishExpired,
                                  HandlerInOrder
  <1>5. CASE \E c \in Call : HookHears(c) \/ HookGivesUp(c)
    BY <1>0, <1>w, <1>f, <1>5 DEF HookHears, HookGivesUp
  <1>6. CASE \E c \in Call : Repost(c) \/ RepostButtons(c) \/ RepostAttachTs(c)
    BY <1>0, <1>w, <1>f, <1>6 DEF Repost, RepostButtons, RepostAttachTs
  <1>7. CASE \E r \in Run : RegisterRun(r) \/ UnregisterRun(r)
    BY <1>0, <1>w, <1>f, <1>7 DEF RegisterRun, UnregisterRun
  <1>8. CASE \E k \in Press : \/ \E c \in Call, u \in User, a \in Choice : PressButton(k, c, u, a)
                              \/ CheckDecider(k) \/ ReadRow(k) \/ Claim(k) \/ StartGranting(k)
                              \/ \E p \in Pattern : AddGrant(k, p)
                              \/ Stamp(k)
    BY <1>0, <1>w, <1>f, <1>8 DEF PressButton, CheckDecider, ReadRow, Claim, StartGranting,
                                  AddGrant, Stamp
  <1>9. CASE \/ \E p \in Pattern : RevokeGrant(p)
             \/ RevokeAll
             \/ \E u \in User : AddApprover(u) \/ RemoveApprover(u)
    BY <1>0, <1>w, <1>f, <1>9 DEF RevokeGrant, RevokeAll, AddApprover, RemoveApprover
  <1>10. CASE Crash
    BY <1>0, <1>w, <1>f, <1>10 DEF Crash, Suspended
  <1>11. QED BY <1>1, <1>2, <1>3, <1>4, <1>5, <1>6, <1>7, <1>8, <1>9, <1>10 DEF Next

\* What each step may do to a warrant: Claim approves one row, FindGrant gives one handler
\* its grants, and no other step approves or finds anything.
WarrantStep ==
  \/ /\ UNCHANGED granted
     /\ \A c \in Call : row'[c] = "approved" => row[c] = "approved"
  \/ \E k \in Press : Claim(k)
  \/ \E c \in Call : FindGrant(c)

\* Every step of the gate is of one of those kinds.
LEMMA NextIsWarrantStep == TypeOK /\ Next => WarrantStep
  <1> SUFFICES ASSUME TypeOK, Next PROVE WarrantStep
    OBVIOUS
  <1>0. row \in [Call -> {"none", "pending", "approved", "denied", "timeout"}]
    BY DEF TypeOK
  <1> USE <1>0 DEF WarrantStep, table, request
  <1>1. CASE \E c \in Call : FindGrant(c)
    BY <1>1
  <1>2. CASE \E c \in Call : OpenApproval(c) \/ DenyUnposted(c) \/ ExpireRow(c)
    BY <1>2 DEF OpenApproval, DenyUnposted, ExpireRow, Resolve
  <1>3. CASE \E c \in Call : \/ Ask(c) \/ ReplyGranted(c) \/ StartWaiting(c) \/ PostButtons(c)
                             \/ PostFails(c) \/ AttachTs(c) \/ Answered(c) \/ WindowCloses(c)
                             \/ FinishExpired(c)
    BY <1>3 DEF Ask, ReplyGranted, StartWaiting, PostButtons, PostFails, AttachTs, Answered,
                WindowCloses, FinishExpired
  <1>4. CASE \E c \in Call : HookHears(c) \/ HookGivesUp(c) \/ Repost(c)
                               \/ RepostButtons(c) \/ RepostAttachTs(c)
    BY <1>4 DEF HookHears, HookGivesUp, Repost, RepostButtons, RepostAttachTs
  <1>5. CASE \E k \in Press : Claim(k)
    BY <1>5
  <1>6. CASE \E k \in Press : \/ \E c \in Call, u \in User, a \in Choice : PressButton(k, c, u, a)
                              \/ CheckDecider(k) \/ ReadRow(k) \/ StartGranting(k)
                              \/ \E p \in Pattern : AddGrant(k, p)
                              \/ Settle(k) \/ Stamp(k)
    BY <1>6 DEF PressButton, CheckDecider, ReadRow, StartGranting, AddGrant, Settle, Stamp
  <1>7. CASE \/ \E r \in Run : RegisterRun(r) \/ UnregisterRun(r)
             \/ \E p \in Pattern : RevokeGrant(p)
             \/ RevokeAll
             \/ \E u \in User : AddApprover(u) \/ RemoveApprover(u)
             \/ Crash
    BY <1>7 DEF RegisterRun, UnregisterRun, RevokeGrant, RevokeAll, AddApprover, RemoveApprover,
                Crash
  <1>8. QED BY <1>1, <1>2, <1>3, <1>4, <1>5, <1>6, <1>7 DEF Next

\* Only the claim of a decider's press approves a row; only a full cover is found.
LEMMA RowsNext == GateInv /\ Next => RowsAreDecided'
  <1> SUFFICES ASSUME GateInv, Next PROVE RowsAreDecided'
    OBVIOUS
  <1>0. /\ RowsAreDecided /\ PressInOrder
        /\ row \in [Call -> {"none", "pending", "approved", "denied", "timeout"}]
        /\ by \in [Call -> Press \cup {NoPress}]
        /\ pc \in [Call -> Suspended \cup {"idle", "done", "gone"}]
        /\ granted \in [Call -> SUBSET Grant]
        /\ pressOf \in [Press -> PressInfo]
        /\ seated \subseteq Press
    BY DEF GateInv, TypeOK
  <1>p. Permanent BY NextIsPermanent
  <1>w. \A c \in Call : Won(c) => Won(c)'
    BY <1>p, WonStays
  <1>f. \A c \in Call : Found(c) /\ granted'[c] = granted[c] => Found(c)'
    BY <1>0, <1>p, FoundStays
  <1>1. CASE /\ UNCHANGED granted
             /\ \A c \in Call : row'[c] = "approved" => row[c] = "approved"
    BY <1>0, <1>1, <1>w, <1>f DEF RowsAreDecided
  <1>2. ASSUME NEW k \in Press, Claim(k)
        PROVE  RowsAreDecided'
    <2> DEFINE c == pressOf[k].call
    <2>1. c \in Call /\ k \in seated /\ UNCHANGED <<granted, pressOf, seated>>
      BY <1>0, <1>2 DEF PressInfo, PressInOrder, Claim, Advance, request, history
    <2>2. \A d \in Call \ {c} : row'[d] = row[d]
      BY <1>0, <1>2 DEF Claim, Resolve, table
    <2>3. row'[c] = "approved" => Won(c)'
      <3>1. CASE row[c] = "approved"
        BY <1>0, <1>w, <2>1, <3>1 DEF RowsAreDecided
      <3>2. CASE row[c] # "approved" /\ row'[c] = "approved"
        <4>1. by'[c] = k /\ Outcome(pressOf[k].choice) = "approved"
          BY <1>0, <1>2, <2>1, <3>2 DEF Claim, Resolve, table
        <4>2. QED BY <2>1, <3>2, <4>1 DEF Won, Outcome
      <3>3. QED BY <3>1, <3>2
    <2>4. QED BY <1>0, <1>w, <1>f, <2>1, <2>2, <2>3 DEF RowsAreDecided
  <1>3. ASSUME NEW c \in Call, FindGrant(c)
        PROVE  RowsAreDecided'
    <2>1. UNCHANGED row /\ \A d \in Call \ {c} : granted'[d] = granted[d]
      BY <1>0, <1>3 DEF FindGrant, table
    <2>2. pc'[c] = "granted" \/ granted'[c] = granted[c]
      BY <1>0, <1>3 DEF FindGrant, Go
    <2>3. pc'[c] = "granted" => Found(c)'
      BY <1>3, FoundByMatching
    <2>4. QED BY <1>0, <1>w, <1>f, <2>1, <2>2, <2>3 DEF RowsAreDecided
  <1>4. QED BY <1>1, <1>2, <1>3, NextIsWarrantStep DEF WarrantStep, GateInv

\* Every step preserves the inductive invariant.
LEMMA GateNext == GateInv /\ [Next]_vars => GateInv'
  <1> SUFFICES ASSUME GateInv, [Next]_vars PROVE GateInv'
    OBVIOUS
  <1>1. CASE Next
    BY <1>1, TypeNext, AllowNext, HandlerNext, PressNext, GrantsNext, RowsNext DEF GateInv
  <1>2. CASE UNCHANGED vars
    <2> USE <1>2 DEF vars, memory, request, table, slack, people, history, pressing
    <2>1. TypeOK' BY TypeNext DEF GateInv
    <2>2. (\A c \in Call : Won(c)' = Won(c) /\ Found(c)' = Found(c))
          /\ (\A k, p : Minted(k, p)' = Minted(k, p))
      BY DEF Won, Found, Minted
    <2>3. AllowIsWarranted' BY <2>2 DEF GateInv, AllowIsWarranted
    <2>4. HandlerInOrder' BY DEF GateInv, HandlerInOrder
    <2>5. PressInOrder' BY DEF GateInv, PressInOrder, Deciders
    <2>6. GrantsAreMinted' BY <2>2 DEF GateInv, GrantsAreMinted
    <2>7. RowsAreDecided' BY <2>2 DEF GateInv, RowsAreDecided
    <2>8. QED BY <2>1, <2>3, <2>4, <2>5, <2>6, <2>7 DEF GateInv
  <1>3. QED BY <1>1, <1>2

-----------------------------------------------------------------------------
(* The theorems.                                                           *)

\* The inductive invariant holds in every reachable state.
THEOREM GateInvariant == Spec => []GateInv
  <1>1. QED BY GateInit, GateNext, PTL DEF Spec

\* No tool call is allowed without a decider's press that won the call's own approval, or
\* standing grants that such presses made: for any number of calls, presses and people.
THEOREM AllowedOnlyByDecision == Spec => []AllowedMeansDecided
  <1>1. GateInv => AllowedMeansDecided
    BY DEF GateInv, AllowIsWarranted, AllowedMeansDecided, HandlerInOrder
  <1>2. QED BY <1>1, GateInvariant, PTL

\* A grants row is only ever written for the one press that resolved an approval with
\* "Always allow", whose user could decide, and for a pattern of that approval's suggestion.
THEOREM GrantsAreDecided == Spec => []GrantsAreMinted
  <1>1. GateInv => GrantsAreMinted BY DEF GateInv
  <1>2. QED BY <1>1, GateInvariant, PTL

\* resolve_approval takes a row out of "pending" once, whoever races for it.
THEOREM ResolvedStays == Spec => ResolvedIsFinal
  <1>1. GateInv /\ [Next]_vars
          => [\A c \in Call : row[c] \notin {"none", "pending"}
                => row'[c] = row[c] /\ by'[c] = by[c]]_vars
    BY NextIsPermanent DEF Permanent
  <1>2. QED BY <1>1, GateInvariant, PTL DEF Spec, ResolvedIsFinal

-----------------------------------------------------------------------------
(* What a request leaves behind, and who is refused.                       *)

\* Every way out of _handle_approve drops the future and the id it had registered.
LEMMA ForgottenNext ==
  ASSUME TypeOK, NothingLeftBehind, [Next]_vars
  PROVE  NothingLeftBehind'
  <1> DEFINE Held == {"posting", "attaching", "waiting", "expiring", "stamping"}
  <1> USE DEF NothingLeftBehind, Go, Respond, Forget, memory, request
  <1>0. /\ waiters \subseteq Call /\ ids \subseteq Call
        /\ pc \in [Call -> Suspended \cup {"idle", "done", "gone"}]
    BY DEF TypeOK
  <1>1. ASSUME NEW c \in Call, \A d \in Call \ {c} : pc'[d] = pc[d],
               pc[c] \in Held => pc'[c] \in Held \/ c \notin waiters' \cup ids',
               waiters' \cup ids' \subseteq waiters \cup ids
        PROVE  NothingLeftBehind'
    BY <1>0, <1>1
  <1>2. ASSUME NEW c \in Call, StartWaiting(c) PROVE NothingLeftBehind'
    BY <1>0, <1>2 DEF StartWaiting
  <1>3. ASSUME NEW c \in Call,
               \/ PostButtons(c) \/ PostFails(c) \/ AttachTs(c) \/ Answered(c) \/ WindowCloses(c)
               \/ ExpireRow(c) \/ FinishExpired(c)
        PROVE  NothingLeftBehind'
    BY <1>0, <1>1, <1>3 DEF PostButtons, PostFails, AttachTs, Answered, WindowCloses, ExpireRow,
                            FinishExpired
  <1>4. ASSUME NEW c \in Call,
               Ask(c) \/ FindGrant(c) \/ ReplyGranted(c) \/ OpenApproval(c) \/ DenyUnposted(c)
        PROVE  NothingLeftBehind'
    BY <1>0, <1>1, <1>4 DEF Ask, FindGrant, ReplyGranted, OpenApproval, DenyUnposted
  <1>5. CASE \E r \in Run : RegisterRun(r) \/ UnregisterRun(r)
    BY <1>0, <1>5 DEF RegisterRun, UnregisterRun
  <1>6. CASE \E c \in Call : HookHears(c) \/ HookGivesUp(c) \/ Repost(c)
                               \/ RepostButtons(c) \/ RepostAttachTs(c)
    BY <1>0, <1>6 DEF HookHears, HookGivesUp, Repost, RepostButtons, RepostAttachTs
  <1>7. CASE \E k \in Press : \/ \E c \in Call, u \in User, a \in Choice : PressButton(k, c, u, a)
                              \/ CheckDecider(k) \/ ReadRow(k) \/ Claim(k) \/ StartGranting(k)
                              \/ \E p \in Pattern : AddGrant(k, p)
                              \/ Settle(k) \/ Stamp(k)
    BY <1>0, <1>7 DEF PressButton, CheckDecider, ReadRow, Claim, StartGranting, AddGrant, Settle,
                      Stamp
  <1>8. CASE \/ \E p \in Pattern : RevokeGrant(p)
             \/ RevokeAll
             \/ \E u \in User : AddApprover(u) \/ RemoveApprover(u)
    BY <1>0, <1>8 DEF RevokeGrant, RevokeAll, AddApprover, RemoveApprover
  <1>9. CASE Crash
    BY <1>0, <1>9 DEF Crash
  <1>10. CASE UNCHANGED vars
    BY <1>0, <1>10 DEF vars
  <1>11. QED BY <1>2, <1>3, <1>4, <1>5, <1>6, <1>7, <1>8, <1>9, <1>10 DEF Next

\* However a request ends, its future and its id are gone with it.
THEOREM RequestsCleanUp == Spec => []NothingLeftBehind
  <1>1. Init => NothingLeftBehind BY DEF Init, NothingLeftBehind
  <1>2. TypeOK /\ NothingLeftBehind /\ [Next]_vars => NothingLeftBehind'
    BY ForgottenNext
  <1>3. QED BY <1>1, <1>2, TypeCorrect, PTL DEF Spec

\* A press that is steady was made by somebody who still may decide.
SteadyInv ==
  /\ RefusedOnlyIfUnseated
  /\ \A k \in steady : press[k] # "idle"
  /\ \A k \in steady : press[k] = "checking" => pressOf[k].user \in Deciders

\* Who was a decider ever since the press is one when the press is checked.
LEMMA SteadyNext ==
  ASSUME TypeOK, SteadyInv, [Next]_vars
  PROVE  SteadyInv'
  <1> USE DEF SteadyInv, RefusedOnlyIfUnseated, Advance, PressInFlight, history, people, pressing
  <1>0. /\ steady \subseteq Press
        /\ press \in [Press -> PressInFlight \cup {"idle", "refused", "over"}]
        /\ pressOf \in [Press -> PressInfo]
    BY DEF TypeOK
  <1>1. ASSUME UNCHANGED <<steady, approvers, pressOf>>,
               \A k \in Press : \/ press'[k] = press[k]
                                \/ press'[k] \notin {"idle", "checking", "refused"}
        PROVE  SteadyInv'
    BY <1>0, <1>1 DEF Deciders
  <1>2. ASSUME NEW k \in Press, NEW c \in Call, NEW u \in User, NEW a \in Choice,
               PressButton(k, c, u, a)
        PROVE  SteadyInv'
    BY <1>0, <1>2 DEF PressButton, PressInfo, Deciders
  <1>3. ASSUME NEW k \in Press, CheckDecider(k) PROVE SteadyInv'
    BY <1>0, <1>3 DEF CheckDecider, Deciders
  <1>4. ASSUME NEW k \in Press,
               \/ ReadRow(k) \/ Claim(k) \/ StartGranting(k) \/ Settle(k) \/ Stamp(k)
               \/ \E p \in Pattern : AddGrant(k, p)
        PROVE  SteadyInv'
    BY <1>0, <1>1, <1>4 DEF ReadRow, Claim, StartGranting, Settle, Stamp, AddGrant
  <1>5. ASSUME NEW u \in User, AddApprover(u) PROVE SteadyInv'
    BY <1>0, <1>5 DEF AddApprover, Deciders
  <1>6. ASSUME NEW u \in User, RemoveApprover(u) PROVE SteadyInv'
    BY <1>0, <1>6 DEF RemoveApprover, Removable, PressesOf, Deciders
  <1>7. CASE \/ \E p \in Pattern : RevokeGrant(p)
             \/ RevokeAll
             \/ Crash
             \/ \E r \in Run : RegisterRun(r) \/ UnregisterRun(r)
             \/ UNCHANGED vars
    BY <1>0, <1>1, <1>7 DEF RevokeGrant, RevokeAll, Crash, RegisterRun, UnregisterRun, vars
  <1>8. CASE \E c \in Call : \/ Ask(c) \/ FindGrant(c) \/ ReplyGranted(c) \/ OpenApproval(c)
                             \/ StartWaiting(c) \/ PostButtons(c) \/ PostFails(c)
                             \/ DenyUnposted(c) \/ AttachTs(c) \/ Answered(c)
                             \/ WindowCloses(c) \/ ExpireRow(c) \/ FinishExpired(c)
                             \/ HookHears(c) \/ HookGivesUp(c) \/ Repost(c)
                             \/ RepostButtons(c) \/ RepostAttachTs(c)
    BY <1>0, <1>1, <1>8 DEF Ask, FindGrant, ReplyGranted, OpenApproval, StartWaiting, PostButtons,
                PostFails, DenyUnposted, AttachTs, Answered, WindowCloses, ExpireRow,
                FinishExpired, HookHears, HookGivesUp, Repost, RepostButtons, RepostAttachTs
  <1>9. QED BY <1>2, <1>3, <1>4, <1>5, <1>6, <1>7, <1>8 DEF Next

\* Nobody who may decide throughout is turned away, whatever the runtime list goes through.
THEOREM DecidersAreHeard == Spec => []RefusedOnlyIfUnseated
  <1>1. Init => SteadyInv BY DEF Init, SteadyInv, RefusedOnlyIfUnseated
  <1>2. TypeOK /\ SteadyInv /\ [Next]_vars => SteadyInv'
    BY SteadyNext
  <1>3. SteadyInv => RefusedOnlyIfUnseated BY DEF SteadyInv
  <1>4. QED BY <1>1, <1>2, <1>3, TypeCorrect, PTL DEF Spec

\* Buttons go away only after the row was resolved: a press stamps what it has claimed,
\* and the handler stamps when it is done waiting.
ButtonsInv ==
  /\ \A c \in Call : pc[c] \in {"attaching", "waiting"} /\ row[c] = "pending" => buttons[c] # {}
  /\ \A k \in Press : press[k] \in {"claimed", "granting", "stamping"}
                        => row[pressOf[k].call] \notin {"none", "pending"}

\* A request loses live buttons only to handlers of a row that is resolved already.
LEMMA ButtonsNext ==
  ASSUME GateInv, ButtonsInv, [Next]_vars
  PROVE  ButtonsInv'
  <1> USE DEF ButtonsInv, Advance, Go, Respond, request, table, slack, pressing
  <1>0. /\ row \in [Call -> {"none", "pending", "approved", "denied", "timeout"}]
        /\ pc \in [Call -> Suspended \cup {"idle", "done", "gone"}]
        /\ buttons \in [Call -> SUBSET Message]
        /\ press \in [Press -> PressInFlight \cup {"idle", "refused", "over"}]
        /\ pressOf \in [Press -> PressInfo]
        /\ \A k \in Press : pressOf[k].call \in Call
    BY DEF GateInv, TypeOK, PressInfo
  <1>p. Permanent BY NextIsPermanent
  \* A step that takes no button away and claims nothing.
  <1>1. ASSUME \A c \in Call : buttons[c] \subseteq buttons'[c],
               \A c \in Call : row[c] \notin {"none", "pending"} => row'[c] = row[c],
               \A c \in Call : row'[c] = "pending" =>
                  row[c] = "pending" \/ pc'[c] \notin {"attaching", "waiting"},
               \A c \in Call : pc'[c] \in {"attaching", "waiting"} =>
                  pc[c] \in {"attaching", "waiting"} \/ buttons'[c] # {},
               \A k \in Press : press'[k] \in {"claimed", "granting", "stamping"} =>
                  press[k] \in {"claimed", "granting", "stamping"} /\ pressOf'[k] = pressOf[k]
        PROVE  ButtonsInv'
    BY <1>0, <1>1
  <1>r. \A c \in Call : row[c] \notin {"none", "pending"} => row'[c] = row[c]
    BY <1>p DEF Permanent
  <1>2. ASSUME NEW c \in Call, FinishExpired(c) PROVE ButtonsInv'
    BY <1>0, <1>2 DEF FinishExpired, FinalizeMessage
  <1>3. ASSUME NEW c \in Call,
               \/ Ask(c) \/ FindGrant(c) \/ ReplyGranted(c) \/ OpenApproval(c)
               \/ StartWaiting(c) \/ PostButtons(c) \/ PostFails(c) \/ DenyUnposted(c)
               \/ AttachTs(c) \/ Answered(c) \/ WindowCloses(c) \/ ExpireRow(c)
        PROVE  ButtonsInv'
    <2>1. UNCHANGED <<press, pressOf>>
      BY <1>3 DEF Ask, FindGrant, ReplyGranted, OpenApproval, StartWaiting, PostButtons, PostFails,
                  DenyUnposted, AttachTs, Answered, WindowCloses, ExpireRow
    <2>2. \A d \in Call : buttons[d] \subseteq buttons'[d]
      BY <1>0, <1>3 DEF Ask, FindGrant, ReplyGranted, OpenApproval, StartWaiting, PostButtons,
                  PostFails, DenyUnposted, AttachTs, Answered, WindowCloses, ExpireRow
    <2>3. \A d \in Call : row'[d] = "pending" =>
             row[d] = "pending" \/ pc'[d] \notin {"attaching", "waiting"}
      BY <1>0, <1>3 DEF Ask, FindGrant, ReplyGranted, OpenApproval, StartWaiting, PostButtons,
                  PostFails, DenyUnposted, AttachTs, Answered, WindowCloses, ExpireRow, Resolve
    <2>4. \A d \in Call : pc'[d] \in {"attaching", "waiting"} =>
             pc[d] \in {"attaching", "waiting"} \/ buttons'[d] # {}
      <3>1. CASE PostButtons(c)
        <4>1. "first" \in buttons'[c] /\ \A d \in Call \ {c} : pc'[d] = pc[d]
          BY <1>0, <3>1 DEF PostButtons
        <4>2. QED BY <4>1
      <3>2. CASE ~ PostButtons(c)
        <4>1. \A d \in Call \ {c} : pc'[d] = pc[d]
          BY <1>0, <1>3, <3>2 DEF Ask, FindGrant, ReplyGranted, OpenApproval, StartWaiting,
                  PostFails, DenyUnposted, AttachTs, Answered, WindowCloses, ExpireRow
        <4>2. pc'[c] \in {"attaching", "waiting"} => pc[c] = "attaching"
          BY <1>0, <1>3, <3>2 DEF Ask, FindGrant, ReplyGranted, OpenApproval, StartWaiting,
                  PostFails, DenyUnposted, AttachTs, Answered, WindowCloses, ExpireRow
        <4>3. QED BY <4>1, <4>2
      <3>3. QED BY <3>1, <3>2
    <2>5. QED BY <1>1, <1>r, <2>1, <2>2, <2>3, <2>4
  <1>4. ASSUME NEW c \in Call,
               HookHears(c) \/ HookGivesUp(c) \/ Repost(c) \/ RepostButtons(c) \/ RepostAttachTs(c)
        PROVE  ButtonsInv'
    <2>1. UNCHANGED <<press, pressOf, row, pc>>
      BY <1>4 DEF HookHears, HookGivesUp, Repost, RepostButtons, RepostAttachTs
    <2>2. \A d \in Call : buttons[d] \subseteq buttons'[d]
      BY <1>0, <1>4 DEF HookHears, HookGivesUp, Repost, RepostButtons, RepostAttachTs
    <2>3. QED BY <1>0, <1>1, <2>1, <2>2
  <1>5. ASSUME NEW k \in Press, Claim(k) PROVE ButtonsInv'
    <2> DEFINE c == pressOf[k].call
    <2>1. /\ UNCHANGED <<buttons, pc, pressOf>> /\ \A j \in Press \ {k} : press'[j] = press[j]
          /\ press'[k] = IF row[c] = "pending" THEN "claimed" ELSE "over"
          /\ \A d \in Call \ {c} : row'[d] = row[d]
          /\ row'[c] = IF row[c] = "pending" THEN Outcome(pressOf[k].choice) ELSE row[c]
      BY <1>0, <1>5 DEF Claim, Resolve
    <2>2. Outcome(pressOf[k].choice) \in {"approved", "denied"} BY DEF Outcome
    <2>3. QED BY <1>0, <2>1, <2>2
  <1>6. ASSUME NEW k \in Press, Stamp(k) PROVE ButtonsInv'
    <2> DEFINE c == pressOf[k].call
    <2>1. /\ UNCHANGED <<row, pc, pressOf>> /\ \A j \in Press \ {k} : press'[j] = press[j]
          /\ press[k] = "stamping" /\ press'[k] = "over"
          /\ \A d \in Call \ {c} : buttons'[d] = buttons[d]
      BY <1>0, <1>6 DEF Stamp, FinalizeMessage
    <2>2. QED BY <1>0, <2>1
  <1>7. ASSUME NEW k \in Press,
               \/ \E c \in Call, u \in User, a \in Choice : PressButton(k, c, u, a)
               \/ CheckDecider(k) \/ ReadRow(k) \/ StartGranting(k) \/ Settle(k)
               \/ \E p \in Pattern : AddGrant(k, p)
        PROVE  ButtonsInv'
    <2>1. UNCHANGED <<row, pc, buttons>>
      BY <1>7 DEF PressButton, CheckDecider, ReadRow, StartGranting, Settle, AddGrant
    <2>2. /\ \A j \in Press \ {k} : press'[j] = press[j] /\ pressOf'[j] = pressOf[j]
          /\ press'[k] \in {"claimed", "granting", "stamping"} =>
                press[k] \in {"claimed", "granting", "stamping"} /\ pressOf'[k] = pressOf[k]
      <3>1. CASE \E c \in Call, u \in User, a \in Choice : PressButton(k, c, u, a)
        BY <1>0, <3>1 DEF PressButton
      <3>2. CASE CheckDecider(k) BY <1>0, <3>2 DEF CheckDecider
      <3>3. CASE ReadRow(k) BY <1>0, <3>3 DEF ReadRow
      <3>4. CASE StartGranting(k) \/ Settle(k) BY <1>0, <3>4 DEF StartGranting, Settle
      <3>5. CASE \E p \in Pattern : AddGrant(k, p) BY <1>0, <3>5 DEF AddGrant
      <3>6. QED BY <1>7, <3>1, <3>2, <3>3, <3>4, <3>5
    <2>3. QED BY <1>0, <1>1, <2>1, <2>2
  <1>8. CASE \/ \E r \in Run : RegisterRun(r) \/ UnregisterRun(r)
             \/ \E p \in Pattern : RevokeGrant(p)
             \/ RevokeAll
             \/ \E u \in User : AddApprover(u) \/ RemoveApprover(u)
             \/ UNCHANGED vars
    <2>1. UNCHANGED <<row, pc, buttons, press, pressOf>>
      BY <1>8 DEF RegisterRun, UnregisterRun, RevokeGrant, RevokeAll, AddApprover, RemoveApprover,
                  vars
    <2>2. QED BY <1>0, <1>1, <2>1
  <1>9. CASE Crash
    <2>1. /\ UNCHANGED <<row, buttons, pressOf>>
          /\ \A c \in Call : pc'[c] = pc[c] \/ pc'[c] = "gone"
          /\ \A k \in Press : press'[k] = press[k] \/ press'[k] = "over"
      BY <1>0, <1>9 DEF Crash
    <2>2. QED BY <1>0, <1>1, <2>1
  <1>10. QED BY <1>2, <1>3, <1>4, <1>5, <1>6, <1>7, <1>8, <1>9 DEF Next

\* A request that still waits for a person always shows somebody live buttons.
THEOREM SomebodyCanAnswer == Spec => []WaitingCanBeAnswered
  <1>1. Init => ButtonsInv BY DEF Init, ButtonsInv
  <1>2. GateInv /\ ButtonsInv /\ [Next]_vars => ButtonsInv'
    BY ButtonsNext
  <1>3. ButtonsInv => WaitingCanBeAnswered BY DEF ButtonsInv, WaitingCanBeAnswered
  <1>4. QED BY <1>1, <1>2, <1>3, GateInvariant, PTL DEF Spec

-----------------------------------------------------------------------------
(* The gate implements ToolGate.                                           *)

\* The calls ToolGate has warranted, by GateInv the approved rows and the found grants.
Warranted == {c \in Call : Won(c) \/ Found(c)}

\* The warranted calls are those with an approved row or a cover that was found.
LEMMA WarrantedIs ==
  ASSUME RowsAreDecided
  PROVE  Warranted = {c \in Call : row[c] = "approved" \/ granted[c] # {}}
  <1>1. \A c \in Call : Won(c) => row[c] = "approved" BY DEF Won
  <1>2. \A c \in Call : Found(c) => granted[c] # {} BY DEF Found
  <1>3. QED BY <1>1, <1>2 DEF Warranted, RowsAreDecided

\* The same in the next state.
LEMMA WarrantedIsNext ==
  ASSUME RowsAreDecided'
  PROVE  Warranted' = {c \in Call : row'[c] = "approved" \/ granted'[c] # {}}
  <1>1. \A c \in Call : Won(c)' => row'[c] = "approved" BY DEF Won
  <1>2. \A c \in Call : Found(c)' => granted'[c] # {} BY DEF Found
  <1>3. QED BY <1>1, <1>2 DEF Warranted, RowsAreDecided

\* The state of ToolGate when the gate starts.
LEMMA RefinesInit == Init => Gate!Init
  <1> SUFFICES ASSUME Init PROVE Gate!Init
    OBVIOUS
  <1>1. hook = [c \in Call |-> "idle"] BY DEF Init
  <1>2. \A c \in Call : ~ Won(c) /\ ~ Found(c) BY DEF Init, Won, Found
  <1>3. QED BY <1>1, <1>2 DEF Gate!Init

\* What each step does to the hook.
HookStep == \/ UNCHANGED hook
            \/ \E c \in Call : Ask(c) \/ HookHears(c) \/ HookGivesUp(c)

\* The hook's verdict is moved by the hook's own actions only.
LEMMA NextIsHookStep == Next => HookStep
  <1> SUFFICES ASSUME Next PROVE HookStep
    OBVIOUS
  <1> USE DEF HookStep
  <1>1. CASE \E c \in Call : Ask(c) \/ HookHears(c) \/ HookGivesUp(c)
    BY <1>1
  <1>2. CASE \E c \in Call : \/ FindGrant(c) \/ ReplyGranted(c) \/ OpenApproval(c)
                             \/ StartWaiting(c) \/ PostButtons(c) \/ PostFails(c)
                             \/ DenyUnposted(c) \/ AttachTs(c) \/ Answered(c)
                             \/ WindowCloses(c) \/ ExpireRow(c) \/ FinishExpired(c)
                             \/ Repost(c) \/ RepostButtons(c) \/ RepostAttachTs(c)
    BY <1>2 DEF FindGrant, ReplyGranted, OpenApproval, StartWaiting, PostButtons, PostFails,
                DenyUnposted, AttachTs, Answered, WindowCloses, ExpireRow, FinishExpired,
                Repost, RepostButtons, RepostAttachTs
  <1>3. CASE \E k \in Press : \/ \E c \in Call, u \in User, a \in Choice : PressButton(k, c, u, a)
                              \/ CheckDecider(k) \/ ReadRow(k) \/ Claim(k) \/ StartGranting(k)
                              \/ \E p \in Pattern : AddGrant(k, p)
                              \/ Settle(k) \/ Stamp(k)
    BY <1>3 DEF PressButton, CheckDecider, ReadRow, Claim, StartGranting, AddGrant, Settle, Stamp
  <1>4. CASE \/ \E r \in Run : RegisterRun(r) \/ UnregisterRun(r)
             \/ \E p \in Pattern : RevokeGrant(p)
             \/ RevokeAll
             \/ \E u \in User : AddApprover(u) \/ RemoveApprover(u)
             \/ Crash
    BY <1>4 DEF RegisterRun, UnregisterRun, RevokeGrant, RevokeAll, AddApprover, RemoveApprover,
                Crash
  <1>5. QED BY <1>1, <1>2, <1>3, <1>4 DEF Next

\* Claim and FindGrant leave the hook alone and warrant at most one call more.
LEMMA RefinesWarrant ==
  ASSUME GateInv, GateInv', Next,
         (\E k \in Press : Claim(k)) \/ (\E c \in Call : FindGrant(c))
  PROVE  /\ UNCHANGED hook
         /\ \/ Warranted' = Warranted
            \/ \E c \in Call \ Warranted : Warranted' = Warranted \cup {c}
  <1>0. /\ row \in [Call -> {"none", "pending", "approved", "denied", "timeout"}]
        /\ granted \in [Call -> SUBSET Grant]
        /\ pressOf \in [Press -> PressInfo]
    BY DEF GateInv, TypeOK
  <1>1. Warranted = {c \in Call : row[c] = "approved" \/ granted[c] # {}}
    BY WarrantedIs DEF GateInv
  <1>2. Warranted' = {c \in Call : row'[c] = "approved" \/ granted'[c] # {}}
    BY WarrantedIsNext DEF GateInv
  <1>3. UNCHANGED hook
    BY DEF Claim, FindGrant
  <1>4. PICK d \in Call :
          /\ \A c \in Call \ {d} : row'[c] = row[c] /\ granted'[c] = granted[c]
          /\ d \in Warranted => d \in Warranted'
    <2>1. Permanent BY NextIsPermanent
    <2>2. ASSUME NEW k \in Press, Claim(k)
          PROVE  LET c == pressOf[k].call IN
                 /\ c \in Call /\ UNCHANGED granted
                 /\ \A e \in Call \ {c} : row'[e] = row[e]
                 /\ row[c] = "approved" => row'[c] = "approved"
      BY <1>0, <2>1, <2>2 DEF Claim, Resolve, table, request, PressInfo, Permanent
    <2>3. ASSUME NEW c \in Call, FindGrant(c)
          PROVE  /\ UNCHANGED row
                 /\ \A e \in Call \ {c} : granted'[e] = granted[e]
                 /\ granted[c] # {} => granted'[c] # {}
      <3>1. CASE Covered(c)
        <4>1. /\ Needs[c] # {}
              /\ granted'[c] = {[pattern |-> p, createdBy |-> grants[p]] : p \in Needs[c]}
          BY <1>0, <2>3, <3>1 DEF FindGrant, Covered
        <4>2. granted'[c] # {} BY <4>1
        <4>3. QED BY <1>0, <2>3, <4>2 DEF FindGrant, table
      <3>2. CASE ~ Covered(c)
        BY <2>3, <3>2 DEF FindGrant, table
      <3>3. QED BY <3>1, <3>2
    <2>4. QED BY <1>1, <1>2, <2>2, <2>3
  <1>5. QED BY SMTT(20), <1>1, <1>2, <1>3, <1>4

\* Every step of the gate is a step of ToolGate, or one ToolGate does not see.
LEMMA RefinesNext ==
  GateInv /\ GateInv' /\ [Next]_vars => [Gate!Next]_(Gate!gateVars)
  <1> SUFFICES ASSUME GateInv, GateInv', [Next]_vars
               PROVE  Gate!Next \/ (UNCHANGED hook /\ Warranted' = Warranted)
    BY DEF Gate!gateVars, Warranted
  <1> USE DEF Gate!Next, Gate!Ask, Gate!Allow, Gate!Deny, Gate!Warrant
  <1>0. /\ hook \in [Call -> {"idle", "asking", "allow", "deny"}]
        /\ reply \in [Call -> {"none", "allow", "deny"}]
        /\ AllowIsWarranted
    BY DEF GateInv, TypeOK
  <1>1. CASE UNCHANGED vars
    BY <1>1 DEF vars, Warranted, Won, Found, Minted, table, request, history, pressing
  <1>2. CASE Next /\ ((\E k \in Press : Claim(k)) \/ (\E c \in Call : FindGrant(c)))
    BY <1>2, RefinesWarrant DEF Warranted
  <1>3. CASE Next /\ UNCHANGED granted /\ \A c \in Call : row'[c] = "approved" => row[c] = "approved"
    <2>1. Warranted' = Warranted
      <3>1. Permanent BY NextIsPermanent
      <3>2. Warranted = {c \in Call : row[c] = "approved" \/ granted[c] # {}}
        BY WarrantedIs DEF GateInv
      <3>3. Warranted' = {c \in Call : row'[c] = "approved" \/ granted'[c] # {}}
        BY WarrantedIsNext DEF GateInv
      <3>4. QED BY <1>3, <3>1, <3>2, <3>3 DEF Permanent
    <2>2. CASE UNCHANGED hook
      BY <2>1, <2>2
    <2>3. ASSUME NEW c \in Call, Ask(c)
          PROVE  Gate!Next
      BY <2>1, <2>3 DEF Ask, Warranted
    <2>4. ASSUME NEW c \in Call, HookGivesUp(c)
          PROVE  Gate!Next
      BY <2>1, <2>4 DEF HookGivesUp, Warranted
    <2>5. ASSUME NEW c \in Call, HookHears(c)
          PROVE  Gate!Next
      <3>1. CASE reply[c] = "allow"
        <4>1. c \in Warranted BY <1>0, <3>1 DEF AllowIsWarranted, Warranted
        <4>2. QED BY <2>1, <2>5, <3>1, <4>1 DEF HookHears, Warranted
      <3>2. CASE reply[c] = "deny"
        BY <2>1, <2>5, <3>2 DEF HookHears, Warranted
      <3>3. QED BY <1>0, <2>5, <3>1, <3>2 DEF HookHears
    <2>6. QED BY <1>3, <2>2, <2>3, <2>4, <2>5, NextIsHookStep DEF HookStep
  <1>4. QED BY <1>1, <1>2, <1>3, NextIsWarrantStep DEF WarrantStep, GateInv

\* The daemon's gate keeps ToolGate's promise to the agent, races, crashes and all.
THEOREM GateImplements == Spec => ImplementsToolGate
  <1>1. QED BY RefinesInit, RefinesNext, GateInvariant, PTL DEF Spec, ImplementsToolGate, Gate!Spec
=============================================================================
