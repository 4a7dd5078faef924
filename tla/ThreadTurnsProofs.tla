------------------------- MODULE ThreadTurnsProofs -------------------------
(***************************************************************************)
(* Theorems about ThreadTurns, for any number of messages, any mix of      *)
(* replies, mentions and commands, and any transcript length.              *)
(***************************************************************************)
EXTENDS ThreadTurns, TLAPS

USE TurnsAssumption

\* The number of messages is positive.
LEMMA NIsNat == N \in Nat \ {0}
  OBVIOUS

-----------------------------------------------------------------------------
(* The inductive invariant, part by part.                                 *)

\* A handler exists for what has been posted.
Posted == \A m \in Msg : pc[m] = "unsent" <=> m > Len(thread)

\* The lock: one place per handler, and a session as soon as a turn is entered.
Locked ==
  /\ LockServesTurns
  /\ \A i, j \in 1..Len(queue) : queue[i] = queue[j] => i = j
  /\ \A m \in Msg : pc[m] \in InTurn => owned

\* Everything shown is at or below the watermark, and the turn that has read the
\* watermark stays the only one to show anything until it starts its run.
Shown ==
  /\ \A x \in seen : x <= mark
  /\ \A m \in Msg : pc[m] = "starting" => m <= mark
  /\ \A m \in Msg : pc[m] = "fetching" => \A x \in seen : x <= since[m]
  /\ \A m \in Msg : pc[m] \in {"unsent", "sent", "admitted", "queued", "catching", "fetching"}
                                \cup Routing => quoted[m] = {}
  /\ \A m \in Msg : pc[m] \in {"marking", "starting"} => quoted[m] \cap seen = {}
  /\ OnlyOlderTalkIsQuoted

\* Events start in the order of posting; tidy handlers also route in that order.
Ordered ==
  \A e, m \in Msg :
     /\ pc[e] = "sent" \/ (tidy /\ pc[e] \in Routing)
     /\ e < m
     => pc[m] \in {"unsent", "sent", "lost"}

\* A message still to be routed is newer than anything shown or swallowed; one that was
\* admitted is older than whatever the pause in force swallowed.
PauseInOrder ==
  /\ swallowed # {} => mode = "paused"
  /\ tidy => /\ \A e \in Msg : pc[e] \in {"unsent", "sent"} \cup Routing
                                 => \A x \in seen \cup swallowed : x < e
             /\ \A m \in Msg : pc[m] \in {"admitted", "queued"} \cup InTurn
                                 => \A x \in swallowed : m < x
             /\ swallowed \cap seen = {}

\* What |resume buried is below the watermark and outside every transcript in the making.
Buried ==
  tidy => /\ \A x \in buried : x <= mark
          /\ \A m \in Msg : pc[m] \in {"unsent", "sent", "admitted", "queued"} \cup Routing \cup InTurn
                              => m \notin buried \/ pc[m] = "running"
          /\ \A m \in Msg : pc[m] = "fetching" => \A x \in buried : x < m => x <= since[m]
          /\ \A m \in Msg : pc[m] \in {"marking", "starting"} => quoted[m] \cap buried = {}
          /\ buried \cap seen = {}

TurnInv == TypeOK /\ Posted /\ Locked /\ Shown /\ Ordered /\ PauseInOrder /\ Buried

\* The inductive invariant holds when the thread is empty.
LEMMA TurnInit == Init => TurnInv
  <1> SUFFICES ASSUME Init PROVE TurnInv
    OBVIOUS
  <1> USE DEF Init
  <1>1. TypeOK
    <2>1. thread \in Seq(Post) /\ Len(thread) = 0 /\ queue \in Seq(Msg) OBVIOUS
    <2>2. 0 \in 0..N BY NIsNat
    <2>3. owned \in BOOLEAN /\ up \in BOOLEAN /\ tidy \in BOOLEAN OBVIOUS
    <2>4. Len(thread) <= N BY <2>1, NIsNat
    <2>5. /\ pc \in [Msg -> Active \cup {"unsent", "done", "ignored", "dropped", "lost"}]
          /\ since \in [Msg -> 0..N] /\ quoted \in [Msg -> SUBSET Msg]
      BY <2>2
    <2>6. QED BY <2>1, <2>2, <2>3, <2>4, <2>5 DEF TypeOK
  <1>2. Posted BY DEF Posted, Msg
  <1>3. Locked BY DEF Locked, LockServesTurns, InTurn
  <1>4. Shown BY DEF Shown, OnlyOlderTalkIsQuoted
  <1>5. Ordered BY DEF Ordered, Routing
  <1>6. PauseInOrder BY DEF PauseInOrder
  <1>7. Buried BY DEF Buried
  <1>8. QED BY <1>1, <1>2, <1>3, <1>4, <1>5, <1>6, <1>7 DEF TurnInv

\* The head of the queue is who runs a turn, so the lock is not empty then.
LEMMA HolderIsHead ==
  ASSUME TurnInv, NEW m \in Msg, pc[m] \in InTurn
  PROVE  /\ queue \in Seq(Msg) /\ queue # <<>> /\ Head(queue) = m
         /\ Tail(queue) \in Seq(Msg)
         /\ \A e \in Msg : pc[e] \in InTurn => e = m
  BY DEF TurnInv, TypeOK, Locked, LockServesTurns

\* Every step of a handler, of Slack or of a crash keeps the types.
LEMMA TypeNext ==
  ASSUME TurnInv, Next
  PROVE  TypeOK'
  <1> USE DEF TypeOK, Go, Active, Routing, InTurn, Msg, store, turn, history
  <1>0. TypeOK BY DEF TurnInv
  <1>1. ASSUME NEW p \in Post, PostMessage(p) PROVE TypeOK'
    BY <1>0, <1>1 DEF PostMessage
  <1>2. ASSUME NEW m \in Msg, Deliver(m) \/ FindSession(m) \/ Pause(m) \/ Silent(m) PROVE TypeOK'
    BY <1>0, <1>2 DEF Deliver, FindSession, Pause, Silent
  <1>3. ASSUME NEW m \in Msg, Resume(m) PROVE TypeOK'
    BY <1>0, <1>3 DEF Resume, Advanced, Bury
  <1>4. ASSUME NEW m \in Msg, CheckMode(m) PROVE TypeOK'
    BY <1>0, <1>4 DEF CheckMode
  <1>5. ASSUME NEW m \in Msg, AwaitLock(m) \/ EnterTurn(m) \/ ReadWatermark(m) PROVE TypeOK'
    <2>1. CASE AwaitLock(m)
      <3>1. Append(queue, m) \in Seq(Msg) BY <1>0
      <3>2. QED BY <1>0, <2>1, <3>1 DEF AwaitLock
    <2>2. CASE EnterTurn(m) BY <1>0, <2>2 DEF EnterTurn
    <2>3. CASE ReadWatermark(m) BY <1>0, <2>3 DEF ReadWatermark
    <2>4. QED BY <1>5, <2>1, <2>2, <2>3
  <1>6. ASSUME NEW m \in Msg, Fetch(m) PROVE TypeOK'
    <2>1. Newest(Window(since[m], m)) \subseteq Msg
      BY DEF Newest, Window
    <2>2. QED BY ZenonT(40), <1>0, <1>6, <2>1 DEF Fetch
  <1>7. ASSUME NEW m \in Msg, MarkForwarded(m) PROVE TypeOK'
    BY <1>0, <1>7 DEF MarkForwarded, Advanced
  <1>8. ASSUME NEW m \in Msg, StartRun(m) PROVE TypeOK'
    <2>1. quoted[m] \subseteq Msg BY <1>0
    <2>2. QED BY <1>0, <1>8, <2>1 DEF StartRun
  <1>9. ASSUME NEW m \in Msg, PlaceholderFails(m) \/ VmDown(m) \/ EndTurn(m) PROVE TypeOK'
    <2>1. queue \in Seq(Msg) /\ Tail(queue) \in Seq(Msg)
      BY <1>9, HolderIsHead DEF PlaceholderFails, VmDown, EndTurn
    <2>2. QED BY <1>0, <1>9, <2>1 DEF PlaceholderFails, VmDown, EndTurn
  <1>10. CASE Crash \/ Restart
    <2>1. CASE Crash
      <3>1. <<>> \in Seq(Msg) OBVIOUS
      <3>2. QED BY <1>0, <2>1, <3>1 DEF Crash
    <2>2. CASE Restart BY <1>0, <2>2 DEF Restart
    <2>3. QED BY <1>10, <2>1, <2>2
  <1>11. QED BY <1>1, <1>2, <1>3, <1>4, <1>5, <1>6, <1>7, <1>8, <1>9, <1>10 DEF Next, Step

\* A message has a handler state exactly when it was posted, whatever step is taken.
LEMMA PostedNext ==
  ASSUME TurnInv, Next
  PROVE  Posted'
  <1> USE DEF Posted, Go, Active, Routing, InTurn, Msg
  <1>0. Posted /\ thread \in Seq(Post) /\ Len(thread) \in Nat
        /\ pc \in [Msg -> Active \cup {"unsent", "done", "ignored", "dropped", "lost"}]
    BY DEF TurnInv, TypeOK
  <1>1. ASSUME NEW p \in Post, PostMessage(p) PROVE Posted'
    <2>1. Len(thread') = Len(thread) + 1
      BY <1>0, <1>1 DEF PostMessage
    <2>2. QED BY <1>0, <1>1, <2>1, NIsNat DEF PostMessage
  <1>2. ASSUME NEW m \in Msg, Step(m) PROVE Posted'
    <2>1. UNCHANGED thread /\ pc[m] # "unsent" /\ pc'[m] # "unsent"
          /\ \A e \in Msg \ {m} : pc'[e] = pc[e]
      BY <1>0, <1>2 DEF Step, Deliver, FindSession, Pause, Silent, Resume, CheckMode, AwaitLock,
            EnterTurn, PlaceholderFails, ReadWatermark, Fetch, MarkForwarded, StartRun, VmDown,
            EndTurn
    <2>2. QED BY <1>0, <2>1
  <1>3. CASE Crash \/ Restart
    BY <1>0, <1>3 DEF Crash, Restart
  <1>4. QED BY <1>1, <1>2, <1>3 DEF Next

\* Every event starts its handler in order; a handler only ever moves on.
LEMMA OrderedNext ==
  ASSUME TurnInv, Next
  PROVE  Ordered'
  <1> USE DEF Ordered, Go, Active, Routing, InTurn
  <1>0. /\ Ordered /\ Posted /\ thread \in Seq(Post) /\ Len(thread) \in Nat
        /\ pc \in [Msg -> Active \cup {"unsent", "done", "ignored", "dropped", "lost"}]
    BY DEF TurnInv, TypeOK
  <1>1. ASSUME NEW p \in Post, PostMessage(p) PROVE Ordered'
    <2> DEFINE n == Len(thread) + 1
    <2>1. /\ n \in Msg /\ pc[n] = "unsent" /\ pc'[n] \in {"sent", "lost"} /\ UNCHANGED tidy
          /\ \A e \in Msg \ {n} : pc'[e] = pc[e]
      BY <1>0, <1>1 DEF PostMessage
    <2>2. \A m \in Msg : n < m => pc[m] = "unsent"
      BY <1>0, <2>1, NIsNat DEF Posted, Msg
    <2>3. QED BY <1>0, <2>1, <2>2
  <1>2. ASSUME NEW m \in Msg, Deliver(m) PROVE Ordered'
    <2>1. /\ pc[m] = "sent" /\ pc'[m] \in {"routing", "finding"} /\ UNCHANGED tidy
          /\ \A e \in Msg \ {m} : pc'[e] = pc[e]
          /\ \A e \in 1..(m - 1) : pc[e] # "sent" /\ (tidy => pc[e] \notin Routing)
      BY <1>0, <1>2 DEF Deliver
    <2>2. \A e \in Msg : e < m => e \in 1..(m - 1)
      BY NIsNat DEF Msg
    <2>3. \A e \in Msg : m < e => ~ (e < m) /\ e # m
      BY NIsNat DEF Msg
    <2>4. QED BY <1>0, <2>1, <2>2, <2>3
  <1>3. ASSUME NEW m \in Msg, Step(m), ~ Deliver(m) PROVE Ordered'
    <2>1. /\ UNCHANGED tidy
          /\ \A e \in Msg \ {m} : pc'[e] = pc[e]
          /\ pc[m] \notin {"unsent", "sent", "lost"}
          /\ pc'[m] # "sent"
          /\ pc'[m] \in Routing => pc[m] \in Routing
      BY <1>0, <1>3 DEF Step, FindSession, Pause, Silent, Resume, CheckMode, AwaitLock,
            EnterTurn, PlaceholderFails, ReadWatermark, Fetch, MarkForwarded, StartRun, VmDown,
            EndTurn
    <2>2. QED BY <1>0, <2>1
  <1>4. CASE Crash \/ Restart
    BY <1>0, <1>4 DEF Crash, Restart
  <1>5. QED BY <1>1, <1>2, <1>3, <1>4 DEF Next

\* The lock changes hands by AwaitLock, EnterTurn and the three ways a turn ends.
LEMMA LockedNext ==
  ASSUME TurnInv, Next
  PROVE  Locked'
  <1> DEFINE InQueue == {"queued"} \cup InTurn
  <1> USE DEF Locked, LockServesTurns, Go
  <1>0. /\ Locked /\ queue \in Seq(Msg) /\ Len(queue) \in Nat
        /\ pc \in [Msg -> Active \cup {"unsent", "done", "ignored", "dropped", "lost"}]
        /\ \A i \in 1..Len(queue) : queue[i] \in Msg
        /\ queue # <<>> => Head(queue) = queue[1] /\ Len(queue) > 0
    BY DEF TurnInv, TypeOK
  \* A step of somebody who is not in the queue before or after it.
  <1>1. ASSUME NEW m \in Msg, pc[m] \notin InQueue, pc'[m] \notin InQueue, UNCHANGED queue,
               \A e \in Msg \ {m} : pc'[e] = pc[e], owned => owned'
        PROVE  Locked'
    BY <1>0, <1>1 DEF InTurn
  \* A step within a turn.
  <1>2. ASSUME NEW m \in Msg, pc[m] \in InTurn, pc'[m] \in InTurn, UNCHANGED <<queue, owned>>,
               \A e \in Msg \ {m} : pc'[e] = pc[e]
        PROVE  Locked'
    BY <1>0, <1>2 DEF InTurn
  \* The end of a turn.
  <1>3. ASSUME NEW m \in Msg, pc[m] \in InTurn, pc'[m] = "done", queue' = Tail(queue),
               UNCHANGED owned, \A e \in Msg \ {m} : pc'[e] = pc[e]
        PROVE  Locked'
    <2>1. /\ queue # <<>> /\ Head(queue) = m
          /\ \A e \in Msg : pc[e] \in InTurn => e = m
      BY <1>3, HolderIsHead
    <2>2. /\ Len(queue') = Len(queue) - 1
          /\ \A i \in 1..Len(queue') : i + 1 \in 1..Len(queue) /\ queue'[i] = queue[i + 1]
      BY <1>0, <1>3, <2>1
    <2>3. \A i \in 1..Len(queue') : queue'[i] # m /\ queue'[i] \in Msg /\ pc[queue'[i]] = "queued"
      <3>1. TAKE i \in 1..Len(queue')
      <3>2. queue[i + 1] # m
        BY <1>0, <2>1, <2>2
      <3>3. QED BY <1>0, <2>1, <2>2, <3>2
    <2>4. \A e \in Msg : pc'[e] \notin InTurn
      BY <1>3, <2>1 DEF InTurn
    <2>5. \A i, j \in 1..Len(queue') : queue'[i] = queue'[j] => i = j
      BY <1>0, <2>2
    <2>6. \A i \in 1..Len(queue') : pc'[queue'[i]] = "queued"
      BY <1>3, <2>3
    <2>7. QED BY <2>4, <2>5, <2>6
  <1>4. ASSUME NEW m \in Msg, AwaitLock(m) PROVE Locked'
    <2>1. /\ pc[m] = "admitted" /\ pc'[m] = "queued" /\ UNCHANGED owned
          /\ \A e \in Msg \ {m} : pc'[e] = pc[e]
      BY <1>0, <1>4 DEF AwaitLock, store
    <2>2. /\ Len(queue') = Len(queue) + 1 /\ queue'[Len(queue) + 1] = m
          /\ \A i \in 1..Len(queue) : queue'[i] = queue[i]
          /\ 1..Len(queue') = 1..Len(queue) \cup {Len(queue) + 1}
      BY <1>0, <1>4 DEF AwaitLock
    <2>3. \A i \in 1..Len(queue) : queue[i] # m
      BY <1>0, <2>1 DEF InTurn
    <2>4. \A i, j \in 1..Len(queue') : queue'[i] = queue'[j] => i = j
      BY <1>0, <2>2, <2>3
    <2>5. queue' # <<>> /\ (queue # <<>> => Head(queue') = Head(queue))
      BY <1>0, <1>4 DEF AwaitLock
    <2>6. \A i \in 1..Len(queue') :
             pc'[queue'[i]] \in {"queued"} \cup (IF i = 1 THEN InTurn ELSE {})
      BY <1>0, <2>1, <2>2, <2>3
    <2>7. QED BY <1>0, <2>1, <2>4, <2>5, <2>6 DEF InTurn
  <1>5. ASSUME NEW m \in Msg, EnterTurn(m) PROVE Locked'
    <2>1. /\ pc[m] = "queued" /\ pc'[m] \in InTurn /\ owned' /\ UNCHANGED queue
          /\ queue # <<>> /\ queue[1] = m /\ Head(queue) = m
          /\ \A e \in Msg \ {m} : pc'[e] = pc[e]
      BY <1>0, <1>5 DEF EnterTurn, InTurn
    <2>2. \A e \in Msg : pc[e] \notin InTurn
      BY <1>0, <2>1 DEF InTurn
    <2>3. \A i \in 1..Len(queue) : i # 1 => queue[i] # m
      BY <1>0, <2>1
    <2>4. QED BY <1>0, <2>1, <2>2, <2>3
  <1>6. ASSUME NEW p \in Post, PostMessage(p) PROVE Locked'
    <2>1. Len(thread) + 1 \in Msg BY <1>6 DEF PostMessage
    <2>2. QED BY <1>0, <1>1, <1>6, <2>1 DEF PostMessage, store, InTurn
  <1>7. ASSUME NEW m \in Msg,
               Deliver(m) \/ FindSession(m) \/ Pause(m) \/ Silent(m) \/ Resume(m) \/ CheckMode(m)
        PROVE  Locked'
    BY <1>0, <1>1, <1>7 DEF Deliver, FindSession, Pause, Silent, Resume, CheckMode, store, InTurn
  <1>8. ASSUME NEW m \in Msg, ReadWatermark(m) \/ Fetch(m) \/ MarkForwarded(m) \/ StartRun(m)
        PROVE  Locked'
    BY <1>0, <1>2, <1>8 DEF ReadWatermark, Fetch, MarkForwarded, StartRun, store, InTurn
  <1>9. ASSUME NEW m \in Msg, PlaceholderFails(m) \/ VmDown(m) \/ EndTurn(m)
        PROVE  Locked'
    BY <1>0, <1>3, <1>9 DEF PlaceholderFails, VmDown, EndTurn, store, InTurn
  <1>10. CASE Crash
    <2>1. queue' = <<>> /\ Len(queue') = 0 /\ \A e \in Msg : pc'[e] \notin InTurn
      BY <1>0, <1>10 DEF Crash, Active, InTurn
    <2>2. QED BY <2>1
  <1>11. CASE Restart
    BY <1>0, <1>11 DEF Restart, store
  <1>12. QED BY <1>4, <1>5, <1>6, <1>7, <1>8, <1>9, <1>10, <1>11 DEF Next, Step

\* What a step may do to the watermark and to what is shown: the mark only moves up, and
\* only a run shows anything.
LEMMA MarkMovesUp ==
  ASSUME TurnInv, Next
  PROVE  mark <= mark' /\ (UNCHANGED seen \/ \E m \in Msg : StartRun(m))
  <1> USE DEF store, history
  <1>0. mark \in 0..N /\ mark <= mark
    BY NIsNat DEF TurnInv, TypeOK
  <1>1. ASSUME NEW m \in Msg, Resume(m) \/ MarkForwarded(m)
        PROVE  mark <= mark' /\ UNCHANGED seen
    <2>1. m \in Nat BY NIsNat DEF Msg
    <2>2. mark <= Advanced(m) BY <1>0, <2>1 DEF Advanced
    <2>3. QED BY <1>0, <1>1, <2>2 DEF Resume, MarkForwarded
  <1>2. ASSUME NEW p \in Post, PostMessage(p) PROVE UNCHANGED <<mark, seen>>
    BY <1>2 DEF PostMessage
  <1>3. ASSUME NEW m \in Msg, Step(m), ~ Resume(m), ~ MarkForwarded(m), ~ StartRun(m)
        PROVE  UNCHANGED <<mark, seen>>
    BY <1>3 DEF Step, Deliver, FindSession, Pause, Silent, CheckMode, AwaitLock, EnterTurn,
          PlaceholderFails, ReadWatermark, Fetch, VmDown, EndTurn
  <1>4. ASSUME NEW m \in Msg, StartRun(m) PROVE UNCHANGED mark
    BY <1>4 DEF StartRun
  <1>5. CASE Crash \/ Restart
    BY <1>0, <1>5 DEF Crash, Restart
  <1>6. QED BY <1>0, <1>1, <1>2, <1>3, <1>4, <1>5 DEF Next

\* The transcript of a turn that has one is in the window behind its mention.
LEMMA FetchedIsOlder ==
  ASSUME TurnInv, NEW m \in Msg, Fetch(m)
  PROVE  /\ pc[m] = "fetching" /\ pc'[m] = "marking"
         /\ \A e \in Msg \ {m} : pc'[e] = pc[e] /\ quoted'[e] = quoted[e]
         /\ \A x \in quoted'[m] : x \in Msg /\ since[m] < x /\ x < m /\ thread[x].kind = "say"
  <1>0. /\ quoted \in [Msg -> SUBSET Msg] /\ Shown
        /\ pc \in [Msg -> Active \cup {"unsent", "done", "ignored", "dropped", "lost"}]
    BY DEF TurnInv, TypeOK
  <1>1. pc[m] = "fetching" /\ pc'[m] = "marking" /\ \A e \in Msg \ {m} : pc'[e] = pc[e]
    BY <1>0 DEF Fetch, Go
  <1>2. CASE quoted' = [quoted EXCEPT ![m] = Newest(Window(since[m], m))]
    <2>1. quoted'[m] = Newest(Window(since[m], m)) /\ \A e \in Msg \ {m} : quoted'[e] = quoted[e]
      BY <1>0, <1>2
    <2>2. Newest(Window(since[m], m)) \subseteq Window(since[m], m)
      BY DEF Newest
    <2>3. QED BY <1>1, <2>1, <2>2 DEF Window
  <1>3. CASE UNCHANGED quoted
    <2>1. quoted[m] = {} BY <1>0, <1>1 DEF Shown
    <2>2. QED BY <1>1, <1>3, <2>1
  <1>4. QED BY <1>2, <1>3 DEF Fetch

\* Reading the watermark, fetching and marking keep what was shown out of the transcript.
LEMMA ShownNext ==
  ASSUME TurnInv, Next
  PROVE  Shown'
  <1> USE DEF Shown, OnlyOlderTalkIsQuoted, Go, Routing
  <1>0. /\ Shown /\ Posted /\ Locked /\ thread \in Seq(Post) /\ Len(thread) \in Nat
        /\ mark \in 0..N /\ seen \subseteq Msg
        /\ since \in [Msg -> 0..N] /\ quoted \in [Msg -> SUBSET Msg]
        /\ pc \in [Msg -> Active \cup {"unsent", "done", "ignored", "dropped", "lost"}]
    BY DEF TurnInv, TypeOK
  <1>u. mark' \in 0..N /\ mark <= mark'
    BY TypeNext, MarkMovesUp DEF TypeOK
  <1>n. N \in Nat /\ \A m \in Msg : m \in Nat
    BY NIsNat DEF Msg
  <1>m. \A x \in Msg : x <= mark => x <= mark'
    BY <1>0, <1>u, <1>n
  \* A step that fetches nothing, shows nothing and starts nothing.
  <1>1. ASSUME UNCHANGED <<thread, since, quoted, seen>>,
               \A m \in Msg : \/ pc'[m] = pc[m]
                              \/ /\ pc'[m] \in {"marking"} \cup Active
                                 /\ pc'[m] \notin {"fetching", "starting"}
                                 /\ pc[m] \in {"unsent", "sent", "admitted", "queued", "catching"}
                                                \cup Routing
                              \/ pc'[m] \in {"running", "done", "ignored", "dropped", "lost"}
        PROVE  Shown'
    <2>1. \A x \in seen' : x <= mark'
      BY <1>0, <1>1, <1>m
    <2>2. \A m \in Msg : pc'[m] = "starting" => m <= mark'
      BY <1>0, <1>1, <1>m
    <2>3. \A m \in Msg : pc'[m] = "fetching" => \A x \in seen' : x <= since'[m]
      BY <1>0, <1>1
    <2>4. \A m \in Msg : pc'[m] \in {"unsent", "sent", "admitted", "queued", "catching", "fetching"}
                                     \cup Routing => quoted'[m] = {}
      BY <1>0, <1>1
    <2>5. \A m \in Msg : pc'[m] \in {"marking", "starting"} => quoted'[m] \cap seen' = {}
      BY <1>0, <1>1
    <2>6. OnlyOlderTalkIsQuoted'
      BY <1>0, <1>1
    <2>7. QED BY <2>1, <2>2, <2>3, <2>4, <2>5, <2>6
  <1>2. ASSUME NEW p \in Post, PostMessage(p) PROVE Shown'
    <2> DEFINE n == Len(thread) + 1
    <2>1. /\ n \in Msg /\ pc[n] = "unsent" /\ pc'[n] \in {"sent", "lost"}
          /\ UNCHANGED <<since, quoted, seen, mark>>
          /\ \A e \in Msg \ {n} : pc'[e] = pc[e]
          /\ \A x \in 1..Len(thread) : thread'[x] = thread[x]
      BY <1>0, <1>2 DEF PostMessage, turn, history, store
    <2>2. \A m \in Msg : quoted[m] # {} => m \in 1..Len(thread)
      BY <1>0, <1>n DEF Posted, Msg
    <2>3. ASSUME NEW m \in Msg, NEW x \in quoted[m] PROVE x \in 1..Len(thread)
      <3>1. m \in 1..Len(thread) BY <2>2
      <3>2. x \in Msg /\ x < m BY <1>0
      <3>3. QED BY <1>0, <1>n, <3>1, <3>2 DEF Msg
    <2>4. OnlyOlderTalkIsQuoted' BY <1>0, <2>1, <2>3
    <2>5. quoted[n] = {} BY <1>0, <2>1
    <2>6. QED BY <1>0, <2>1, <2>4, <2>5
  <1>3. ASSUME NEW m \in Msg,
               \/ Deliver(m) \/ FindSession(m) \/ Pause(m) \/ Silent(m) \/ Resume(m)
               \/ CheckMode(m) \/ AwaitLock(m) \/ EnterTurn(m) \/ PlaceholderFails(m)
               \/ VmDown(m) \/ EndTurn(m)
        PROVE  Shown'
    <2>1. /\ UNCHANGED <<thread, since, quoted, seen>>
          /\ \A e \in Msg \ {m} : pc'[e] = pc[e]
          /\ \/ /\ pc[m] \in {"sent", "admitted", "queued"} \cup Routing
                /\ pc'[m] \in Active /\ pc'[m] \notin {"fetching", "starting"}
             \/ pc'[m] \in {"done", "ignored", "dropped"}
      BY <1>0, <1>3 DEF Deliver, FindSession, Pause, Silent, Resume, CheckMode, AwaitLock,
            EnterTurn, PlaceholderFails, VmDown, EndTurn, turn, history, Active, InTurn
    <2>2. QED BY <1>1, <2>1
  <1>4. ASSUME NEW m \in Msg, ReadWatermark(m) PROVE Shown'
    <2>1. /\ pc[m] = "catching" /\ pc'[m] \in {"marking", "fetching"} /\ since'[m] = mark
          /\ UNCHANGED <<thread, quoted, seen, mark>>
          /\ \A e \in Msg \ {m} : pc'[e] = pc[e] /\ since'[e] = since[e]
      BY <1>0, <1>4 DEF ReadWatermark, turn, history, store
    <2>2. quoted[m] = {} BY <1>0, <2>1
    <2>3. QED BY <1>0, <2>1, <2>2
  <1>5. ASSUME NEW m \in Msg, Fetch(m) PROVE Shown'
    <2>1. UNCHANGED <<thread, since, seen, mark>>
      BY <1>5 DEF Fetch, history, store
    <2>2. quoted'[m] \cap seen = {}
      BY <1>0, <1>n, <1>5, FetchedIsOlder
    <2>3. QED BY ZenonT(40), <1>0, <1>5, <2>1, <2>2, FetchedIsOlder
  <1>6. ASSUME NEW m \in Msg, MarkForwarded(m) PROVE Shown'
    <2>1. /\ pc[m] = "marking" /\ pc'[m] = "starting" /\ mark' = Advanced(m)
          /\ UNCHANGED <<thread, since, quoted, seen>>
          /\ \A e \in Msg \ {m} : pc'[e] = pc[e]
      BY <1>0, <1>6 DEF MarkForwarded, turn, history
    <2>2. owned BY <1>0, <2>1 DEF Locked, InTurn
    <2>3. m <= mark' BY <1>0, <1>n, <2>1, <2>2 DEF Advanced
    <2>4. QED BY <1>0, <1>m, <2>1, <2>3
  <1>7. ASSUME NEW m \in Msg, StartRun(m) PROVE Shown'
    <2>1. /\ pc[m] = "starting" /\ pc'[m] = "running" /\ seen' = seen \cup {m} \cup quoted[m]
          /\ UNCHANGED <<thread, since, quoted, mark>>
          /\ \A e \in Msg \ {m} : pc'[e] = pc[e]
      BY <1>0, <1>7 DEF StartRun, turn, store
    <2>2. \A e \in Msg : pc'[e] \notin {"fetching", "marking", "starting"}
      BY <2>1, HolderIsHead DEF InTurn
    <2>3. \A x \in seen' : x <= mark
      BY <1>0, <1>n, <2>1
    <2>4. QED BY <1>0, <2>1, <2>2, <2>3
  <1>8. CASE Crash
    BY <1>0, <1>1, <1>8 DEF Crash, turn, history
  <1>9. CASE Restart
    BY <1>0, <1>1, <1>9 DEF Restart, turn, history
  <1>10. QED BY <1>2, <1>3, <1>4, <1>5, <1>6, <1>7, <1>8, <1>9 DEF Next, Step

\* Once tidy, a handler that routes is older than every event still to come and newer
\* than everything that was shown or swallowed.
LEMMA PauseNext ==
  ASSUME TurnInv, Next
  PROVE  PauseInOrder'
  <1> USE DEF PauseInOrder, Go, Routing, InTurn
  <1>0. /\ PauseInOrder /\ Posted /\ Ordered /\ Shown
        /\ seen \subseteq Msg /\ swallowed \subseteq Msg
        /\ quoted \in [Msg -> SUBSET Msg]
        /\ pc \in [Msg -> Active \cup {"unsent", "done", "ignored", "dropped", "lost"}]
    BY DEF TurnInv, TypeOK
  <1>n. \A m \in Msg : m \in Nat
    BY NIsNat DEF Msg
  <1> DEFINE Coming == {"unsent", "sent", "routing", "finding"}
             Going  == {"admitted", "queued"} \cup InTurn
  \* A step that neither shows nor swallows anything.
  <1>1. ASSUME UNCHANGED <<seen, swallowed, tidy>>,
               mode' = mode \/ mode' = "paused",
               \A m \in Msg : /\ pc'[m] \in Coming => pc[m] \in Coming
                              /\ pc'[m] \in Going => pc[m] \in Going
        PROVE  PauseInOrder'
    BY <1>0, <1>1
  <1>2. ASSUME NEW p \in Post, PostMessage(p) PROVE PauseInOrder'
    <2>1. /\ UNCHANGED <<seen, swallowed, tidy, mode>>
          /\ \A e \in Msg : pc'[e] = pc[e] \/ (pc[e] = "unsent" /\ pc'[e] \in {"sent", "lost"})
      BY <1>0, <1>2 DEF PostMessage, history, store
    <2>2. QED BY <1>1, <2>1
  <1>3. ASSUME NEW m \in Msg, Deliver(m) \/ FindSession(m) \/ Pause(m) PROVE PauseInOrder'
    <2>1. /\ UNCHANGED <<seen, swallowed, tidy>> /\ (mode' = mode \/ mode' = "paused")
          /\ \A e \in Msg \ {m} : pc'[e] = pc[e]
          /\ pc[m] \in Coming /\ pc'[m] \in {"routing", "finding", "done", "ignored"}
      BY <1>0, <1>3 DEF Deliver, FindSession, Pause, history, store
    <2>2. QED BY <1>1, <2>1
  <1>4. ASSUME NEW m \in Msg, Silent(m) \/ Resume(m) PROVE PauseInOrder'
    <2>1. /\ UNCHANGED <<seen, tidy>> /\ swallowed' = {}
          /\ \A e \in Msg \ {m} : pc'[e] = pc[e]
          /\ pc'[m] = "done"
      BY <1>0, <1>4 DEF Silent, Resume, Bury
    <2>2. QED BY <1>0, <2>1
  <1>5. ASSUME NEW m \in Msg, CheckMode(m) PROVE PauseInOrder'
    <2>1. /\ pc[m] = "routing" /\ UNCHANGED <<seen, tidy, mode>>
          /\ \A e \in Msg \ {m} : pc'[e] = pc[e]
      BY <1>0, <1>5 DEF CheckMode, store
    <2>2. CASE mode = "paused"
      <3>1. swallowed' = swallowed \cup {m} /\ pc'[m] = "dropped"
        BY <1>0, <1>5, <2>2 DEF CheckMode
      <3>2. ASSUME tidy, NEW e \in Msg, pc'[e] \in Coming PROVE m < e
        BY <1>0, <1>n, <2>1, <3>1, <3>2 DEF Ordered, Posted
      <3>3. ASSUME tidy, NEW e \in Msg, pc'[e] \in Going PROVE e < m
        BY <1>0, <1>n, <2>1, <3>1, <3>3 DEF Ordered
      <3>4. tidy => m \notin seen
        BY <1>0, <1>n, <2>1
      <3>5. QED BY <1>0, <2>1, <2>2, <3>1, <3>2, <3>3, <3>4
    <2>3. CASE mode # "paused"
      <3>1. swallowed = {} /\ swallowed' = {}
        BY <1>0, <1>5, <2>3 DEF CheckMode
      <3>2. pc'[m] \notin Coming
        BY <1>0, <1>5 DEF CheckMode
      <3>3. QED BY <1>0, <2>1, <3>1, <3>2
    <2>4. QED BY <2>2, <2>3
  <1>6. ASSUME NEW m \in Msg,
               \/ AwaitLock(m) \/ EnterTurn(m) \/ PlaceholderFails(m) \/ ReadWatermark(m)
               \/ Fetch(m) \/ MarkForwarded(m) \/ VmDown(m) \/ EndTurn(m)
        PROVE  PauseInOrder'
    <2>1. /\ UNCHANGED <<seen, swallowed, tidy, mode>>
          /\ \A e \in Msg \ {m} : pc'[e] = pc[e]
          /\ pc[m] \in Going /\ pc'[m] \in Going \cup {"done"}
      BY <1>0, <1>6 DEF AwaitLock, EnterTurn, PlaceholderFails, ReadWatermark, Fetch,
            MarkForwarded, VmDown, EndTurn, history, store
    <2>2. QED BY <1>1, <2>1
  <1>7. ASSUME NEW m \in Msg, StartRun(m) PROVE PauseInOrder'
    <2>1. /\ pc[m] = "starting" /\ pc'[m] = "running" /\ seen' = seen \cup {m} \cup quoted[m]
          /\ UNCHANGED <<swallowed, tidy, mode>>
          /\ \A e \in Msg \ {m} : pc'[e] = pc[e]
      BY <1>0, <1>7 DEF StartRun, store
    <2>2. ASSUME tidy, NEW e \in Msg, pc'[e] \in Coming PROVE m < e
      BY <1>0, <1>n, <2>1, <2>2 DEF Ordered, Posted
    <2>3. \A x \in quoted[m] : x \in Nat /\ x < m
      BY <1>0, <1>n DEF Shown, OnlyOlderTalkIsQuoted
    <2>4. ASSUME tidy, NEW e \in Msg, pc'[e] \in Coming, NEW x \in seen' \cup swallowed PROVE x < e
      BY <1>0, <1>n, <2>1, <2>2, <2>3, <2>4
    <2>5. ASSUME tidy, NEW x \in swallowed PROVE x \notin seen'
      BY <1>0, <1>n, <2>1, <2>3, <2>5
    <2>6. QED BY <1>0, <2>1, <2>4, <2>5
  <1>8. CASE Crash
    BY <1>0, <1>1, <1>8 DEF Crash, Active, history, store
  <1>9. CASE Restart
    BY <1>0, <1>1, <1>9 DEF Restart, history, store
  <1>10. QED BY <1>2, <1>3, <1>4, <1>5, <1>6, <1>7, <1>8, <1>9 DEF Next, Step

\* |resume moves the watermark past what it buries, and no transcript reaches below it.
LEMMA BuriedNext ==
  ASSUME TurnInv, Next
  PROVE  Buried'
  <1> USE DEF Buried, Go, Routing, InTurn
  <1>0. /\ Buried /\ PauseInOrder /\ Shown
        /\ seen \subseteq Msg /\ swallowed \subseteq Msg /\ buried \subseteq Msg
        /\ mark \in 0..N
        /\ since \in [Msg -> 0..N] /\ quoted \in [Msg -> SUBSET Msg]
        /\ pc \in [Msg -> Active \cup {"unsent", "done", "ignored", "dropped", "lost"}]
    BY DEF TurnInv, TypeOK
  <1>n. N \in Nat /\ \A m \in Msg : m \in Nat
    BY NIsNat DEF Msg
  <1>u. mark' \in 0..N /\ mark <= mark'
    BY TypeNext, MarkMovesUp DEF TypeOK
  <1>m. \A x \in Msg : x <= mark => x <= mark'
    BY <1>0, <1>u, <1>n
  <1> DEFINE Live == {"unsent", "sent", "routing", "finding", "admitted", "queued", "catching",
                      "fetching", "marking", "starting"}
  <1>1. ASSUME UNCHANGED <<since, quoted, seen, buried, tidy>>,
               \A m \in Msg : \/ pc'[m] = pc[m]
                              \/ /\ pc[m] \in Live /\ pc'[m] \in Live
                                 /\ pc'[m] # "fetching"
                                 /\ pc'[m] \in {"marking", "starting"} =>
                                      pc[m] = "marking" \/ quoted[m] = {}
                              \/ pc'[m] \in {"running", "done", "ignored", "dropped", "lost"}
        PROVE  Buried'
    BY <1>0, <1>m, <1>1
  <1>2. ASSUME NEW p \in Post, PostMessage(p) PROVE Buried'
    <2>1. /\ UNCHANGED <<since, quoted, seen, buried, tidy>>
          /\ \A e \in Msg : pc'[e] = pc[e] \/ (pc[e] = "unsent" /\ pc'[e] \in {"sent", "lost"})
      BY <1>0, <1>2 DEF PostMessage, history, turn
    <2>2. QED BY <1>1, <2>1
  <1>3. ASSUME NEW m \in Msg,
               \/ Deliver(m) \/ FindSession(m) \/ Pause(m) \/ Silent(m) \/ CheckMode(m)
               \/ AwaitLock(m) \/ EnterTurn(m) \/ PlaceholderFails(m)
               \/ MarkForwarded(m) \/ VmDown(m) \/ EndTurn(m)
        PROVE  Buried'
    <2>1. /\ UNCHANGED <<since, quoted, seen, buried, tidy>>
          /\ \A e \in Msg \ {m} : pc'[e] = pc[e]
          /\ \/ pc[m] \in Live \ {"marking"} /\ pc'[m] \in Live \ {"fetching", "starting"}
             \/ pc[m] = "marking" /\ pc'[m] = "starting"
             \/ pc'[m] \in {"done", "ignored", "dropped"}
          /\ pc'[m] = "marking" => pc[m] = "queued"
      BY <1>0, <1>3 DEF Deliver, FindSession, Pause, Silent, CheckMode, AwaitLock, EnterTurn,
            PlaceholderFails, MarkForwarded, VmDown, EndTurn, history, turn
    <2>2. pc'[m] = "marking" => quoted[m] = {}
      BY <1>0, <2>1 DEF Shown
    <2>3. QED BY <1>1, <2>1, <2>2
  <1>4. ASSUME NEW m \in Msg, Resume(m) PROVE Buried'
    <2>1. /\ UNCHANGED <<since, quoted, seen, tidy>>
          /\ pc[m] = "routing" /\ pc'[m] = "done" /\ \A e \in Msg \ {m} : pc'[e] = pc[e]
          /\ buried' = IF owned THEN buried \cup swallowed ELSE buried
      BY <1>0, <1>4 DEF Resume, Bury, turn
    <2>2. ASSUME tidy, NEW x \in swallowed, owned PROVE x <= mark'
      <3>1. x < m /\ x \in Nat /\ m \in Nat
        BY <1>0, <1>n, <2>1, <2>2 DEF PauseInOrder
      <3>2. mode = "paused" BY <1>0, <2>2 DEF PauseInOrder
      <3>3. m <= mark' BY <1>0, <1>n, <1>4, <2>2, <3>2 DEF Resume, Advanced
      <3>4. QED BY <1>n, <1>u, <3>1, <3>3
    <2>3. ASSUME tidy, NEW x \in swallowed, NEW e \in Msg, pc'[e] \in Live
          PROVE  x # e /\ (pc'[e] \in InTurn => e < x)
      BY <1>0, <1>n, <2>1, <2>3 DEF PauseInOrder
    <2>4. ASSUME tidy, NEW x \in swallowed, NEW e \in Msg, pc'[e] \in {"marking", "starting"}
          PROVE  x \notin quoted[e]
      <3>1. e < x BY <2>3, <2>4
      <3>2. \A y \in quoted[e] : y < e BY <1>0 DEF Shown, OnlyOlderTalkIsQuoted
      <3>3. QED BY <1>0, <1>n, <3>1, <3>2
    <2>5. ASSUME tidy, NEW x \in swallowed, NEW e \in Msg, pc'[e] = "fetching"
          PROVE  ~ (x < e)
      BY <1>0, <1>n, <2>3, <2>5
    <2>6. CASE ~ owned \/ ~ tidy
      BY <1>0, <1>1, <2>1, <2>6
    <2>7. CASE owned /\ tidy
      <3>1. buried' = buried \cup swallowed /\ tidy' BY <2>1, <2>7
      <3>2. \A x \in buried' : x <= mark'
        BY <1>0, <1>m, <2>2, <2>7, <3>1
      <3>3. \A e \in Msg : pc'[e] \in Live => e \notin buried'
        BY <1>0, <2>1, <2>3, <2>7, <3>1
      <3>4. \A e \in Msg : pc'[e] = "fetching" => \A x \in buried' : x < e => x <= since'[e]
        BY <1>0, <2>1, <2>5, <2>7, <3>1
      <3>5. \A e \in Msg : pc'[e] \in {"marking", "starting"} => quoted'[e] \cap buried' = {}
        BY <1>0, <2>1, <2>4, <2>7, <3>1
      <3>6. buried' \cap seen' = {}
        BY <1>0, <2>1, <2>7, <3>1 DEF PauseInOrder
      <3>7. QED BY <3>2, <3>3, <3>4, <3>5, <3>6
    <2>8. QED BY <2>6, <2>7
  <1>5. ASSUME NEW m \in Msg, ReadWatermark(m) PROVE Buried'
    <2>1. /\ pc[m] = "catching" /\ pc'[m] \in {"marking", "fetching"} /\ since'[m] = mark
          /\ UNCHANGED <<quoted, seen, mark, buried, tidy>>
          /\ \A e \in Msg \ {m} : pc'[e] = pc[e] /\ since'[e] = since[e]
      BY <1>0, <1>5 DEF ReadWatermark, history, store
    <2>2. quoted[m] = {} BY <1>0, <2>1 DEF Shown
    <2>3. QED BY <1>0, <2>1, <2>2
  <1>6. ASSUME NEW m \in Msg, Fetch(m) PROVE Buried'
    <2>1. UNCHANGED <<since, seen, mark, buried, tidy>>
      BY <1>6 DEF Fetch, history, store
    <2>2. ASSUME tidy PROVE quoted'[m] \cap buried = {}
      BY <1>0, <1>n, <1>6, <2>2, FetchedIsOlder
    <2>3. QED BY <1>0, <1>6, <2>1, <2>2, FetchedIsOlder
  <1>7. ASSUME NEW m \in Msg, StartRun(m) PROVE Buried'
    <2>1. /\ pc[m] = "starting" /\ pc'[m] = "running" /\ seen' = seen \cup {m} \cup quoted[m]
          /\ UNCHANGED <<since, quoted, mark, buried, tidy>>
          /\ \A e \in Msg \ {m} : pc'[e] = pc[e]
      BY <1>0, <1>7 DEF StartRun, turn, store
    <2>2. QED BY <1>0, <2>1
  <1>8. CASE Crash
    BY <1>0, <1>1, <1>8 DEF Crash, history, turn
  <1>9. CASE Restart
    BY <1>0, <1>1, <1>9 DEF Restart, history, turn
  <1>10. QED BY <1>2, <1>3, <1>4, <1>5, <1>6, <1>7, <1>8, <1>9 DEF Next, Step

\* Every step preserves the inductive invariant.
LEMMA TurnNext == TurnInv /\ [Next]_vars => TurnInv'
  <1> SUFFICES ASSUME TurnInv, [Next]_vars PROVE TurnInv'
    OBVIOUS
  <1>1. CASE Next
    BY <1>1, TypeNext, PostedNext, LockedNext, ShownNext, OrderedNext, PauseNext, BuriedNext
       DEF TurnInv
  <1>2. CASE UNCHANGED vars
    <2> USE <1>2 DEF TurnInv, vars, store, turn, history
    <2>1. TypeOK' BY DEF TypeOK
    <2>2. Posted' /\ Ordered' BY DEF Posted, Ordered
    <2>3. Locked' BY DEF Locked, LockServesTurns
    <2>4. Shown' BY DEF Shown, OnlyOlderTalkIsQuoted
    <2>5. PauseInOrder' /\ Buried' BY DEF PauseInOrder, Buried
    <2>6. QED BY <2>1, <2>2, <2>3, <2>4, <2>5
  <1>3. QED BY <1>1, <1>2

-----------------------------------------------------------------------------
(* The theorems.                                                           *)

\* The inductive invariant holds in every reachable state.
THEOREM TurnInvariant == Spec => []TurnInv
  <1>1. QED BY TurnInit, TurnNext, PTL DEF Spec

\* Every reachable state of the thread is well typed; the watermark stays within it.
THEOREM TurnsTypeCorrect == Spec => []TypeOK
  <1>1. TurnInv => TypeOK BY DEF TurnInv
  <1>2. QED BY <1>1, TurnInvariant, PTL

\* No message is quoted to the agent that it was already shown.
THEOREM NothingReplayed == Spec => []NoReplay
  <1>1. TurnInv => NoReplay BY DEF TurnInv, Shown, NoReplay
  <1>2. QED BY <1>1, TurnInvariant, PTL

\* A transcript quotes only conversation older than its mention.
THEOREM TranscriptIsOlderTalk == Spec => []OnlyOlderTalkIsQuoted
  <1>1. TurnInv => OnlyOlderTalkIsQuoted BY DEF TurnInv, Shown
  <1>2. QED BY <1>1, TurnInvariant, PTL

\* One turn at a time, and no handler that is gone holds or waits for the lock.
THEOREM TurnsAreSerial == Spec => []LockServesTurns
  <1>1. TurnInv => LockServesTurns BY DEF TurnInv, Locked
  <1>2. QED BY <1>1, TurnInvariant, PTL

\* With tidy handlers, what a pause swallowed is never shown once |resume lifted it.
THEOREM BuriedStaysUnseen == Spec => []ResumeClosesTheWindow
  <1>1. TurnInv => ResumeClosesTheWindow BY DEF TurnInv, Buried, ResumeClosesTheWindow
  <1>2. QED BY <1>1, TurnInvariant, PTL
=============================================================================
