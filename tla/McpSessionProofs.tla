-------------------------- MODULE McpSessionProofs --------------------------
(***************************************************************************)
(* Theorems about McpSession, for any connections, tools, catalogues and   *)
(* rules, and any number of requests and of calls.                         *)
(***************************************************************************)
EXTENDS McpSession, SequenceTheorems, FiniteSetTheorems, TLAPS

USE SessionAssumption DEF trail

\* The bounds are numbers, and a catalogue has pages of tools.
LEMMA SessionBounds ==
  /\ MaxCalls \in Nat /\ MaxReqs \in Nat /\ MaxEdits \in Nat
  /\ \A k \in Catalogues : k \in Seq(SUBSET Tools) /\ Len(k) > 0
  BY DEF Patterns

-----------------------------------------------------------------------------
(* The inductive invariant, part by part.                                 *)

Decision == {"allowed", "denied", "capped", "error"}
Message == [id : Ids, outcome : Outcome]
Marks == {"no", "waiting", "unwatched", "answered"}

Queued(c, i) == \E k \in 1..Len(replies[c]) : replies[c][k].id = i

\* Nothing is known of a request before the proxy has read it, and a listing asks for
\* pages that there are.
ReadFirst(c) ==
  /\ read[c] <= Len(asked[c]) /\ Len(asked[c]) <= MaxReqs
  /\ \A i \in Ids : \/ pending[c][i] # "no" \/ i \in at[c] \/ got[c][i] > 0
                    \/ Queued(c, i) \/ audit[c][i] # <<>>
                    => i <= read[c]

PagesExist(c) ==
  /\ \A i \in 1..Len(asked[c]) : asked[c][i].kind = "list" => asked[c][i].page \in 1..Pages
  /\ listing[c].state = "more" => listing[c].page < Pages

\* What is still on its way to the guest has not come before, or came from the cache.
OnItsWay(c) ==
  \A i \in Ids :
    /\ pending[c][i] \in {"waiting", "unwatched"} => got[c][i] = 0
    /\ pending[c][i] \in {"answered", "unwatched"} => asked[c][i].kind = "list"
    /\ i \notin broken[c] =>
         /\ got[c][i] <= 1
         /\ i \in at[c] \/ Queued(c, i) => got[c][i] = 0 \/ pending[c][i] = "answered"
         /\ ~ (i \in at[c] /\ Queued(c, i))
         /\ \A j, k \in 1..Len(replies[c]) :
              replies[c][j].id = i /\ replies[c][k].id = i => j = k

\* A call has its row once it is answered, or the row could not be written.
Recorded(c, i) ==
  IF got[c][i] > 0
  THEN Len(audit[c][i]) = 1 \/ (audit[c][i] = <<>> /\ i \in unwritten[c])
  ELSE audit[c][i] = <<>>

RowStays(c, i) ==
  audit'[c][i] = audit[c][i] /\ (i \in unwritten'[c] <=> i \in unwritten[c])

\* A call on its way is pending until it is answered, and then it has its row.
CallsPend(c) ==
  \A i \in Ids : i <= Len(asked[c]) /\ asked[c][i].kind = "call" =>
    /\ i \in at[c] \/ Queued(c, i) => pending[c][i] # "no" \/ got[c][i] > 0
    /\ Recorded(c, i)

\* What the guest was shown and what was forwarded is permitted, what was denied is not,
\* by the rules the session opened with.
ByPolicy(c) ==
  /\ pc[c] \in {"new", "starting"} =>
       /\ shown[c] = {} /\ forwarded[c] = {} /\ inForce[c] = {}
       /\ \A i \in Ids : audit[c][i] = <<>>
  /\ \A r \in inForce[c] : r.who \in {Everyone, Caller[c]} => r \in policy[c]
  /\ \A t \in shown[c] : Permitted(c, t)
  /\ \A i \in forwarded[c] : i <= Len(asked[c]) /\ Permitted(c, asked[c][i].tool)
  /\ \A i \in Ids : \A k \in 1..Len(audit[c][i]) :
       audit[c][i][k] = "denied" => ~ Permitted(c, asked[c][i].tool)

Capped(c) ==
  /\ IsFiniteSet(forwarded[c])
  /\ Cardinality(forwarded[c]) <= calls[c] /\ Cardinality(forwarded[c]) <= MaxCalls

ConnInv(c) ==
  ReadFirst(c) /\ PagesExist(c) /\ OnItsWay(c) /\ CallsPend(c) /\ ByPolicy(c) /\ Capped(c)

SessionInv == TypeOK /\ \A c \in Conn : ConnInv(c)

-----------------------------------------------------------------------------
\* It holds at the start.
LEMMA SessionInit == Init => SessionInv
  <1> SUFFICES ASSUME Init PROVE SessionInv
    OBVIOUS
  <1> USE DEF Init
  <1>1. Pages \in Nat /\ Offered \subseteq Tools
    BY SessionBounds DEF Pages, Offered
  <1>2. TypeOK
    <2>1. Rules \subseteq Rule /\ cache \subseteq Tools /\ rules \subseteq Rules BY <1>1
    <2>2. /\ calls \in [Conn -> Nat] /\ read \in [Conn -> Nat]
          /\ got \in [Conn -> [Ids -> Nat]]
          /\ listing \in [Conn -> Listing]
      BY DEF Listing
    <2>3. /\ audit \in [Conn -> [Ids -> Seq(Decision)]]
          /\ asked \in [Conn -> Seq(Request)]
          /\ replies \in [Conn -> Seq(Message)]
      OBVIOUS
    <2>4. edits \in Nat /\ disabled \in BOOLEAN /\ unwritten \in [Conn -> SUBSET Ids]
      OBVIOUS
    <2>5. QED BY <2>1, <2>2, <2>3, <2>4 DEF TypeOK, Decision, Message
  <1>3. ASSUME NEW c \in Conn PROVE ConnInv(c)
    <2>1. ReadFirst(c) BY SessionBounds DEF ReadFirst, Queued, Ids
    <2>2. PagesExist(c) BY DEF PagesExist
    <2>3. OnItsWay(c) BY DEF OnItsWay, Queued
    <2>4. CallsPend(c) BY DEF CallsPend, Queued, Recorded
    <2>5. ByPolicy(c) BY DEF ByPolicy
    <2>6. Capped(c) BY FS_EmptySet, SessionBounds DEF Capped
    <2>7. QED BY <2>1, <2>2, <2>3, <2>4, <2>5, <2>6 DEF ConnInv
  <1>4. QED BY <1>2, <1>3 DEF SessionInv

-----------------------------------------------------------------------------
(* Types.                                                                  *)

\* The pages of the upstream, and what one of them is.
LEMMA PageType ==
  ASSUME TypeOK
  PROVE  Pages \in Nat /\ \A k \in 1..Pages : upstream.catalogue[k] \subseteq Tools
  BY SessionBounds DEF TypeOK, Pages

\* A pending request has been asked.
LEMMA PendingIsAsked ==
  ASSUME TypeOK, NEW c \in Conn, ReadFirst(c), NEW i \in Ids, pending[c][i] # "no"
  PROVE  i \in 1..Len(asked[c]) /\ asked[c][i] \in Request
  BY DEF TypeOK, ReadFirst, Ids

\* A list that is sent is a list of tools.
LEMMA SendListType ==
  ASSUME TypeOK, NEW c \in Conn, NEW i \in Ids, asked[c][i] \in Request,
         NEW tools \in SUBSET Tools, NEW more \in BOOLEAN, SendList(c, i, tools, more)
  PROVE  /\ got' \in [Conn -> [Ids -> Nat]]
         /\ listing' \in [Conn -> Listing]
         /\ shown' \in [Conn -> SUBSET Tools] /\ asked' = asked
  <1>1. got' \in [Conn -> [Ids -> Nat]] BY DEF SendList, Reply, TypeOK
  <1>2. shown' \in [Conn -> SUBSET Tools] BY DEF SendList, TypeOK
  <1>3. listing' \in [Conn -> Listing]
    <2>1. asked[c][i].page \in Nat BY DEF Request
    <2>2. listing[c].heard \subseteq Tools BY DEF TypeOK, Listing
    <2>3. QED BY <2>1, <2>2 DEF SendList, TypeOK, Listing
  <1>4. QED BY <1>1, <1>2, <1>3 DEF SendList

\* The parts of the types that a step changes.
LEMMA Typed ==
  ASSUME TypeOK
  PROVE  /\ read \in [Conn -> Nat] /\ got \in [Conn -> [Ids -> Nat]]
         /\ at \in [Conn -> SUBSET Ids] /\ calls \in [Conn -> Nat]
         /\ pending \in [Conn -> [Ids -> Marks]]
         /\ audit \in [Conn -> [Ids -> Seq(Decision)]]
         /\ unwritten \in [Conn -> SUBSET Ids]
         /\ replies \in [Conn -> Seq(Message)]
         /\ asked \in [Conn -> Seq(Request)] /\ listing \in [Conn -> Listing]
  BY DEF TypeOK, Marks, Decision, Message

\* The operator's commands keep the types.
LEMMA OperatorType ==
  ASSUME SessionInv, (\E r \in Rules : SetRule(r) \/ Forget(r)) \/ Toggle
  PROVE  TypeOK'
  <1> USE DEF session, guest, wire, history
  <1>0. TypeOK BY DEF SessionInv
  <1>1. edits' \in Nat BY <1>0 DEF SetRule, Forget, Toggle, Command, TypeOK
  <1>2. rules' \subseteq Rules /\ disabled' \in BOOLEAN
    BY <1>0 DEF SetRule, Forget, Toggle, TypeOK
  <1>3. QED BY <1>0, <1>1, <1>2 DEF SetRule, Forget, Toggle, TypeOK

\* So do the opening and the end of a connection.
LEMMA ConnType ==
  ASSUME SessionInv, NEW c \in Conn,
         \/ Attach(c) \/ Refuse(c) \/ OpenSession(c) \/ StartFails(c)
         \/ RunEnds(c) \/ UpstreamDies(c) \/ SessionEnds(c)
  PROVE  TypeOK'
  <1> USE DEF Go, operator, session, guest, wire, history
  <1>0. TypeOK BY DEF SessionInv
  <1>1. CASE Attach(c) \/ Refuse(c) \/ StartFails(c)
    BY <1>0, <1>1 DEF Attach, Refuse, StartFails, TypeOK
  <1>2. CASE OpenSession(c)
    <2>1. RuntimeRules(Caller[c]) \subseteq Rule /\ rules \subseteq Rule
      BY <1>0 DEF RuntimeRules, TypeOK
    <2>2. QED BY <1>0, <1>2, <2>1 DEF OpenSession, TypeOK
  <1>3. CASE RunEnds(c) \/ UpstreamDies(c)
    BY <1>0, <1>3 DEF RunEnds, UpstreamDies, TypeOK
  <1>4. CASE SessionEnds(c)
    <2>1. replies' \in [Conn -> Seq(Message)]
      <3>1. <<>> \in Seq(Message) OBVIOUS
      <3>2. QED BY <1>0, <1>4, <3>1, Typed DEF SessionEnds
    <2>2. pending' \in [Conn -> [Ids -> Marks]]
      BY <1>0, <1>4, Typed DEF SessionEnds, Marks
    <2>3. QED BY <1>0, <1>4, <2>1, <2>2 DEF SessionEnds, TypeOK, Message, Marks
  <1>5. QED BY <1>1, <1>2, <1>3, <1>4

\* So does a request of the guest.
LEMMA AskType ==
  ASSUME SessionInv, NEW c \in Conn, NEW r \in Request, Ask(c, r)
  PROVE  TypeOK'
  <1>0. TypeOK BY DEF SessionInv
  <1>1. listing' \in [Conn -> Listing]
    <2>1. r.page \in Nat BY DEF Request
    <2>2. CASE r.kind = "list"
      <3>1. listing[c].heard \subseteq Tools BY <1>0 DEF TypeOK, Listing
      <3>2. [listing[c] EXCEPT !.state = "asking", !.page = r.page] \in Listing
        <4>1. listing[c] \in Listing BY <1>0, Typed
        <4>2. QED BY <2>1, <4>1 DEF Listing
      <3>3. listing' = [listing EXCEPT ![c] =
                          [listing[c] EXCEPT !.state = "asking", !.page = r.page]]
        BY <1>0, <2>2 DEF Ask, TypeOK, Listing
      <3>4. QED BY <1>0, <3>2, <3>3, Typed
    <2>3. CASE r.kind # "list" BY <1>0, <2>3, Typed DEF Ask
    <2>4. QED BY <2>2, <2>3
  <1>2. asked' \in [Conn -> Seq(Request)] BY <1>0 DEF Ask, TypeOK
  <1>3. QED BY <1>0, <1>1, <1>2 DEF Ask, TypeOK, operator, session, wire, history

\* An audit row is appended to the rows of its request, or not written.
LEMMA AuditType ==
  ASSUME TypeOK, NEW c \in Conn, NEW i \in Ids,
         NEW d \in Decision, Audit(c, i, d)
  PROVE  /\ audit' \in [Conn -> [Ids -> Seq(Decision)]]
         /\ unwritten' \in [Conn -> SUBSET Ids]
         /\ \A j \in Ids \ {i} : RowStays(c, j)
         /\ \/ audit'[c][i] = Append(audit[c][i], d)
            \/ audit'[c][i] = audit[c][i] /\ i \in unwritten'[c]
  <1>1. Append(audit[c][i], d) \in Seq(Decision) BY Typed
  <1>2. CASE audit' = [audit EXCEPT ![c][i] = Append(@, d)] /\ unwritten' = unwritten
    BY <1>1, <1>2, Typed DEF RowStays
  <1>3. CASE unwritten' = [unwritten EXCEPT ![c] = @ \cup {i}] /\ audit' = audit
    BY <1>3, Typed DEF RowStays
  <1>4. QED BY <1>2, <1>3 DEF Audit

\* What _guest_to_upstream does with a request keeps the types.
LEMMA FromGuestType ==
  ASSUME SessionInv, NEW c \in Conn, NEW i \in Ids, FromGuest(c, i)
  PROVE  TypeOK'
  <1> USE DEF operator, session, guest, wire, history
  <1>0. TypeOK BY DEF SessionInv
  <1>1. read' \in [Conn -> Nat]
    <2>1. i \in Nat BY DEF Ids
    <2>2. read' = [read EXCEPT ![c] = i]
      BY DEF FromGuest, RefuseMethod, ForwardOther, ForwardList, DenyCall, CapCall,
             ForwardCall, Reads
    <2>3. QED BY <1>0, <2>1, <2>2, Typed
  <1>a. ASSUME Reply(c, i) PROVE got' \in [Conn -> [Ids -> Nat]]
    BY <1>0, <1>a, Typed DEF Reply
  <1>b. ASSUME Forward(c, i) PROVE at' \in [Conn -> SUBSET Ids]
    BY <1>0, <1>b, Typed DEF Forward
  <1>c. ASSUME CountCall(c) PROVE calls' \in [Conn -> Nat]
    BY <1>0, <1>c, Typed DEF CountCall
  <1>d. ASSUME pending' = [pending EXCEPT ![c][i] = "waiting"]
        PROVE  pending' \in [Conn -> [Ids -> Marks]]
    BY <1>0, <1>d, Typed DEF Marks
  <1>2. CASE RefuseMethod(c, i) BY <1>0, <1>1, <1>2, <1>a DEF RefuseMethod, TypeOK
  <1>3. CASE ForwardOther(c, i) BY <1>0, <1>1, <1>3, <1>b DEF ForwardOther, TypeOK
  <1>4. CASE ForwardList(c, i)
    BY <1>0, <1>1, <1>4, <1>b, <1>d DEF ForwardList, TypeOK, Marks
  <1>5. CASE DenyCall(c, i)
    <2>1. audit' \in [Conn -> [Ids -> Seq(Decision)]] /\ unwritten' \in [Conn -> SUBSET Ids]
      BY <1>0, <1>5, AuditType DEF DenyCall, Decision
    <2>2. QED BY <1>0, <1>1, <1>5, <1>a, <2>1 DEF DenyCall, TypeOK, Decision
  <1>6. CASE CapCall(c, i)
    <2>1. audit' \in [Conn -> [Ids -> Seq(Decision)]] /\ unwritten' \in [Conn -> SUBSET Ids]
      BY <1>0, <1>6, AuditType DEF CapCall, Decision
    <2>2. QED BY <1>0, <1>1, <1>6, <1>a, <1>c, <2>1 DEF CapCall, TypeOK, Decision
  <1>7. CASE ForwardCall(c, i)
    <2>1. forwarded' \in [Conn -> SUBSET Ids] BY <1>0, <1>7 DEF ForwardCall, TypeOK
    <2>2. QED BY <1>0, <1>1, <1>7, <1>b, <1>c, <1>d, <2>1 DEF ForwardCall, TypeOK, Marks
  <1>8. QED BY <1>2, <1>3, <1>4, <1>5, <1>6, <1>7 DEF FromGuest

\* So do the upstream's answers,
LEMMA UpstreamType ==
  ASSUME SessionInv, NEW c \in Conn, NEW i \in Ids,
         Answer(c, i) \/ PostQuiet(c, i) \/ PostBreaks(c, i)
  PROVE  TypeOK'
  <1> USE DEF operator, session, guest, history
  <1>0. TypeOK BY DEF SessionInv
  <1>1. ASSUME NEW m \in Seq(Message), Says(c, i, m),
               broken' \in [Conn -> SUBSET Ids]
        PROVE  TypeOK'
    <2>1. replies[c] \in Seq(Message) BY <1>0, Typed
    <2>2. replies[c] \o m \in Seq(Message) BY <1>1, <2>1, ConcatProperties
    <2>3. replies' \in [Conn -> Seq(Message)] BY <1>0, <1>1, <2>2, Typed DEF Says
    <2>4. at' \in [Conn -> SUBSET Ids] BY <1>0, <1>1, Typed DEF Says
    <2>5. QED BY <1>0, <1>1, <2>3, <2>4 DEF Says, TypeOK, Message
  <1>2. CASE Answer(c, i)
    <2>1. PICK o \in Outcome : Says(c, i, << [id |-> i, outcome |-> o] >>)
      BY <1>2 DEF Answer, Outcome, Outcomes
    <2>2. << [id |-> i, outcome |-> o] >> \in Seq(Message) BY DEF Message
    <2>3. broken' \in [Conn -> SUBSET Ids] BY <1>0, <1>2 DEF Answer, TypeOK
    <2>4. QED BY <1>1, <2>1, <2>2, <2>3
  <1>3. CASE PostQuiet(c, i)
    <2>1. <<>> \in Seq(Message) OBVIOUS
    <2>2. broken' \in [Conn -> SUBSET Ids] BY <1>0, <1>3 DEF PostQuiet, TypeOK
    <2>3. QED BY <1>1, <1>3, <2>1, <2>2 DEF PostQuiet
  <1>4. CASE PostBreaks(c, i)
    <2>1. PICK o \in Outcome :
            Says(c, i, << [id |-> i, outcome |-> o], [id |-> i, outcome |-> "fail"] >>)
      BY <1>4 DEF PostBreaks, Outcome, Outcomes
    <2>2. << [id |-> i, outcome |-> o], [id |-> i, outcome |-> "fail"] >> \in Seq(Message)
      BY DEF Outcome, Message
    <2>3. broken' \in [Conn -> SUBSET Ids] BY <1>0, <1>4 DEF PostBreaks, TypeOK
    <2>4. QED BY <1>1, <2>1, <2>2, <2>3
  <1>5. QED BY <1>2, <1>3, <1>4

\* their arrival,
LEMMA ReceiveType ==
  ASSUME TypeOK, NEW c \in Conn, NEW i, NEW o, Receives(c, i, o)
  PROVE  replies' \in [Conn -> Seq(Message)]
  <1>1. replies[c] \in Seq(Message) /\ replies[c] # <<>> BY Typed DEF Receives
  <1>2. Tail(replies[c]) \in Seq(Message) BY <1>1, HeadTailProperties
  <1>3. QED BY <1>2, Typed DEF Receives

\* what _upstream_to_guest does with them,
LEMMA ToGuestType ==
  ASSUME SessionInv, NEW c \in Conn, NEW i \in Ids, ToGuest(c, i)
  PROVE  TypeOK'
  <1> USE DEF operator, history
  <1>0. TypeOK /\ ReadFirst(c) /\ PagesExist(c) BY DEF SessionInv, ConnInv
  <1>1. replies' \in [Conn -> Seq(Message)]
    BY <1>0, ReceiveType DEF ToGuest, PassOn, CallReply, GoodList, FailedList
  <1>2. CASE PassOn(c, i)
    <2>1. got' \in [Conn -> [Ids -> Nat]] BY <1>0, <1>2, Typed DEF PassOn, Reply
    <2>2. QED BY <1>0, <1>1, <1>2, <2>1 DEF PassOn, TypeOK, session, Message
  <1>3. CASE CallReply(c, i)
    <2>1. PICK o \in Outcome : AuditReply(c, i, o) BY <1>3 DEF CallReply
    <2>2. CallDecision[o] \in Decision
      BY DEF CallDecision, Outcome, Decision
    <2>3. audit' \in [Conn -> [Ids -> Seq(Decision)]] /\ unwritten' \in [Conn -> SUBSET Ids]
      BY <1>0, <2>1, <2>2, AuditType DEF AuditReply
    <2>4. got' \in [Conn -> [Ids -> Nat]] /\ pending' \in [Conn -> [Ids -> Marks]]
      <3>1. got' \in [Conn -> [Ids -> Nat]] BY <1>0, <1>3, Typed DEF CallReply, Reply
      <3>2. pending' = [pending EXCEPT ![c][i] = "no"] BY <1>3 DEF CallReply, Pop
      <3>3. pending' \in [Conn -> [Ids -> Marks]] BY <1>0, <3>2, Typed DEF Marks
      <3>4. QED BY <3>1, <3>3
    <2>5. QED BY <1>0, <1>1, <1>3, <2>3, <2>4
      DEF CallReply, TypeOK, Message, Decision, Marks
  <1>4. CASE GoodList(c, i)
    <2>1. i \in 1..Len(asked[c]) /\ asked[c][i] \in Request /\ asked[c][i].kind = "list"
      BY <1>0, <1>4, PendingIsAsked DEF GoodList, Pending
    <2>2. Page(c, i) \subseteq Tools BY <1>0, <2>1, PageType DEF Page, PagesExist
    <2>3. Accumulate(c, i) \subseteq Tools BY <1>0, <2>2 DEF Accumulate, TypeOK
    <2>4. FilterTools(c, Page(c, i)) \subseteq Tools BY <2>2 DEF FilterTools
    <2>5. /\ got' \in [Conn -> [Ids -> Nat]] /\ listing' \in [Conn -> Listing]
          /\ shown' \in [Conn -> SUBSET Tools] /\ asked' = asked
          /\ late' \in [Conn -> BOOLEAN]
      <3>1. CASE pending[c][i] = "answered"
        BY <1>0, <1>4, <3>1 DEF GoodList, Swallow, guest, TypeOK
      <3>2. CASE pending[c][i] # "answered"
        <4>1. SendList(c, i, FilterTools(c, Page(c, i)), ~ IsLast(c, i)) /\ late' = late
          BY <1>4, <3>2 DEF GoodList
        <4>2. (~ IsLast(c, i)) \in BOOLEAN BY DEF IsLast
        <4>3. QED BY <1>0, <2>1, <2>4, <4>1, <4>2, SendListType DEF TypeOK
      <3>3. QED BY <3>1, <3>2
    <2>6. seen' \in [Conn -> SUBSET Tools] /\ cache' \subseteq Tools
      BY <1>0, <1>4, <2>3 DEF GoodList, SaveTools, TypeOK
    <2>7. pending' \in [Conn -> [Ids -> Marks]]
      BY <1>0, <1>4, Typed DEF GoodList, Pop, Marks
    <2>8. QED BY <1>0, <1>1, <1>4, <2>5, <2>6, <2>7 DEF GoodList, TypeOK, Message, Marks
  <1>5. CASE FailedList(c, i)
    <2>1. asked[c][i] \in Request
      BY <1>0, <1>5, PendingIsAsked DEF FailedList, Pending
    <2>2. CachedList(c) \subseteq Tools BY <1>0 DEF CachedList, FilterTools, TypeOK
    <2>3. /\ got' \in [Conn -> [Ids -> Nat]] /\ listing' \in [Conn -> Listing]
          /\ shown' \in [Conn -> SUBSET Tools] /\ asked' = asked
      <3>1. CASE Swallow(c, i)
        <4>1. got' = got /\ listing' = listing /\ shown' = shown /\ asked' = asked
          BY <3>1 DEF Swallow, guest
        <4>2. shown \in [Conn -> SUBSET Tools] BY <1>0 DEF TypeOK
        <4>3. QED BY <1>0, <4>1, <4>2, Typed
      <3>2. CASE SendList(c, i, CachedList(c), FALSE) BY <1>0, <2>1, <2>2, <3>2, SendListType
      <3>3. CASE SendFailure(c, i)
        <4>1. got' \in [Conn -> [Ids -> Nat]] BY <1>0, <3>3, Typed DEF SendFailure, Reply
        <4>2. [listing[c] EXCEPT !.state = "failed"] \in Listing
          <5>1. listing[c] \in Listing BY <1>0, Typed
          <5>2. QED BY <5>1 DEF Listing
        <4>3. listing' = [listing EXCEPT ![c] = [listing[c] EXCEPT !.state = "failed"]]
          BY <1>0, <3>3, Typed DEF SendFailure, Listing
        <4>4. listing' \in [Conn -> Listing] BY <1>0, <4>2, <4>3, Typed
        <4>5. QED BY <1>0, <3>3, <4>1, <4>4 DEF SendFailure, TypeOK
      <3>4. QED BY <1>5, <3>1, <3>2, <3>3 DEF FailedList
    <2>4. pending' \in [Conn -> [Ids -> Marks]]
      BY <1>0, <1>5, Typed DEF FailedList, Pop, Marks
    <2>5. QED BY <1>0, <1>1, <1>5, <2>3, <2>4 DEF FailedList, TypeOK, Message, Marks
  <1>6. QED BY <1>2, <1>3, <1>4, <1>5 DEF ToGuest

\* and the watchdog.
LEMMA WatchdogType ==
  ASSUME SessionInv, NEW c \in Conn, NEW i \in Ids, Watchdog(c, i)
  PROVE  TypeOK'
  <1>0. TypeOK /\ ReadFirst(c) BY DEF SessionInv, ConnInv
  <1>1. asked[c][i] \in Request BY <1>0, PendingIsAsked DEF Watchdog
  <1>2. CachedList(c) \subseteq Tools BY <1>0 DEF CachedList, FilterTools, TypeOK
  <1>3. /\ got' \in [Conn -> [Ids -> Nat]] /\ listing' \in [Conn -> Listing]
        /\ shown' \in [Conn -> SUBSET Tools] /\ asked' = asked
    BY <1>0, <1>1, <1>2, SendListType DEF Watchdog, guest, TypeOK
  <1>4. pending' \in [Conn -> [Ids -> Marks]]
    BY <1>0, Typed DEF Watchdog, Marks
  <1>5. QED BY <1>0, <1>3, <1>4 DEF Watchdog, TypeOK, Marks, operator, wire, history

\* What the guest asks is a request, and there is room for it.
LEMMA AskedIsRequest ==
  ASSUME TypeOK, NEW c \in Conn, Len(asked[c]) < MaxReqs,
         NEW r \in MayAsk[c][Len(asked[c]) + 1]
  PROVE  r \in Request
  BY SessionBounds DEF TypeOK, Ids

\* Every action keeps the types.
LEMMA TypeNext ==
  ASSUME SessionInv, Next
  PROVE  TypeOK'
  <1>0. TypeOK BY DEF SessionInv
  <1>1. CASE (\E r \in Rules : SetRule(r) \/ Forget(r)) \/ Toggle BY <1>1, OperatorType
  <1>2. CASE \E c \in Conn : \/ Attach(c) \/ Refuse(c) \/ OpenSession(c) \/ StartFails(c)
                            \/ RunEnds(c) \/ UpstreamDies(c) \/ SessionEnds(c)
    BY <1>2, ConnType
  <1>3. CASE \E c \in Conn : Len(asked[c]) < MaxReqs
                           /\ \E r \in MayAsk[c][Len(asked[c]) + 1] : Ask(c, r)
    BY <1>0, <1>3, AskType, AskedIsRequest
  <1>4. CASE \E c \in Conn, i \in Ids : FromGuest(c, i) BY <1>4, FromGuestType
  <1>5. CASE \E c \in Conn, i \in Ids : ToGuest(c, i) BY <1>5, ToGuestType
  <1>6. CASE \E c \in Conn, i \in Ids : Watchdog(c, i) BY <1>6, WatchdogType
  <1>7. CASE \E c \in Conn, i \in Ids : Answer(c, i) \/ PostQuiet(c, i) \/ PostBreaks(c, i)
    BY <1>7, UpstreamType
  <1>8. QED BY <1>1, <1>2, <1>3, <1>4, <1>5, <1>6, <1>7 DEF Next

-----------------------------------------------------------------------------
(* Messages from the upstream.                                             *)

\* Taking the first reply off the queue leaves the others in their order.
LEMMA QueueTail ==
  ASSUME TypeOK, NEW c \in Conn, NEW i \in Ids, NEW o, Receives(c, i, o)
  PROVE  /\ Queued(c, i) /\ \A j \in Ids : Queued(c, j)' => Queued(c, j)
         /\ Len(replies'[c]) \in Nat /\ Len(replies[c]) = Len(replies'[c]) + 1
         /\ replies[c][1].id = i
         /\ \A k \in 1..Len(replies'[c]) : replies'[c][k] = replies[c][k + 1]
  <1>1. replies[c] \in Seq(Message) /\ replies[c] # <<>> BY Typed DEF Receives
  <1>2. replies'[c] = Tail(replies[c]) BY Typed DEF Receives
  <1>3. /\ Len(replies[c]) \in Nat \ {0} /\ Tail(replies[c]) \in Seq(Message)
        /\ Len(Tail(replies[c])) = Len(replies[c]) - 1
        /\ \A k \in 1..Len(Tail(replies[c])) : Tail(replies[c])[k] = replies[c][k + 1]
    BY <1>1, HeadTailProperties, EmptySeq
  <1>4. replies[c][1].id = i BY <1>1 DEF Receives
  <1>5. Queued(c, i) BY <1>3, <1>4 DEF Queued
  <1>6. ASSUME NEW j \in Ids, Queued(c, j)' PROVE Queued(c, j)
    <2>1. PICK k \in 1..Len(replies'[c]) : replies'[c][k].id = j BY <1>6 DEF Queued
    <2>2. k + 1 \in 1..Len(replies[c]) /\ replies[c][k + 1].id = j BY <1>2, <1>3, <2>1
    <2>3. QED BY <2>2 DEF Queued
  <1>7. QED BY <1>2, <1>3, <1>4, <1>5, <1>6

\* An answer that can come once has come when it is received.
LEMMA QueueOnce ==
  ASSUME TypeOK, NEW c \in Conn, NEW i \in Ids, NEW o, Receives(c, i, o),
         OnItsWay(c), i \notin broken[c]
  PROVE  ~ Queued(c, i)'
  <1>1. SUFFICES ASSUME NEW k \in 1..Len(replies'[c]), replies'[c][k].id = i PROVE FALSE
    BY DEF Queued
  <1>2. /\ Len(replies'[c]) \in Nat /\ Len(replies[c]) = Len(replies'[c]) + 1
        /\ replies[c][1].id = i /\ replies'[c][k] = replies[c][k + 1]
    BY QueueTail
  <1>3. k + 1 \in 1..Len(replies[c]) /\ 1 \in 1..Len(replies[c]) /\ replies[c][k + 1].id = i
    BY <1>1, <1>2
  <1>4. k + 1 = 1 BY <1>2, <1>3 DEF OnItsWay
  <1>5. QED BY <1>2, <1>4

\* What the upstream says goes to the end of the queue.
LEMMA QueueSays ==
  ASSUME TypeOK, NEW c \in Conn, NEW i \in Ids, NEW m \in Seq(Message),
         \A k \in 1..Len(m) : m[k].id = i, Says(c, i, m)
  PROVE  /\ Len(replies[c]) \in Nat /\ Len(replies'[c]) = Len(replies[c]) + Len(m)
         /\ \A k \in 1..Len(replies[c]) : replies'[c][k] = replies[c][k]
         /\ \A k \in (Len(replies[c]) + 1)..Len(replies'[c]) : replies'[c][k].id = i
         /\ \A j \in Ids \ {i} : Queued(c, j)' => Queued(c, j)
  <1>1. replies[c] \in Seq(Message) /\ Len(m) \in Nat BY Typed
  <1>2. replies'[c] = replies[c] \o m BY Typed DEF Says
  <1>3. /\ Len(replies[c] \o m) = Len(replies[c]) + Len(m)
        /\ \A k \in 1..(Len(replies[c]) + Len(m)) : (replies[c] \o m)[k] =
             IF k <= Len(replies[c]) THEN replies[c][k] ELSE m[k - Len(replies[c])]
    BY <1>1, ConcatProperties
  <1>4. Len(replies[c]) \in Nat BY <1>1
  <1>5. /\ Len(replies'[c]) = Len(replies[c]) + Len(m)
        /\ \A k \in 1..Len(replies[c]) : replies'[c][k] = replies[c][k]
    BY <1>1, <1>2, <1>3, <1>4
  <1>6. ASSUME NEW k \in (Len(replies[c]) + 1)..Len(replies'[c]) PROVE replies'[c][k].id = i
    <2>1. k - Len(replies[c]) \in 1..Len(m) /\ replies'[c][k] = m[k - Len(replies[c])]
      BY <1>1, <1>2, <1>3, <1>4, <1>5, <1>6
    <2>2. QED BY <2>1
  <1>7. ASSUME NEW j \in Ids \ {i}, Queued(c, j)' PROVE Queued(c, j)
    <2>1. PICK k \in 1..Len(replies'[c]) : replies'[c][k].id = j BY <1>7 DEF Queued
    <2>2. k \in 1..Len(replies[c]) BY <1>1, <1>4, <1>5, <1>6, <1>7, <2>1
    <2>3. QED BY <1>5, <2>1, <2>2 DEF Queued
  <1>8. QED BY <1>4, <1>5, <1>6, <1>7

-----------------------------------------------------------------------------
(* What a step of one connection leaves of another.                        *)

\* All that ConnInv speaks of.
Same(d) ==
  /\ pc'[d] = pc[d] /\ policy'[d] = policy[d] /\ inForce'[d] = inForce[d]
  /\ read'[d] = read[d] /\ asked'[d] = asked[d] /\ listing'[d] = listing[d]
  /\ pending'[d] = pending[d] /\ at'[d] = at[d] /\ replies'[d] = replies[d]
  /\ got'[d] = got[d] /\ audit'[d] = audit[d] /\ unwritten'[d] = unwritten[d]
  /\ shown'[d] = shown[d]
  /\ calls'[d] = calls[d] /\ forwarded'[d] = forwarded[d] /\ broken'[d] = broken[d]

\* A connection's invariant speaks of nothing else.
LEMMA SameKeeps ==
  ASSUME NEW d \in Conn, ConnInv(d), Same(d), upstream' = upstream
  PROVE  ConnInv(d)'
  BY DEF ConnInv, Same, ReadFirst, PagesExist, OnItsWay, CallsPend, ByPolicy, Capped, Queued,
         Recorded, Permitted, Pages

ConnStep(c) ==
  \/ Attach(c) \/ Refuse(c) \/ OpenSession(c) \/ StartFails(c)
  \/ RunEnds(c) \/ UpstreamDies(c) \/ SessionEnds(c)
  \/ \E r \in Request : Len(asked[c]) < MaxReqs /\ r \in MayAsk[c][Len(asked[c]) + 1] /\ Ask(c, r)
  \/ \E i \in Ids : \/ FromGuest(c, i) \/ ToGuest(c, i) \/ Watchdog(c, i)
                   \/ Answer(c, i) \/ PostQuiet(c, i) \/ PostBreaks(c, i)

\* A step of one connection is no step of another.
LEMMA OthersSame ==
  ASSUME TypeOK, NEW c \in Conn, NEW d \in Conn \ {c}, ConnStep(c)
  PROVE  Same(d) /\ upstream' = upstream
  <1> USE DEF Same, Go, operator, session, guest, wire, history
  <1>0. /\ shown \in [Conn -> SUBSET Tools] /\ forwarded \in [Conn -> SUBSET Ids]
        /\ broken \in [Conn -> SUBSET Ids]
    BY DEF TypeOK
  <1>1. CASE \/ Attach(c) \/ Refuse(c) \/ OpenSession(c) \/ StartFails(c) \/ RunEnds(c)
             \/ UpstreamDies(c) \/ SessionEnds(c)
    BY <1>1
    DEF Attach, Refuse, OpenSession, StartFails, RunEnds, UpstreamDies, SessionEnds, TypeOK
  <1>2. CASE \E r \in Request : Ask(c, r) BY <1>2 DEF Ask, TypeOK
  <1>3. ASSUME NEW i \in Ids, FromGuest(c, i) PROVE Same(d) /\ upstream' = upstream
    <2> USE Typed DEF Reads, Reply, Forward, Audit, CountCall
    <2>1. CASE RefuseMethod(c, i) BY <2>1 DEF RefuseMethod
    <2>2. CASE ForwardOther(c, i) BY <2>2 DEF ForwardOther
    <2>3. CASE ForwardList(c, i) BY <2>3 DEF ForwardList
    <2>4. CASE DenyCall(c, i) BY <2>4 DEF DenyCall
    <2>5. CASE CapCall(c, i) BY <2>5 DEF CapCall
    <2>6. CASE ForwardCall(c, i) BY <1>0, <2>6 DEF ForwardCall
    <2>7. QED BY <1>3, <2>1, <2>2, <2>3, <2>4, <2>5, <2>6 DEF FromGuest
  <1>4. CASE \E i \in Ids : PassOn(c, i) \/ CallReply(c, i)
    BY ZenonT(40), <1>4 DEF PassOn, CallReply, Receives, Pop, Reply, AuditReply, Audit, TypeOK
  <1>a. ASSUME NEW i \in Ids, NEW tools, NEW more, SendList(c, i, tools, more)
        PROVE  got'[d] = got[d] /\ shown'[d] = shown[d] /\ listing'[d] = listing[d]
               /\ asked' = asked
    BY <1>0, <1>a, Typed DEF SendList, Reply
  <1>5. ASSUME NEW i \in Ids, GoodList(c, i) PROVE Same(d) /\ upstream' = upstream
    <2>1. got'[d] = got[d] /\ shown'[d] = shown[d] /\ listing'[d] = listing[d]
          /\ asked' = asked
      BY <1>5, <1>a DEF GoodList, Swallow
    <2>2. replies'[d] = replies[d] /\ pending'[d] = pending[d]
      BY <1>5, Typed DEF GoodList, Receives, Pop
    <2>3. QED BY <1>5, <2>1, <2>2 DEF GoodList, Receives
  <1>6. ASSUME NEW i \in Ids, FailedList(c, i) PROVE Same(d) /\ upstream' = upstream
    <2>1. got'[d] = got[d] /\ shown'[d] = shown[d] /\ listing'[d] = listing[d]
          /\ asked' = asked
      <3>1. CASE SendFailure(c, i) BY <3>1, Typed DEF SendFailure, Reply
      <3>2. QED BY <1>6, <1>a, <3>1 DEF FailedList, Swallow
    <2>2. replies'[d] = replies[d] /\ pending'[d] = pending[d]
      BY <1>6, Typed DEF FailedList, Receives, Pop
    <2>3. QED BY <1>6, <2>1, <2>2 DEF FailedList, Receives
  <1>7. ASSUME NEW i \in Ids, Watchdog(c, i) PROVE Same(d) /\ upstream' = upstream
    <2>1. got'[d] = got[d] /\ shown'[d] = shown[d] /\ listing'[d] = listing[d]
          /\ asked' = asked
      BY <1>7, <1>a DEF Watchdog
    <2>2. pending'[d] = pending[d] BY <1>7, Typed DEF Watchdog
    <2>3. QED BY <1>7, <2>1, <2>2 DEF Watchdog
  <1>8. ASSUME NEW i \in Ids, Answer(c, i) \/ PostQuiet(c, i) \/ PostBreaks(c, i)
        PROVE  Same(d) /\ upstream' = upstream
    <2>1. PICK m : Says(c, i, m) BY <1>8 DEF Answer, PostQuiet, PostBreaks
    <2>2. at'[d] = at[d] /\ replies'[d] = replies[d] BY <2>1, Typed DEF Says
    <2>3. broken'[d] = broken[d] BY <1>0, <1>8 DEF Answer, PostQuiet, PostBreaks
    <2>4. QED BY <2>1, <2>2, <2>3 DEF Says
  <1>9. QED BY <1>1, <1>2, <1>3, <1>4, <1>5, <1>6, <1>7, <1>8 DEF ConnStep, ToGuest

-----------------------------------------------------------------------------
(* Each action keeps the invariant of its connection.                      *)

\* A part holds on when nothing it speaks of has changed.
LEMMA PartsKeep ==
  ASSUME NEW c \in Conn, ConnInv(c), upstream' = upstream
  PROVE  /\ /\ read'[c] = read[c] /\ asked'[c] = asked[c] /\ pending'[c] = pending[c]
            /\ at'[c] = at[c] /\ got'[c] = got[c] /\ replies'[c] = replies[c]
            /\ audit'[c] = audit[c]
            => ReadFirst(c)'
         /\ asked'[c] = asked[c] /\ listing'[c] = listing[c] => PagesExist(c)'
         /\ /\ pending'[c] = pending[c] /\ got'[c] = got[c] /\ asked'[c] = asked[c]
            /\ at'[c] = at[c] /\ replies'[c] = replies[c] /\ broken'[c] = broken[c]
            => OnItsWay(c)'
         /\ /\ pending'[c] = pending[c] /\ got'[c] = got[c] /\ asked'[c] = asked[c]
            /\ at'[c] = at[c] /\ replies'[c] = replies[c] /\ audit'[c] = audit[c]
            /\ unwritten'[c] = unwritten[c]
            => CallsPend(c)'
         /\ /\ pc'[c] = pc[c] /\ shown'[c] = shown[c] /\ forwarded'[c] = forwarded[c]
            /\ inForce'[c] = inForce[c] /\ audit'[c] = audit[c] /\ policy'[c] = policy[c]
            /\ asked'[c] = asked[c]
            => ByPolicy(c)'
         /\ forwarded'[c] = forwarded[c] /\ calls'[c] = calls[c] => Capped(c)'
  <1> USE DEF ConnInv
  <1>1. /\ read'[c] = read[c] /\ asked'[c] = asked[c] /\ pending'[c] = pending[c]
        /\ at'[c] = at[c] /\ got'[c] = got[c] /\ replies'[c] = replies[c]
        /\ audit'[c] = audit[c]
        => ReadFirst(c)'
    BY DEF ReadFirst, Queued
  <1>2. asked'[c] = asked[c] /\ listing'[c] = listing[c] => PagesExist(c)'
    BY DEF PagesExist, Pages
  <1>3. /\ pending'[c] = pending[c] /\ got'[c] = got[c] /\ asked'[c] = asked[c]
        /\ at'[c] = at[c] /\ replies'[c] = replies[c] /\ broken'[c] = broken[c]
        => OnItsWay(c)'
    BY DEF OnItsWay, Queued
  <1>4. /\ pending'[c] = pending[c] /\ got'[c] = got[c] /\ asked'[c] = asked[c]
        /\ at'[c] = at[c] /\ replies'[c] = replies[c] /\ audit'[c] = audit[c]
        /\ unwritten'[c] = unwritten[c]
        => CallsPend(c)'
    BY DEF CallsPend, Queued, Recorded
  <1>5. /\ pc'[c] = pc[c] /\ shown'[c] = shown[c] /\ forwarded'[c] = forwarded[c]
        /\ inForce'[c] = inForce[c] /\ audit'[c] = audit[c] /\ policy'[c] = policy[c]
        /\ asked'[c] = asked[c]
        => ByPolicy(c)'
    BY DEF ByPolicy, Permitted
  <1>6. forwarded'[c] = forwarded[c] /\ calls'[c] = calls[c] => Capped(c)'
    BY DEF Capped
  <1>7. QED BY <1>1, <1>2, <1>3, <1>4, <1>5, <1>6

\* Opening a connection, or refusing to.
LEMMA OpeningKeeps ==
  ASSUME TypeOK, NEW c \in Conn, ConnInv(c),
         Attach(c) \/ Refuse(c) \/ OpenSession(c) \/ StartFails(c) \/ RunEnds(c)
  PROVE  ConnInv(c)'
  <1> USE DEF Go, operator, session, guest, wire, history
  <1>1. upstream' = upstream BY DEF Attach, Refuse, OpenSession, StartFails, RunEnds
  <1>2. ReadFirst(c)' /\ PagesExist(c)' /\ OnItsWay(c)' /\ CallsPend(c)' /\ Capped(c)'
    BY <1>1, PartsKeep DEF Attach, Refuse, OpenSession, StartFails, RunEnds
  <1>3. ByPolicy(c)'
    <2>1. CASE RunEnds(c) BY <1>1, <2>1, PartsKeep DEF RunEnds
    <2>2. CASE Attach(c) \/ Refuse(c) \/ StartFails(c)
      <3>1. pc[c] \in {"new", "starting"} BY <2>2 DEF Attach, Refuse, StartFails
      <3>2. /\ shown' = shown /\ forwarded' = forwarded /\ inForce' = inForce
            /\ audit' = audit /\ policy' = policy /\ asked' = asked
        BY <2>2 DEF Attach, Refuse, StartFails
      <3>3. QED BY <3>1, <3>2 DEF ConnInv, ByPolicy
    <2>3. CASE OpenSession(c)
      <3>1. pc[c] = "starting" /\ pc'[c] = "open" BY <2>3 DEF OpenSession, TypeOK
      <3>2. shown' = shown /\ forwarded' = forwarded /\ audit' = audit /\ asked' = asked
        BY <2>3 DEF OpenSession
      <3>3. shown[c] = {} /\ forwarded[c] = {} /\ \A i \in Ids : audit[c][i] = <<>>
        BY <3>1 DEF ConnInv, ByPolicy
      <3>4. inForce'[c] = rules /\ policy'[c] = RuntimeRules(Caller[c])
        BY <2>3 DEF OpenSession, TypeOK
      <3>5. QED BY <3>1, <3>2, <3>3, <3>4 DEF ByPolicy, RuntimeRules
    <2>4. QED BY <2>1, <2>2, <2>3
  <1>4. QED BY <1>2, <1>3 DEF ConnInv

\* The end of the upstream and of the session.
LEMMA ClosingKeeps ==
  ASSUME TypeOK, NEW c \in Conn, ConnInv(c), UpstreamDies(c) \/ SessionEnds(c)
  PROVE  ConnInv(c)'
  <1> USE DEF Go, operator, session, guest, wire, history
  <1>1. /\ upstream' = upstream /\ at'[c] = {} /\ read' = read /\ asked' = asked
        /\ got' = got /\ audit' = audit /\ listing' = listing /\ broken' = broken
        /\ shown' = shown /\ forwarded' = forwarded /\ inForce' = inForce
        /\ policy' = policy /\ calls' = calls /\ unwritten' = unwritten
    BY Typed DEF UpstreamDies, SessionEnds
  <1>2. \/ replies' = replies /\ pending' = pending
        \/ replies'[c] = <<>> /\ \A i \in Ids : pending'[c][i] = "no"
    BY Typed DEF UpstreamDies, SessionEnds
  <1>3. PagesExist(c)' /\ Capped(c)' BY <1>1, PartsKeep
  <1>4. ReadFirst(c)' BY <1>1, <1>2 DEF ConnInv, ReadFirst, Queued
  <1>5. OnItsWay(c)' BY <1>1, <1>2 DEF ConnInv, OnItsWay, Queued
  <1>6. CallsPend(c)' BY <1>1, <1>2 DEF ConnInv, CallsPend, Queued, Recorded
  <1>7. ByPolicy(c)'
    <2>1. pc[c] = "open" /\ pc'[c] \in {"open", "closed"}
      BY DEF UpstreamDies, SessionEnds, TypeOK
    <2>2. QED BY <1>1, <2>1 DEF ConnInv, ByPolicy, Permitted
  <1>8. QED BY <1>3, <1>4, <1>5, <1>6, <1>7 DEF ConnInv

\* The guest sends a request.
LEMMA AskKeeps ==
  ASSUME TypeOK, NEW c \in Conn, ConnInv(c), Len(asked[c]) < MaxReqs,
         NEW r \in Request, Ask(c, r)
  PROVE  ConnInv(c)'
  <1> USE DEF operator, session, wire, history
  <1>0. asked[c] \in Seq(Request) /\ Len(asked[c]) \in Nat /\ MaxReqs \in Nat
    BY Typed, SessionBounds
  <1>1. asked'[c] = Append(asked[c], r) BY Typed DEF Ask
  <1>2. /\ Len(asked'[c]) = Len(asked[c]) + 1
        /\ \A i \in 1..Len(asked[c]) : asked'[c][i] = asked[c][i]
        /\ asked'[c][Len(asked[c]) + 1] = r
    BY <1>0, <1>1
  <1>3. ASSUME NEW i \in Ids,
               \/ pending[c][i] # "no" \/ i \in at[c] \/ got[c][i] > 0
               \/ Queued(c, i) \/ audit[c][i] # <<>>
        PROVE  i \in 1..Len(asked[c])
    <2>1. i <= read[c] BY <1>3 DEF ConnInv, ReadFirst
    <2>2. QED BY <1>0, <2>1, Typed DEF ConnInv, ReadFirst, Ids
  <1>4. ReadFirst(c)'
    BY <1>0, <1>2, Typed DEF Ask, ConnInv, ReadFirst, Queued
  <1>5. PagesExist(c)'
    <2>1. ASSUME r.kind = "list" PROVE r.page \in 1..Pages
      <3>1. Pages \in Nat \ {0} BY SessionBounds DEF TypeOK, Pages
      <3>2. listing[c].page \in Nat BY Typed DEF Listing
      <3>3. r.page = Cursor(c) BY <2>1 DEF Ask
      <3>4. listing[c].state = "more" => listing[c].page < Pages
        BY DEF ConnInv, PagesExist
      <3>5. QED BY <3>1, <3>2, <3>3, <3>4 DEF Cursor
    <2>2. \A i \in 1..Len(asked'[c]) : i \in 1..Len(asked[c]) \/ i = Len(asked[c]) + 1
      BY <1>0, <1>2
    <2>3. listing'[c].state = "more" => listing'[c] = listing[c]
      BY Typed DEF Ask, Listing
    <2>4. upstream' = upstream BY DEF Ask
    <2>5. QED BY <1>2, <2>1, <2>2, <2>3, <2>4 DEF ConnInv, PagesExist, Pages
  <1>6. OnItsWay(c)'
    <2>1. \A i \in Ids : pending[c][i] \in {"answered", "unwatched"}
                         => asked'[c][i].kind = asked[c][i].kind
      BY <1>2, <1>3
    <2>2. /\ pending' = pending /\ got' = got /\ at' = at /\ replies' = replies
          /\ broken' = broken
      BY DEF Ask
    <2>3. OnItsWay(c) BY DEF ConnInv
    <2>4. QED BY <2>1, <2>2, <2>3 DEF OnItsWay, Queued
  <1>7. CallsPend(c)'
    <2>1. ASSUME NEW i \in Ids, i <= Len(asked'[c]), asked'[c][i].kind = "call"
          PROVE  /\ i \in at[c] \/ Queued(c, i) => pending[c][i] # "no" \/ got[c][i] > 0
                 /\ Recorded(c, i)
      <3>1. CASE i \in 1..Len(asked[c])
        <4>1. i <= Len(asked[c]) /\ asked[c][i] = asked'[c][i] BY <1>0, <1>2, <3>1
        <4>2. CallsPend(c) BY DEF ConnInv
        <4>3. QED BY <2>1, <4>1, <4>2 DEF CallsPend
      <3>2. CASE i \notin 1..Len(asked[c])
        <4>1. got[c][i] \in Nat /\ audit[c][i] \in Seq(Decision) BY Typed
        <4>2. QED BY <1>3, <3>2, <4>1 DEF Recorded
      <3>3. QED BY <3>1, <3>2
    <2>2. QED BY <2>1 DEF Ask, CallsPend, Queued, Recorded
  <1>8. ByPolicy(c)'
    <2>1. \A i \in forwarded[c] : i \in 1..Len(asked[c])
      BY <1>0 DEF ConnInv, ByPolicy, TypeOK, Ids
    <2>2. \A i \in Ids : \A k \in 1..Len(audit[c][i]) : i \in 1..Len(asked[c])
      <3>1. ASSUME NEW i \in Ids, NEW k \in 1..Len(audit[c][i]) PROVE audit[c][i] # <<>>
        BY <3>1
      <3>2. QED BY <1>3, <3>1
    <2>3. \A i \in 1..Len(asked[c]) : asked'[c][i] = asked[c][i] /\ i <= Len(asked'[c])
      BY <1>0, <1>2
    <2>4. QED BY <2>1, <2>2, <2>3 DEF Ask, ConnInv, ByPolicy, Permitted
  <1>9. Capped(c)' BY PartsKeep DEF Ask
  <1>10. QED BY <1>4, <1>5, <1>6, <1>7, <1>8, <1>9 DEF ConnInv

\* A request that is read is new to the proxy.
LEMMA ReadIsNew ==
  ASSUME TypeOK, NEW c \in Conn, ConnInv(c), NEW i \in Ids, NEW kind, Reads(c, i, kind)
  PROVE  /\ i \in 1..Len(asked[c]) /\ asked[c][i].kind = kind
         /\ pending[c][i] = "no" /\ i \notin at[c] /\ got[c][i] = 0 /\ ~ Queued(c, i)
         /\ audit[c][i] = <<>> /\ read'[c] = i /\ read[c] < i
  <1>1. i = read[c] + 1 /\ read[c] \in Nat /\ i <= Len(asked[c]) /\ read'[c] = i
    BY Typed DEF Reads
  <1>2. got[c][i] \in Nat BY Typed
  <1>3. ~ (i <= read[c]) BY <1>1
  <1>4. ~ (\/ pending[c][i] # "no" \/ i \in at[c] \/ got[c][i] > 0
           \/ Queued(c, i) \/ audit[c][i] # <<>>)
    BY <1>3 DEF ConnInv, ReadFirst
  <1>5. asked[c][i].kind = kind BY DEF Reads
  <1>6. QED BY <1>1, <1>2, <1>4, <1>5

\* The first row of a request.
LEMMA OneRow ==
  ASSUME NEW d
  PROVE  Len(Append(<<>>, d)) = 1
  OBVIOUS

\* What it comes to for the request: an answer of the proxy's own, or a place upstream.
LEMMA ReadEffect ==
  ASSUME TypeOK, NEW c \in Conn, ConnInv(c), NEW i \in Ids, FromGuest(c, i)
  PROVE  /\ i \in 1..Len(asked[c]) /\ read'[c] = i /\ read[c] < i
         /\ \A j \in Ids \ {i} : /\ got'[c][j] = got[c][j] /\ RowStays(c, j)
                                 /\ pending'[c][j] = pending[c][j]
         /\ \/ at'[c] = at[c] /\ got'[c][i] = 1 /\ pending'[c][i] = "no"
            \/ /\ at'[c] = at[c] \cup {i} /\ got'[c][i] = 0
               /\ pending'[c][i] \in {"no", "waiting"}
               /\ asked[c][i].kind = "call" => pending'[c][i] = "waiting"
         /\ asked[c][i].kind = "call" => Recorded(c, i)'
         /\ \A k \in 1..Len(audit'[c][i]) :
              /\ audit'[c][i][k] \in {"denied", "capped"}
              /\ audit'[c][i][k] = "denied" => ~ Permitted(c, asked[c][i].tool)
  <1> USE DEF session, guest
  <1> DEFINE Kept == \A j \in Ids \ {i} : /\ got'[c][j] = got[c][j]
                                          /\ RowStays(c, j)
                                          /\ pending'[c][j] = pending[c][j]
             New == /\ i \in 1..Len(asked[c]) /\ pending[c][i] = "no" /\ i \notin at[c]
                    /\ got[c][i] = 0 /\ audit[c][i] = <<>> /\ read'[c] = i /\ read[c] < i
  <1>0. New
    BY ReadIsNew DEF FromGuest, RefuseMethod, ForwardOther, ForwardList, DenyCall, CapCall,
                     ForwardCall
  <1>a. ASSUME Reply(c, i)
        PROVE  got'[c][i] = 1 /\ \A j \in Ids \ {i} : got'[c][j] = got[c][j]
    BY <1>0, <1>a, Typed DEF Reply
  <1>b. ASSUME NEW d \in Decision, Audit(c, i, d), Reply(c, i)
        PROVE  /\ Recorded(c, i)' /\ \A j \in Ids \ {i} : RowStays(c, j)
               /\ \A k \in 1..Len(audit'[c][i]) : audit'[c][i][k] = d
    <2>1. \/ audit'[c][i] = Append(<<>>, d)
          \/ audit'[c][i] = <<>> /\ i \in unwritten'[c]
      BY <1>0, <1>b, AuditType
    <2>2. audit'[c][i] = <<d>> \/ audit'[c][i] = <<>> BY <2>1
    <2>3. \A k \in 1..Len(audit'[c][i]) : audit'[c][i][k] = d BY <2>2
    <2>4. Recorded(c, i)'
      <3>1. Len(audit'[c][i]) = 1 \/ (audit'[c][i] = <<>> /\ i \in unwritten'[c])
        BY <2>1, OneRow
      <3>2. got'[c][i] = 1 BY <1>a, <1>b
      <3>3. QED BY <3>1, <3>2 DEF Recorded
    <2>5. QED BY <1>b, <2>3, <2>4, AuditType
  <1>e. ASSUME UNCHANGED trail PROVE \A j \in Ids : RowStays(c, j)
    BY <1>e DEF RowStays
  <1>c. ASSUME Forward(c, i) PROVE at'[c] = at[c] \cup {i}
    BY <1>c, Typed DEF Forward
  <1>d. ASSUME pending' = [pending EXCEPT ![c][i] = "waiting"]
        PROVE  pending'[c][i] = "waiting" /\ \A j \in Ids \ {i} : pending'[c][j] = pending[c][j]
    BY <1>d, Typed
  <1>2. CASE RefuseMethod(c, i)
    <2>1. asked[c][i].kind = "refused" /\ Reply(c, i) BY <1>2 DEF RefuseMethod, Reads
    <2>2. at' = at /\ pending' = pending /\ UNCHANGED trail BY <1>2 DEF RefuseMethod, wire
    <2>3. QED BY <1>0, <1>a, <1>e, <2>1, <2>2
  <1>3. CASE ForwardOther(c, i)
    <2>1. asked[c][i].kind = "other" /\ Forward(c, i) BY <1>3 DEF ForwardOther, Reads
    <2>2. got' = got /\ pending' = pending /\ UNCHANGED trail BY <1>3 DEF ForwardOther
    <2>3. QED BY <1>0, <1>c, <1>e, <2>1, <2>2
  <1>4. CASE ForwardList(c, i)
    <2>1. asked[c][i].kind = "list" /\ Forward(c, i) BY <1>4 DEF ForwardList, Reads
    <2>2. got' = got /\ UNCHANGED trail /\ pending' = [pending EXCEPT ![c][i] = "waiting"]
      BY <1>4 DEF ForwardList
    <2>3. QED BY <1>0, <1>c, <1>d, <1>e, <2>1, <2>2
  <1>5. CASE DenyCall(c, i)
    <2>1. ~ Permitted(c, asked[c][i].tool) /\ Reply(c, i) /\ Audit(c, i, "denied")
      BY <1>5 DEF DenyCall
    <2>2. at' = at /\ pending' = pending BY <1>5 DEF DenyCall, wire
    <2>3. /\ Recorded(c, i)' /\ \A j \in Ids \ {i} : RowStays(c, j)
          /\ \A k \in 1..Len(audit'[c][i]) : audit'[c][i][k] = "denied"
      BY <1>b, <2>1 DEF Decision
    <2>4. QED BY <1>0, <1>a, <2>1, <2>2, <2>3
  <1>6. CASE CapCall(c, i)
    <2>1. Reply(c, i) /\ Audit(c, i, "capped") BY <1>6 DEF CapCall
    <2>2. at' = at /\ pending' = pending BY <1>6 DEF CapCall, wire
    <2>3. /\ Recorded(c, i)' /\ \A j \in Ids \ {i} : RowStays(c, j)
          /\ \A k \in 1..Len(audit'[c][i]) : audit'[c][i][k] = "capped"
      BY <1>b, <2>1 DEF Decision
    <2>4. QED BY <1>0, <1>a, <2>1, <2>2, <2>3
  <1>7. CASE ForwardCall(c, i)
    <2>1. Forward(c, i) BY <1>7 DEF ForwardCall
    <2>2. got' = got /\ UNCHANGED trail /\ pending' = [pending EXCEPT ![c][i] = "waiting"]
      BY <1>7 DEF ForwardCall
    <2>3. QED BY <1>0, <1>c, <1>d, <1>e, <2>1, <2>2 DEF Recorded
  <1>8. QED BY <1>2, <1>3, <1>4, <1>5, <1>6, <1>7 DEF FromGuest

\* The proxy reads it, and answers or forwards it (_intercept).
LEMMA FromGuestKeeps ==
  ASSUME TypeOK, NEW c \in Conn, ConnInv(c), NEW i \in Ids, FromGuest(c, i)
  PROVE  ConnInv(c)'
  <1> USE DEF session, guest, wire, history
  <1>0. /\ i \in 1..Len(asked[c]) /\ read'[c] = i /\ read[c] < i
        /\ \A j \in Ids \ {i} : /\ got'[c][j] = got[c][j] /\ RowStays(c, j)
                                /\ pending'[c][j] = pending[c][j]
        /\ \/ at'[c] = at[c] /\ got'[c][i] = 1 /\ pending'[c][i] = "no"
           \/ /\ at'[c] = at[c] \cup {i} /\ got'[c][i] = 0
              /\ pending'[c][i] \in {"no", "waiting"}
              /\ asked[c][i].kind = "call" => pending'[c][i] = "waiting"
        /\ asked[c][i].kind = "call" => Recorded(c, i)'
        /\ \A k \in 1..Len(audit'[c][i]) :
             audit'[c][i][k] = "denied" => ~ Permitted(c, asked[c][i].tool)
    BY ReadEffect
  <1>a. \A j \in Ids \ {i} : audit'[c][j] = audit[c][j] /\ (Recorded(c, j)' <=> Recorded(c, j))
    BY <1>0 DEF RowStays, Recorded
  <1>1. /\ upstream' = upstream /\ pc' = pc /\ policy' = policy /\ inForce' = inForce
        /\ asked' = asked /\ replies' = replies /\ broken' = broken /\ shown' = shown
        /\ listing' = listing
    BY DEF FromGuest, RefuseMethod, ForwardOther, ForwardList, DenyCall, CapCall,
           ForwardCall, Reads, Reply
  <1>2. pc[c] = "open"
    BY DEF FromGuest, RefuseMethod, ForwardOther, ForwardList, DenyCall, CapCall,
           ForwardCall, Reads
  <1>3. i \notin at[c] /\ ~ Queued(c, i)
    BY ReadIsNew DEF FromGuest, RefuseMethod, ForwardOther, ForwardList, DenyCall, CapCall,
                     ForwardCall
  <1>4. ReadFirst(c)'
    <2>1. /\ i \in Nat /\ read[c] \in Nat /\ Len(asked[c]) \in Nat
          /\ i <= Len(asked[c]) /\ Len(asked[c]) <= MaxReqs
      BY <1>0, Typed, SessionBounds DEF Ids, ConnInv, ReadFirst
    <2>2. ASSUME NEW j \in Ids \ {i},
                 \/ pending[c][j] # "no" \/ j \in at[c] \/ got[c][j] > 0
                 \/ Queued(c, j) \/ audit[c][j] # <<>>
          PROVE  j <= i
      <3>1. j <= read[c] BY <2>2 DEF ConnInv, ReadFirst
      <3>2. QED BY <1>0, <2>1, <3>1 DEF Ids
    <2>3. ASSUME NEW j \in Ids,
                 (\/ pending[c][j] # "no" \/ j \in at[c] \/ got[c][j] > 0
                  \/ Queued(c, j) \/ audit[c][j] # <<>>)'
          PROVE  j <= i
      <3>1. CASE j = i BY <2>1, <3>1
      <3>2. CASE j # i BY <1>0, <1>a, <1>1, <2>2, <2>3, <3>2 DEF Queued
      <3>3. QED BY <3>1, <3>2
    <2>4. QED BY <1>0, <1>1, <2>1, <2>3 DEF ReadFirst
  <1>5. PagesExist(c)' BY <1>1, PartsKeep
  <1>6. OnItsWay(c)'
    <2>1. OnItsWay(c) BY DEF ConnInv
    <2>2. \A j \in Ids : Queued(c, j)' <=> Queued(c, j) BY <1>1 DEF Queued
    <2>3. \A j, k \in 1..Len(replies[c]) : ~ (replies[c][j].id = i)
      BY <1>3 DEF Queued
    <2>4. \A j \in Ids \ {i} : j \in at'[c] <=> j \in at[c] BY <1>0
    <2>5. ASSUME NEW j \in Ids, j # i
          PROVE  /\ got'[c][j] = got[c][j] /\ pending'[c][j] = pending[c][j]
                 /\ j \in at'[c] <=> j \in at[c]
      BY <1>0, <2>4, <2>5
    <2>6. /\ ~ Queued(c, i) /\ (i \in at'[c] => got'[c][i] = 0)
          /\ got'[c][i] \in {0, 1} /\ pending'[c][i] \in {"no", "waiting"}
          /\ (pending'[c][i] = "waiting" => got'[c][i] = 0)
      BY <1>0, <1>3
    <2>7. \A j \in Ids :
            /\ pending'[c][j] \in {"waiting", "unwatched"} => got'[c][j] = 0
            /\ pending'[c][j] \in {"answered", "unwatched"} => asked[c][j].kind = "list"
      <3>1. ASSUME NEW j \in Ids
            PROVE  /\ pending'[c][j] \in {"waiting", "unwatched"} => got'[c][j] = 0
                   /\ pending'[c][j] \in {"answered", "unwatched"} => asked[c][j].kind = "list"
        <4>1. CASE j = i BY <2>6, <4>1
        <4>2. CASE j # i BY <2>1, <2>5, <4>2 DEF OnItsWay
        <4>3. QED BY <4>1, <4>2
      <3>2. QED BY <3>1
    <2>8. ASSUME NEW j \in Ids, j \notin broken[c]
          PROVE  /\ got'[c][j] <= 1
                 /\ j \in at'[c] \/ Queued(c, j) => got'[c][j] = 0 \/ pending'[c][j] = "answered"
                 /\ ~ (j \in at'[c] /\ Queued(c, j))
                 /\ \A k, n \in 1..Len(replies[c]) :
                      replies[c][k].id = j /\ replies[c][n].id = j => k = n
      <3>1. CASE j = i
        <4>1. got'[c][i] <= 1 BY <2>6
        <4>2. QED BY <2>3, <2>6, <3>1, <4>1
      <3>2. CASE j # i BY <2>1, <2>5, <2>8, <3>2 DEF OnItsWay
      <3>3. QED BY <3>1, <3>2
    <2>9. QED BY <1>1, <2>2, <2>7, <2>8 DEF OnItsWay
  <1>7. CallsPend(c)'
    <2>1. CallsPend(c) BY DEF ConnInv
    <2>2. \A j \in Ids : Queued(c, j)' <=> Queued(c, j) BY <1>1 DEF Queued
    <2>3. \A j \in Ids \ {i} : j \in at'[c] <=> j \in at[c] BY <1>0
    <2>4. QED BY <1>0, <1>a, <1>1, <1>3, <2>1, <2>2, <2>3 DEF CallsPend
  <1>8. ByPolicy(c)'
    <2>1. ByPolicy(c) BY DEF ConnInv
    <2>2. \A t : Permitted(c, t)' <=> Permitted(c, t) BY <1>1 DEF Permitted
    <2>3. \A j \in forwarded'[c] : j <= Len(asked[c]) /\ Permitted(c, asked[c][j].tool)
      <3>1. \/ forwarded'[c] = forwarded[c]
            \/ forwarded'[c] = forwarded[c] \cup {i} /\ Permitted(c, asked[c][i].tool)
        <4>1. CASE ForwardCall(c, i)
          <5>1. forwarded \in [Conn -> SUBSET Ids] BY DEF TypeOK
          <5>2. QED BY <4>1, <5>1 DEF ForwardCall
        <4>2. CASE ~ ForwardCall(c, i)
          <5>1. forwarded' = forwarded
            BY <4>2
            DEF FromGuest, RefuseMethod, ForwardOther, ForwardList, DenyCall, CapCall
          <5>2. QED BY <5>1
        <4>3. QED BY <4>1, <4>2
      <3>2. i <= Len(asked[c]) BY <1>0
      <3>3. QED BY <2>1, <3>1, <3>2 DEF ByPolicy
    <2>4. \A j \in Ids : \A k \in 1..Len(audit'[c][j]) :
            audit'[c][j][k] = "denied" => ~ Permitted(c, asked[c][j].tool)
      BY <1>0, <1>a, <2>1 DEF ByPolicy
    <2>5. QED BY <1>1, <1>2, <2>1, <2>2, <2>3, <2>4 DEF ByPolicy
  <1>9. Capped(c)'
    <2>1. Capped(c) BY DEF ConnInv
    <2>2. CASE forwarded' = forwarded /\ calls' = calls BY <2>1, <2>2 DEF Capped
    <2>3. CASE CapCall(c, i)
      <3>1. forwarded' = forwarded /\ calls'[c] = calls[c] + 1 /\ calls[c] \in Nat
        BY <2>3, Typed DEF CapCall, CountCall
      <3>2. Cardinality(forwarded[c]) \in Nat BY <2>1, FS_CardinalityType DEF Capped
      <3>3. QED BY <2>1, <3>1, <3>2 DEF Capped
    <2>4. CASE ForwardCall(c, i)
      <3>1. /\ forwarded'[c] = forwarded[c] \cup {i} /\ calls'[c] = calls[c] + 1
            /\ calls[c] \in Nat /\ calls'[c] <= MaxCalls
        BY <2>4, Typed DEF ForwardCall, CountCall, TypeOK
      <3>2. /\ IsFiniteSet(forwarded[c] \cup {i}) /\ Cardinality(forwarded[c]) \in Nat
            /\ Cardinality(forwarded[c] \cup {i}) \in
                 {Cardinality(forwarded[c]), Cardinality(forwarded[c]) + 1}
        BY <2>1, FS_CardinalityType, FS_AddElement DEF Capped
      <3>3. QED BY <2>1, <3>1, <3>2, SessionBounds DEF Capped
    <2>5. QED
      BY <2>2, <2>3, <2>4
      DEF FromGuest, RefuseMethod, ForwardOther, ForwardList, DenyCall
  <1>10. QED BY <1>4, <1>5, <1>6, <1>7, <1>8, <1>9 DEF ConnInv

\* What the upstream says are messages for one request, and two only if its stream broke.
LEMMA SaysMessages ==
  ASSUME TypeOK, NEW c \in Conn, NEW i \in Ids,
         Answer(c, i) \/ PostQuiet(c, i) \/ PostBreaks(c, i)
  PROVE  \E m \in Seq(Message) :
           /\ Says(c, i, m) /\ Len(m) \in Nat /\ \A k \in 1..Len(m) : m[k].id = i
           /\ Len(m) <= 1 \/ i \in broken'[c]
  <1>1. CASE Answer(c, i)
    <2>1. PICK o \in Outcome : Says(c, i, << [id |-> i, outcome |-> o] >>)
      BY <1>1 DEF Answer, Outcome, Outcomes
    <2> DEFINE m == << [id |-> i, outcome |-> o] >>
    <2>2. m \in Seq(Message) /\ Len(m) \in Nat /\ Len(m) <= 1 BY DEF Message
    <2>3. \A k \in 1..Len(m) : m[k].id = i OBVIOUS
    <2>4. Says(c, i, m) BY <2>1
    <2> HIDE DEF m
    <2>5. QED BY <2>2, <2>3, <2>4
  <1>2. CASE PostQuiet(c, i)
    <2> DEFINE m == <<>>
    <2>1. /\ m \in Seq(Message) /\ Len(m) \in Nat /\ Len(m) <= 1
          /\ \A k \in 1..Len(m) : m[k].id = i
      OBVIOUS
    <2>2. Says(c, i, m) BY <1>2 DEF PostQuiet
    <2> HIDE DEF m
    <2>3. QED BY <2>1, <2>2
  <1>3. CASE PostBreaks(c, i)
    <2>0. PICK o \in Outcome :
            Says(c, i, << [id |-> i, outcome |-> o], [id |-> i, outcome |-> "fail"] >>)
      BY <1>3 DEF PostBreaks, Outcome, Outcomes
    <2> DEFINE m == << [id |-> i, outcome |-> o], [id |-> i, outcome |-> "fail"] >>
    <2>1. m \in Seq(Message) /\ Len(m) = 2 BY DEF Outcome, Message
    <2>2. \A k \in 1..2 : m[k].id = i OBVIOUS
    <2>3. i \in broken'[c]
      <3>1. broken \in [Conn -> SUBSET Ids] BY DEF TypeOK
      <3>2. QED BY <1>3, <3>1 DEF PostBreaks
    <2>4. Says(c, i, m) BY <2>0
    <2> HIDE DEF m
    <2>5. Len(m) \in Nat /\ 1..Len(m) = 1..2 BY <2>1
    <2>6. QED BY <2>1, <2>2, <2>3, <2>4, <2>5
  <1>4. QED BY <1>1, <1>2, <1>3

\* The upstream's answer is queued, or two, or none (HttpUpstream.send).
LEMMA UpstreamKeeps ==
  ASSUME TypeOK, NEW c \in Conn, ConnInv(c), NEW i \in Ids,
         Answer(c, i) \/ PostQuiet(c, i) \/ PostBreaks(c, i)
  PROVE  ConnInv(c)'
  <1> USE DEF session, guest
  <1>1. PICK m \in Seq(Message) :
          /\ Says(c, i, m) /\ Len(m) \in Nat /\ \A k \in 1..Len(m) : m[k].id = i
          /\ Len(m) <= 1 \/ i \in broken'[c]
    BY SaysMessages
  <1>2. /\ upstream' = upstream /\ pc' = pc /\ policy' = policy /\ inForce' = inForce
        /\ asked' = asked /\ read' = read /\ got' = got /\ pending' = pending
        /\ audit' = audit /\ unwritten' = unwritten /\ shown' = shown
        /\ listing' = listing /\ calls' = calls /\ forwarded' = forwarded
    BY <1>1 DEF Says
  <1>3. i \in at[c] /\ at'[c] = at[c] \ {i} BY <1>1, Typed DEF Says
  <1>4. broken[c] \subseteq broken'[c]
    <2>1. broken \in [Conn -> SUBSET Ids] BY DEF TypeOK
    <2>2. QED BY <2>1 DEF Answer, PostQuiet, PostBreaks
  <1>5. /\ Len(replies[c]) \in Nat /\ Len(replies'[c]) = Len(replies[c]) + Len(m)
        /\ \A k \in 1..Len(replies[c]) : replies'[c][k] = replies[c][k]
        /\ \A k \in (Len(replies[c]) + 1)..Len(replies'[c]) : replies'[c][k].id = i
        /\ \A j \in Ids \ {i} : Queued(c, j)' => Queued(c, j)
    BY <1>1, QueueSays
  <1>6. ReadFirst(c)'
    <2>1. ReadFirst(c) BY DEF ConnInv
    <2>2. i <= read[c] BY <1>3, <2>1 DEF ReadFirst
    <2>3. ASSUME NEW j \in Ids,
                 (\/ pending[c][j] # "no" \/ j \in at[c] \/ got[c][j] > 0
                  \/ Queued(c, j) \/ audit[c][j] # <<>>)'
          PROVE  j <= read[c]
      <3>1. CASE j = i BY <2>2, <3>1
      <3>2. CASE j # i
        <4>1. \/ pending[c][j] # "no" \/ j \in at[c] \/ got[c][j] > 0
              \/ Queued(c, j) \/ audit[c][j] # <<>>
          BY <1>2, <1>3, <1>5, <2>3, <3>2
        <4>2. QED BY <2>1, <4>1 DEF ReadFirst
      <3>3. QED BY <3>1, <3>2
    <2>4. QED BY <1>2, <2>1, <2>3 DEF ReadFirst
  <1>7. PagesExist(c)' /\ ByPolicy(c)' /\ Capped(c)' BY <1>2, PartsKeep
  <1>8. OnItsWay(c)'
    <2>1. OnItsWay(c) BY DEF ConnInv
    <2>2. ASSUME NEW j \in Ids, j \notin broken'[c]
          PROVE  /\ got'[c][j] <= 1
                 /\ j \in at'[c] \/ Queued(c, j)' => got'[c][j] = 0 \/ pending'[c][j] = "answered"
                 /\ ~ (j \in at'[c] /\ Queued(c, j)')
      <3>1. j \notin broken[c] BY <1>4, <2>2
      <3>2. CASE j = i BY <1>2, <1>3, <2>1, <3>1, <3>2 DEF OnItsWay
      <3>3. CASE j # i BY <1>2, <1>3, <1>5, <2>1, <3>1, <3>3 DEF OnItsWay
      <3>4. QED BY <3>2, <3>3
    <2>3. ASSUME NEW j \in Ids, j \notin broken'[c],
                 NEW k \in 1..Len(replies'[c]), NEW n \in 1..Len(replies'[c]),
                 replies'[c][k].id = j, replies'[c][n].id = j
          PROVE  k = n
      <3>1. j \notin broken[c] BY <1>4, <2>3
      <3>2. CASE j = i
        <4>1. Len(m) <= 1 BY <1>1, <2>3, <3>2
        <4>2. ~ Queued(c, i) BY <1>3, <2>1, <3>1, <3>2 DEF OnItsWay
        <4>3. k \notin 1..Len(replies[c]) /\ n \notin 1..Len(replies[c])
          BY <1>5, <2>3, <3>2, <4>2 DEF Queued
        <4>4. QED BY <1>1, <1>5, <4>1, <4>3
      <3>3. CASE j # i
        <4>1. k \in 1..Len(replies[c]) /\ n \in 1..Len(replies[c])
          <5>1. /\ k \notin (Len(replies[c]) + 1)..Len(replies'[c])
                /\ n \notin (Len(replies[c]) + 1)..Len(replies'[c])
            BY <1>5, <2>3, <3>3
          <5>2. Len(replies[c]) \in Nat /\ Len(replies'[c]) \in Nat BY <1>1, <1>5
          <5>3. QED BY <5>1, <5>2
        <4>2. replies[c][k].id = j /\ replies[c][n].id = j BY <1>5, <2>3, <4>1
        <4>3. QED BY <2>1, <3>1, <4>1, <4>2 DEF OnItsWay
      <3>4. QED BY <3>2, <3>3
    <2>4. \A j \in Ids :
            /\ pending'[c][j] \in {"waiting", "unwatched"} => got'[c][j] = 0
            /\ pending'[c][j] \in {"answered", "unwatched"} => asked'[c][j].kind = "list"
      BY <1>2, <2>1 DEF OnItsWay
    <2>5. QED BY <2>2, <2>3, <2>4 DEF OnItsWay
  <1>9. CallsPend(c)'
    <2>1. CallsPend(c) BY DEF ConnInv
    <2>2. ASSUME NEW j \in Ids, j \in at'[c] \/ Queued(c, j)'
          PROVE  j \in at[c] \/ Queued(c, j)
      BY <1>3, <1>5, <2>2
    <2>3. QED BY <1>2, <2>1, <2>2 DEF CallsPend, Recorded
  <1>10. QED BY <1>6, <1>7, <1>8, <1>9 DEF ConnInv

\* The guest is sent tools it may call, and a cursor while there are pages left.
LEMMA SendListKeeps ==
  ASSUME TypeOK, NEW c \in Conn, ConnInv(c), NEW i \in Ids, pending[c][i] # "no",
         asked[c][i].kind = "list", upstream' = upstream,
         NEW tools, \A t \in tools : Permitted(c, t),
         NEW more \in BOOLEAN, more => ~ IsLast(c, i), SendList(c, i, tools, more)
  PROVE  /\ PagesExist(c)' /\ \A t \in shown'[c] : t \in shown[c] \/ Permitted(c, t)
         /\ got'[c][i] = got[c][i] + 1 /\ asked' = asked
         /\ \A j \in Ids \ {i} : got'[c][j] = got[c][j]
  <1>1. shown \in [Conn -> SUBSET Tools] BY DEF TypeOK
  <1>2. got'[c][i] = got[c][i] + 1 /\ \A j \in Ids \ {i} : got'[c][j] = got[c][j]
    BY Typed DEF SendList, Reply
  <1>3. PagesExist(c)'
    <2>1. i \in 1..Len(asked[c]) BY PendingIsAsked DEF ConnInv
    <2>2. asked[c][i].page \in 1..Pages /\ Pages \in Nat
      BY <2>1, PageType DEF ConnInv, PagesExist
    <2>3. listing'[c].page = asked[c][i].page /\ (listing'[c].state = "more" => more)
      BY Typed DEF SendList
    <2>4. listing'[c].state = "more" => listing'[c].page < Pages
      BY <2>2, <2>3 DEF IsLast
    <2>5. asked' = asked /\ PagesExist(c) BY DEF SendList, ConnInv
    <2>6. QED BY <2>4, <2>5 DEF PagesExist, Pages
  <1>4. \A t \in shown'[c] : t \in shown[c] \/ Permitted(c, t) BY <1>1 DEF SendList
  <1>5. QED BY <1>2, <1>3, <1>4 DEF SendList

\* What a message comes to for the request it answers: one more reply, or none when the
\* cache has been served for it.
LEMMA ReceiveEffect ==
  ASSUME TypeOK, NEW c \in Conn, ConnInv(c), NEW i \in Ids, ToGuest(c, i)
  PROVE  /\ \E o : Receives(c, i, o)
         /\ pc[c] = "open" /\ pc' = pc /\ upstream' = upstream /\ policy' = policy
         /\ inForce' = inForce /\ asked' = asked /\ read' = read /\ at' = at
         /\ broken' = broken /\ forwarded' = forwarded /\ calls' = calls
         /\ \A j \in Ids \ {i} : /\ got'[c][j] = got[c][j] /\ RowStays(c, j)
                                 /\ pending'[c][j] = pending[c][j]
         /\ pending'[c][i] = "no" /\ got'[c][i] \in Nat
         /\ \/ got'[c][i] = got[c][i] /\ pending[c][i] = "answered"
            \/ /\ got'[c][i] = got[c][i] + 1
               /\ pending[c][i] # "answered" /\ (pending[c][i] # "no" => got[c][i] = 0)
         /\ asked[c][i].kind = "call" => got'[c][i] > 0 /\ Recorded(c, i)'
         /\ \/ audit'[c][i] = audit[c][i]
            \/ asked[c][i].kind = "call" /\ pending[c][i] # "no"
         /\ \A k \in 1..Len(audit'[c][i]) : audit'[c][i][k] = "denied" =>
              k \in 1..Len(audit[c][i]) /\ audit[c][i][k] = "denied"
         /\ PagesExist(c)' /\ \A t \in shown'[c] : t \in shown[c] \/ Permitted(c, t)
  <1> USE DEF operator, session, guest, history
  <1> DEFINE Frame == /\ \E o : Receives(c, i, o)
                      /\ pc[c] = "open" /\ pc' = pc /\ upstream' = upstream
                      /\ policy' = policy /\ inForce' = inForce /\ asked' = asked
                      /\ read' = read /\ at' = at /\ broken' = broken
                      /\ forwarded' = forwarded /\ calls' = calls
             Lists == PagesExist(c)' /\ \A t \in shown'[c] : t \in shown[c] \/ Permitted(c, t)
             Others == \A j \in Ids \ {i} : got'[c][j] = got[c][j]
             OtherPending == /\ pending'[c][i] = "no"
                             /\ \A j \in Ids \ {i} : pending'[c][j] = pending[c][j]
  <1>0. /\ got[c][i] \in Nat /\ OnItsWay(c) /\ CallsPend(c) /\ PagesExist(c) /\ ReadFirst(c)
        /\ pending[c][i] \in Marks
    BY Typed DEF ConnInv
  <1>a. ASSUME Reply(c, i) PROVE got'[c][i] = got[c][i] + 1 /\ Others
    BY <1>a, Typed DEF Reply
  <1>b. ASSUME Pop(c, i) PROVE OtherPending BY <1>b, Typed DEF Pop
  <1>c. ASSUME UNCHANGED trail PROVE audit' = audit /\ \A j \in Ids : RowStays(c, j)
    BY <1>c DEF RowStays
  <1>1. CASE PassOn(c, i)
    <2>1. Frame BY <1>1 DEF PassOn, Receives
    <2>2. Lists
      <3>1. listing' = listing /\ shown' = shown BY <1>1 DEF PassOn
      <3>2. QED BY <2>1, <3>1, PartsKeep
    <2>3. pending[c][i] = "no" /\ pending' = pending /\ UNCHANGED trail
      BY <1>1 DEF PassOn
    <2>4. got'[c][i] = got[c][i] + 1 /\ Others BY <1>1, <1>a DEF PassOn
    <2>5. ASSUME asked[c][i].kind = "call" PROVE Recorded(c, i)'
      <3>1. Queued(c, i) BY <2>1, QueueTail
      <3>2. i <= Len(asked[c])
        <4>1. i <= read[c] BY <1>0, <3>1 DEF ReadFirst
        <4>2. QED BY <1>0, <4>1, Typed DEF ReadFirst, Ids
      <3>3. got[c][i] > 0 BY <1>0, <2>3, <2>5, <3>1, <3>2 DEF CallsPend
      <3>4. Recorded(c, i) BY <1>0, <2>5, <3>2 DEF CallsPend
      <3>5. got'[c][i] > 0 BY <1>0, <2>4, <3>3
      <3>6. QED BY <2>3, <3>3, <3>4, <3>5 DEF Recorded
    <2>6. QED BY <1>0, <1>c, <2>1, <2>2, <2>3, <2>4, <2>5
  <1>2. CASE CallReply(c, i)
    <2>1. PICK o \in Outcome : Receives(c, i, o) /\ AuditReply(c, i, o)
      BY <1>2 DEF CallReply
    <2>2. Frame BY <1>2, <2>1 DEF CallReply, Receives
    <2>3. Lists
      <3>1. listing' = listing /\ shown' = shown BY <1>2 DEF CallReply
      <3>2. QED BY <2>2, <3>1, PartsKeep
    <2>4. asked[c][i].kind = "call" /\ pending[c][i] # "no" /\ OtherPending
      BY <1>2, <1>b DEF CallReply, Pending
    <2>5. got[c][i] = 0 /\ pending[c][i] # "answered"
      BY <1>0, <2>4 DEF OnItsWay, Marks
    <2>6. got'[c][i] = got[c][i] + 1 /\ Others BY <1>2, <1>a DEF CallReply
    <2>7. audit[c][i] = <<>>
      <3>1. i <= Len(asked[c]) BY <1>0, <2>4, PendingIsAsked
      <3>2. QED BY <1>0, <2>4, <2>5, <3>1 DEF CallsPend, Recorded
    <2>8. CallDecision[o] \in Decision /\ CallDecision[o] # "denied"
      BY DEF CallDecision, Outcome, Decision
    <2>9. /\ \A j \in Ids \ {i} : RowStays(c, j)
          /\ \/ audit'[c][i] = Append(<<>>, CallDecision[o])
             \/ audit'[c][i] = <<>> /\ i \in unwritten'[c]
      BY <2>1, <2>7, <2>8, AuditType DEF AuditReply
    <2>10. Recorded(c, i)'
      <3>1. Len(audit'[c][i]) = 1 \/ (audit'[c][i] = <<>> /\ i \in unwritten'[c])
        BY <2>9, OneRow
      <3>2. got'[c][i] = 1 BY <2>5, <2>6
      <3>3. QED BY <3>1, <3>2 DEF Recorded
    <2>11. \A k \in 1..Len(audit'[c][i]) : audit'[c][i][k] # "denied"
      <3>1. audit'[c][i] = << CallDecision[o] >> \/ audit'[c][i] = <<>> BY <2>9
      <3>2. QED BY <2>8, <3>1
    <2>12. QED BY <1>0, <2>2, <2>3, <2>4, <2>5, <2>6, <2>9, <2>10, <2>11
  <1>3. CASE GoodList(c, i)
    <2>1. Frame /\ UNCHANGED trail
      <3>1. asked' = asked BY <1>3 DEF GoodList, Swallow, SendList
      <3>2. QED BY <1>3, <3>1 DEF GoodList, Receives
    <2>2. asked[c][i].kind = "list" /\ pending[c][i] # "no" /\ OtherPending
      BY <1>3, <1>b DEF GoodList, Pending
    <2>3. CASE pending[c][i] = "answered"
      <3>1. got' = got /\ listing' = listing /\ shown' = shown
        BY <1>3, <2>3 DEF GoodList, Swallow
      <3>2. Lists BY <2>1, <3>1, PartsKeep
      <3>3. QED BY <1>0, <1>c, <2>1, <2>2, <2>3, <3>1, <3>2
    <2>4. CASE pending[c][i] # "answered"
      <3>1. SendList(c, i, FilterTools(c, Page(c, i)), ~ IsLast(c, i))
        BY <1>3, <2>4 DEF GoodList
      <3>2. \A t \in FilterTools(c, Page(c, i)) : Permitted(c, t) BY DEF FilterTools
      <3>3. (~ IsLast(c, i)) \in BOOLEAN BY DEF IsLast
      <3>4. Lists /\ got'[c][i] = got[c][i] + 1 /\ Others
        BY <2>1, <2>2, <3>1, <3>2, <3>3, SendListKeeps
      <3>5. got[c][i] = 0 BY <1>0, <2>2, <2>4 DEF OnItsWay, Marks
      <3>6. QED BY <1>0, <1>c, <2>1, <2>2, <2>4, <3>4, <3>5
    <2>5. QED BY <2>3, <2>4
  <1>4. CASE FailedList(c, i)
    <2>1. Frame /\ UNCHANGED trail
      <3>1. asked' = asked BY <1>4 DEF FailedList, Swallow, SendList, SendFailure
      <3>2. QED BY <1>4, <3>1 DEF FailedList, Receives
    <2>2. asked[c][i].kind = "list" /\ pending[c][i] # "no" /\ OtherPending
      BY <1>4, <1>b DEF FailedList, Pending
    <2>3. CASE pending[c][i] = "answered"
      <3>1. got' = got /\ listing' = listing /\ shown' = shown
        BY <1>4, <2>3 DEF FailedList, Swallow
      <3>2. Lists BY <2>1, <3>1, PartsKeep
      <3>3. QED BY <1>0, <1>c, <2>1, <2>2, <2>3, <3>1, <3>2
    <2>4. CASE pending[c][i] # "answered"
      <3>1. got[c][i] = 0 BY <1>0, <2>2, <2>4 DEF OnItsWay, Marks
      <3>2. Lists /\ got'[c][i] = got[c][i] + 1 /\ Others
        <4>1. CASE SendList(c, i, CachedList(c), FALSE)
          <5>1. \A t \in CachedList(c) : Permitted(c, t) BY DEF CachedList, FilterTools
          <5>2. QED BY <2>1, <2>2, <4>1, <5>1, SendListKeeps
        <4>2. CASE SendFailure(c, i)
          <5>1. shown' = shown /\ Reply(c, i) BY <4>2 DEF SendFailure
          <5>2. listing'[c].state = "failed" BY <4>2, Typed DEF SendFailure, Listing
          <5>3. PagesExist(c)' BY <1>0, <2>1, <5>2 DEF PagesExist, Pages
          <5>4. QED BY <1>a, <5>1, <5>3
        <4>3. QED BY <1>4, <2>4, <4>1, <4>2 DEF FailedList
      <3>3. QED BY <1>0, <1>c, <2>1, <2>2, <2>4, <3>1, <3>2
    <2>5. QED BY <2>3, <2>4
  <1>5. QED BY <1>1, <1>2, <1>3, <1>4 DEF ToGuest

\* The proxy passes a reply on (_filter_response).
LEMMA ToGuestKeeps ==
  ASSUME TypeOK, NEW c \in Conn, ConnInv(c), NEW i \in Ids, ToGuest(c, i)
  PROVE  ConnInv(c)'
  <1>1. /\ \E o : Receives(c, i, o)
        /\ pc[c] = "open" /\ pc' = pc /\ upstream' = upstream /\ policy' = policy
        /\ inForce' = inForce /\ asked' = asked /\ read' = read /\ at' = at
        /\ broken' = broken /\ forwarded' = forwarded /\ calls' = calls
        /\ PagesExist(c)' /\ \A t \in shown'[c] : t \in shown[c] \/ Permitted(c, t)
    BY ReceiveEffect
  <1>2. /\ \A j \in Ids \ {i} : /\ got'[c][j] = got[c][j] /\ RowStays(c, j)
                                /\ pending'[c][j] = pending[c][j]
        /\ pending'[c][i] = "no" /\ got'[c][i] \in Nat
        /\ \/ got'[c][i] = got[c][i] /\ pending[c][i] = "answered"
           \/ /\ got'[c][i] = got[c][i] + 1
              /\ pending[c][i] # "answered" /\ (pending[c][i] # "no" => got[c][i] = 0)
        /\ asked[c][i].kind = "call" => got'[c][i] > 0 /\ Recorded(c, i)'
        /\ \A k \in 1..Len(audit'[c][i]) : audit'[c][i][k] = "denied" =>
             k \in 1..Len(audit[c][i]) /\ audit[c][i][k] = "denied"
    BY ReceiveEffect
  <1>a. \A j \in Ids \ {i} : audit'[c][j] = audit[c][j] /\ (Recorded(c, j)' <=> Recorded(c, j))
    BY <1>2 DEF RowStays, Recorded
  <1>3. /\ Queued(c, i) /\ \A j \in Ids : Queued(c, j)' => Queued(c, j)
        /\ Len(replies'[c]) \in Nat /\ Len(replies[c]) = Len(replies'[c]) + 1
        /\ \A k \in 1..Len(replies'[c]) : replies'[c][k] = replies[c][k + 1]
    BY <1>1, QueueTail
  <1>4. /\ ReadFirst(c) /\ OnItsWay(c) /\ CallsPend(c) /\ ByPolicy(c) /\ got[c][i] \in Nat
    BY Typed DEF ConnInv
  <1>5. i <= read[c] BY <1>3, <1>4 DEF ReadFirst
  <1>6. ReadFirst(c)'
    <2>1. ASSUME NEW j \in Ids,
                 (\/ pending[c][j] # "no" \/ j \in at[c] \/ got[c][j] > 0
                  \/ Queued(c, j) \/ audit[c][j] # <<>>)'
          PROVE  j <= read[c]
      <3>1. CASE j = i BY <1>5, <3>1
      <3>2. CASE j # i
        <4>1. \/ pending[c][j] # "no" \/ j \in at[c] \/ got[c][j] > 0
              \/ Queued(c, j) \/ audit[c][j] # <<>>
          BY <1>1, <1>2, <1>a, <1>3, <2>1, <3>2
        <4>2. QED BY <1>4, <4>1 DEF ReadFirst
      <3>3. QED BY <3>1, <3>2
    <2>2. QED BY <1>1, <1>4, <2>1 DEF ReadFirst
  <1>7. OnItsWay(c)'
    <2>1. ASSUME NEW j \in Ids, j \notin broken[c]
          PROVE  /\ got'[c][j] <= 1
                 /\ j \in at'[c] \/ Queued(c, j)' => got'[c][j] = 0 \/ pending'[c][j] = "answered"
                 /\ ~ (j \in at'[c] /\ Queued(c, j)')
      <3>1. CASE j = i
        <4>1. ~ Queued(c, i)' BY <1>1, <1>4, <2>1, <3>1, QueueOnce
        <4>2. i \notin at'[c] BY <1>1, <1>3, <1>4, <2>1, <3>1 DEF OnItsWay
        <4>3. got[c][i] <= 1 /\ (got[c][i] = 0 \/ pending[c][i] = "answered")
          BY <1>3, <1>4, <2>1, <3>1 DEF OnItsWay
        <4>4. got'[c][i] <= 1 BY <1>2, <1>4, <4>3
        <4>5. QED BY <3>1, <4>1, <4>2, <4>4
      <3>2. CASE j # i BY <1>1, <1>2, <1>3, <1>4, <2>1, <3>2 DEF OnItsWay
      <3>3. QED BY <3>1, <3>2
    <2>2. ASSUME NEW j \in Ids, j \notin broken[c],
                 NEW k \in 1..Len(replies'[c]), NEW n \in 1..Len(replies'[c]),
                 replies'[c][k].id = j, replies'[c][n].id = j
          PROVE  k = n
      <3>1. k + 1 \in 1..Len(replies[c]) /\ n + 1 \in 1..Len(replies[c]) BY <1>3
      <3>2. replies[c][k + 1].id = j /\ replies[c][n + 1].id = j BY <1>3, <2>2
      <3>a. \A a, b \in 1..Len(replies[c]) :
              replies[c][a].id = j /\ replies[c][b].id = j => a = b
        BY <1>4, <2>2 DEF OnItsWay
      <3>3. k + 1 = n + 1 BY <3>1, <3>2, <3>a
      <3>4. QED BY <1>3, <3>3
    <2>3. \A j \in Ids :
            /\ pending'[c][j] \in {"waiting", "unwatched"} => got'[c][j] = 0
            /\ pending'[c][j] \in {"answered", "unwatched"} => asked'[c][j].kind = "list"
      BY <1>1, <1>2, <1>4 DEF OnItsWay
    <2>4. QED BY <1>1, <2>1, <2>2, <2>3 DEF OnItsWay
  <1>8. CallsPend(c)'
    <2>1. ASSUME NEW j \in Ids, j <= Len(asked[c]), asked[c][j].kind = "call"
          PROVE  /\ j \in at'[c] \/ Queued(c, j)' => pending'[c][j] # "no" \/ got'[c][j] > 0
                 /\ Recorded(c, j)'
      <3>1. CASE j = i BY <1>2, <2>1, <3>1
      <3>2. CASE j # i BY <1>1, <1>2, <1>a, <1>3, <1>4, <2>1, <3>2 DEF CallsPend
      <3>3. QED BY <3>1, <3>2
    <2>2. QED BY <1>1, <2>1 DEF CallsPend
  <1>9. ByPolicy(c)'
    <2>1. \A t : Permitted(c, t)' <=> Permitted(c, t) BY <1>1 DEF Permitted
    <2>2. \A j \in Ids : \A k \in 1..Len(audit'[c][j]) :
            audit'[c][j][k] = "denied" => ~ Permitted(c, asked[c][j].tool)
      BY <1>2, <1>a, <1>4 DEF ByPolicy
    <2>3. \A t \in shown'[c] : Permitted(c, t) BY <1>1, <1>4 DEF ByPolicy
    <2>4. QED BY <1>1, <1>4, <2>1, <2>2, <2>3 DEF ByPolicy
  <1>10. Capped(c)' BY <1>1, PartsKeep
  <1>11. QED BY <1>1, <1>6, <1>7, <1>8, <1>9, <1>10 DEF ConnInv

\* The watchdog answers from the cache (_tools_list_watchdog).
LEMMA WatchdogKeeps ==
  ASSUME TypeOK, NEW c \in Conn, ConnInv(c), NEW i \in Ids, Watchdog(c, i)
  PROVE  ConnInv(c)'
  <1> USE DEF wire, history
  <1>0. /\ ReadFirst(c) /\ OnItsWay(c) /\ CallsPend(c) /\ ByPolicy(c) /\ got[c][i] \in Nat
    BY Typed DEF ConnInv
  <1>1. /\ pc[c] = "open" /\ pending[c][i] = "waiting" /\ asked[c][i].kind = "list"
        /\ got[c][i] = 0
    BY <1>0 DEF Watchdog, Watched, OnItsWay
  <1>2. /\ upstream' = upstream /\ pc' = pc /\ policy' = policy /\ inForce' = inForce
        /\ read' = read /\ at' = at /\ replies' = replies /\ audit' = audit
        /\ unwritten' = unwritten /\ broken' = broken /\ forwarded' = forwarded
        /\ calls' = calls /\ asked' = asked
    BY DEF Watchdog, SendList, guest
  <1>3. \A j \in Ids \ {i} : pending'[c][j] = pending[c][j] BY Typed DEF Watchdog
  <1>4. /\ \A j \in Ids \ {i} : got'[c][j] = got[c][j]
        /\ \/ pending'[c][i] = "answered" /\ got'[c][i] = 1
           \/ pending'[c][i] = "unwatched" /\ got'[c][i] = 0
        /\ PagesExist(c)' /\ \A t \in shown'[c] : t \in shown[c] \/ Permitted(c, t)
    <2>1. CASE cache # {}
      <3>1. SendList(c, i, CachedList(c), FALSE) /\ pending'[c][i] = "answered"
        BY <2>1, Typed DEF Watchdog
      <3>2. \A t \in CachedList(c) : Permitted(c, t) BY DEF CachedList, FilterTools
      <3>3. /\ PagesExist(c)' /\ \A t \in shown'[c] : t \in shown[c] \/ Permitted(c, t)
            /\ got'[c][i] = got[c][i] + 1 /\ \A j \in Ids \ {i} : got'[c][j] = got[c][j]
        <4>1. pending[c][i] # "no" BY <1>1
        <4>2. QED BY <1>1, <1>2, <3>1, <3>2, <4>1, SendListKeeps
      <3>4. QED BY <1>1, <3>1, <3>3
    <2>2. CASE cache = {}
      <3>1. guest' = guest /\ pending'[c][i] = "unwatched" BY <2>2, Typed DEF Watchdog
      <3>2. QED BY <1>1, <1>2, <3>1, PartsKeep DEF guest
    <2>3. QED BY <2>1, <2>2
  <1>5. \A j \in Ids : Queued(c, j)' <=> Queued(c, j) BY <1>2 DEF Queued
  <1>6. ReadFirst(c)'
    <2>1. i <= read[c] BY <1>0, <1>1 DEF ReadFirst
    <2>2. ASSUME NEW j \in Ids,
                 (\/ pending[c][j] # "no" \/ j \in at[c] \/ got[c][j] > 0
                  \/ Queued(c, j) \/ audit[c][j] # <<>>)'
          PROVE  j <= read[c]
      <3>1. CASE j = i BY <2>1, <3>1
      <3>2. CASE j # i
        <4>1. \/ pending[c][j] # "no" \/ j \in at[c] \/ got[c][j] > 0
              \/ Queued(c, j) \/ audit[c][j] # <<>>
          BY <1>2, <1>3, <1>4, <1>5, <2>2, <3>2
        <4>2. QED BY <1>0, <4>1 DEF ReadFirst
      <3>3. QED BY <3>1, <3>2
    <2>3. QED BY <1>0, <1>2, <2>2 DEF ReadFirst
  <1>7. OnItsWay(c)' BY <1>0, <1>1, <1>2, <1>3, <1>4, <1>5 DEF OnItsWay
  <1>8. CallsPend(c)'
    <2>1. \A j \in Ids \ {i} : Recorded(c, j)' <=> Recorded(c, j) BY <1>2, <1>4 DEF Recorded
    <2>2. QED BY <1>0, <1>1, <1>2, <1>3, <1>4, <1>5, <2>1 DEF CallsPend
  <1>9. ByPolicy(c)'
    <2>1. \A t : Permitted(c, t)' <=> Permitted(c, t) BY <1>2 DEF Permitted
    <2>2. QED BY <1>0, <1>1, <1>2, <1>4, <2>1 DEF ByPolicy
  <1>10. Capped(c)' BY <1>2, PartsKeep
  <1>11. QED BY <1>4, <1>6, <1>7, <1>8, <1>9, <1>10 DEF ConnInv

-----------------------------------------------------------------------------
(* The invariant holds for good.                                           *)

\* A connection's step keeps the invariant of every connection.
LEMMA ConnStepKeeps ==
  ASSUME SessionInv, NEW c \in Conn, ConnStep(c), NEW d \in Conn
  PROVE  ConnInv(d)'
  <1>1. TypeOK /\ ConnInv(c) /\ ConnInv(d) BY DEF SessionInv
  <1>2. CASE d = c
    BY <1>1, <1>2, OpeningKeeps, ClosingKeeps, AskKeeps, FromGuestKeeps, ToGuestKeeps,
       WatchdogKeeps, UpstreamKeeps DEF ConnStep
  <1>3. CASE d # c BY <1>1, <1>3, OthersSame, SameKeeps
  <1>4. QED BY <1>2, <1>3

\* Every step keeps the invariant.
LEMMA SessionStep ==
  ASSUME SessionInv, [Next]_vars
  PROVE  SessionInv'
  <1>0. TypeOK /\ \A d \in Conn : ConnInv(d) BY DEF SessionInv
  <1>1. CASE (\E r \in Rules : SetRule(r) \/ Forget(r)) \/ Toggle
    <2>1. TypeOK' BY <1>1, OperatorType
    <2>2. ASSUME NEW d \in Conn PROVE Same(d) /\ upstream' = upstream
      BY <1>1 DEF SetRule, Forget, Toggle, Same, session, guest, wire, history
    <2>3. QED BY <1>0, <2>1, <2>2, SameKeeps DEF SessionInv
  <1>2. ASSUME NEW c \in Conn, ConnStep(c), Next PROVE SessionInv'
    BY <1>2, TypeNext, ConnStepKeeps DEF SessionInv
  <1>3. CASE UNCHANGED vars
    <2>1. TypeOK' BY <1>0, <1>3 DEF TypeOK, vars, operator, session, guest, wire, history
    <2>2. ASSUME NEW d \in Conn PROVE Same(d) /\ upstream' = upstream
      BY <1>3 DEF vars, Same, session, guest, wire, history
    <2>3. QED BY <1>0, <2>1, <2>2, SameKeeps DEF SessionInv
  <1>4. CASE Next
    <2>1. ASSUME NEW c \in Conn, Len(asked[c]) < MaxReqs,
                 NEW r \in MayAsk[c][Len(asked[c]) + 1], Ask(c, r)
          PROVE  ConnStep(c)
      BY <1>0, <2>1, AskedIsRequest DEF ConnStep
    <2>2. \/ (\E r \in Rules : SetRule(r) \/ Forget(r)) \/ Toggle
          \/ \E c \in Conn : ConnStep(c)
      BY <1>4, <2>1 DEF Next, ConnStep
    <2>3. QED BY <1>1, <1>2, <1>4, <2>2
  <1>5. QED BY <1>3, <1>4

\* The inductive invariant of a connection holds in every reachable state.
THEOREM Inductive == Spec => []SessionInv
  <1>1. Init => SessionInv BY SessionInit
  <1>2. SessionInv /\ [Next]_vars => SessionInv' BY SessionStep
  <1>3. QED BY <1>1, <1>2, PTL DEF Spec

\* Every variable keeps its type.
THEOREM TypeCorrect == Spec => []TypeOK
  <1>1. SessionInv => TypeOK BY DEF SessionInv
  <1>2. QED BY <1>1, Inductive, PTL

\* Of the upstream's answer, the watchdog's and the proxy's own, the guest gets one to a
\* request, unless its stream broke after the answer (_Session, HttpUpstream.send).
THEOREM AnsweredOnce == Spec => []OneReply
  <1>1. SessionInv => OneReply BY DEF SessionInv, ConnInv, OnItsWay, OneReply
  <1>2. QED BY <1>1, Inductive, PTL

\* A tool that a deny of the file matches, the server's or the caller's own, or one of the
\* |mcp rules the session opened with, is in no list and no call of the caller's, whatever
\* the allows, the cache and the commands that came since (decide, _filter_tools).
THEOREM DenyObeyed == Spec => []DenyWins
  <1>1. ASSUME SessionInv, NEW c \in Conn, NEW p \in DeniedTo(c)
        PROVE  /\ p \cap shown[c] = {}
               /\ \A i \in forwarded[c] : asked[c][i].tool \notin p
    <2>1. ByPolicy(c) BY <1>1 DEF SessionInv, ConnInv
    <2>2. p \in Deny \cup UserDeny[Caller[c]] \cup PatternsOf(policy[c], "deny")
      <3>1. CASE p \in Deny \cup UserDeny[Caller[c]] BY <3>1
      <3>2. ASSUME NEW r \in inForce[c], r.effect = "deny", r.who \in {Everyone, Caller[c]},
                   p = r.pattern
            PROVE  p \in PatternsOf(policy[c], "deny")
        BY <2>1, <3>2 DEF ByPolicy, PatternsOf
      <3>3. QED BY <1>1, <3>1, <3>2 DEF DeniedTo
    <2>3. \A t : t \in p => ~ Permitted(c, t) BY <2>2 DEF Permitted, Decide, Matches
    <2>4. QED BY <2>1, <2>3 DEF ByPolicy
  <1>2. SessionInv => DenyWins BY <1>1 DEF DenyWins
  <1>3. QED BY <1>2, Inductive, PTL

\* A tool the guest was shown is not denied to it (_filter_tools, _intercept).
THEOREM ShownCallable == Spec => []ShownIsCallable
  <1>1. ASSUME SessionInv, NEW c \in Conn, NEW i \in 1..Len(asked[c]),
               asked[c][i].tool \in shown[c], NEW k \in 1..Len(audit[c][i])
        PROVE  audit[c][i][k] # "denied"
    <2>1. ByPolicy(c) /\ ReadFirst(c) BY <1>1 DEF SessionInv, ConnInv
    <2>2. i \in Ids
      <3>1. Len(asked[c]) \in Nat BY <1>1, Typed DEF SessionInv
      <3>2. QED BY <2>1, <3>1, SessionBounds DEF ReadFirst, Ids
    <2>3. Permitted(c, asked[c][i].tool) BY <1>1, <2>1 DEF ByPolicy
    <2>4. QED BY <2>1, <2>2, <2>3 DEF ByPolicy
  <1>2. SessionInv => ShownIsCallable BY <1>1 DEF ShownIsCallable
  <1>3. QED BY <1>2, Inductive, PTL

\* No more calls reach the upstream on a connection than max_calls_per_run.
THEOREM CapKept == Spec => []CapHolds
  <1>1. SessionInv => CapHolds BY DEF SessionInv, ConnInv, Capped, CapHolds
  <1>2. QED BY <1>1, Inductive, PTL

-----------------------------------------------------------------------------
(* The proxy implements ToolProxy.                                         *)

\* What the mapping needs besides: what is on its way was sent upstream, and a call that
\* was sent has been counted, up to the cap.
Sent(c, i) == i \in forwarded[c] \/ asked[c][i].kind \in {"list", "other"}
OnWay(c, i) == pending[c][i] # "no" \/ i \in at[c] \/ Queued(c, i) \/ i \in broken[c]

ProxyFits(c) ==
  /\ \A i \in forwarded[c] : i <= read[c] /\ asked[c][i].kind = "call"
  /\ \A i \in Ids : OnWay(c, i) => i <= read[c] /\ Sent(c, i)
  /\ Cardinality(forwarded[c]) = IF calls[c] <= MaxCalls THEN calls[c] ELSE MaxCalls

\* It holds at the start.
LEMMA FitsInit == Init => \A c \in Conn : ProxyFits(c)
  <1> SUFFICES ASSUME Init, NEW c \in Conn PROVE ProxyFits(c)
    OBVIOUS
  <1>1. forwarded[c] = {} /\ calls[c] = 0 BY DEF Init
  <1>2. \A i \in Ids : ~ OnWay(c, i) BY DEF Init, OnWay, Queued
  <1>3. QED BY <1>1, <1>2, FS_EmptySet, SessionBounds DEF ProxyFits

\* It goes on when no more requests are on their way than before.
LEMMA FitsOn ==
  ASSUME TypeOK, NEW c \in Conn, ConnInv(c), ProxyFits(c),
         forwarded'[c] = forwarded[c], calls'[c] = calls[c], read'[c] = read[c],
         \A i \in 1..Len(asked[c]) : asked'[c][i] = asked[c][i],
         \A i \in Ids : OnWay(c, i)' => OnWay(c, i)
  PROVE  ProxyFits(c)'
  <1>1. \A i \in Ids : i <= read[c] => asked'[c][i] = asked[c][i]
    <2>1. read[c] \in Nat /\ Len(asked[c]) \in Nat /\ read[c] <= Len(asked[c])
      BY Typed DEF ConnInv, ReadFirst
    <2>2. QED BY <2>1 DEF Ids
  <1>2. forwarded[c] \subseteq Ids BY DEF TypeOK
  <1>3. \A i \in Ids : i <= read[c] /\ Sent(c, i) => Sent(c, i)' BY <1>1 DEF Sent
  <1>4. QED BY <1>1, <1>2, <1>3 DEF ProxyFits

\* A connection that opens or ends has nothing new on its way, nor has one whose guest asks.
LEMMA FitsConn ==
  ASSUME TypeOK, NEW c \in Conn, ConnInv(c), ProxyFits(c),
         \/ Attach(c) \/ Refuse(c) \/ OpenSession(c) \/ StartFails(c)
         \/ RunEnds(c) \/ UpstreamDies(c) \/ SessionEnds(c)
         \/ \E r \in Request : Ask(c, r)
  PROVE  ProxyFits(c)'
  <1> USE DEF Go, operator, session, guest, wire, history
  <1>1. /\ forwarded' = forwarded /\ calls' = calls /\ read' = read /\ broken' = broken
    BY DEF Attach, Refuse, OpenSession, StartFails, RunEnds, UpstreamDies, SessionEnds, Ask
  <1>2. \A i \in 1..Len(asked[c]) : asked'[c][i] = asked[c][i]
    <2>1. ASSUME NEW r \in Request, Ask(c, r) PROVE asked'[c] = Append(asked[c], r)
      BY <2>1, Typed DEF Ask
    <2>2. asked[c] \in Seq(Request) BY Typed
    <2>3. asked' = asked \/ \E r \in Request : Ask(c, r)
      BY DEF Attach, Refuse, OpenSession, StartFails, RunEnds, UpstreamDies, SessionEnds
    <2>4. QED BY <2>1, <2>2, <2>3
  <1>3. /\ at'[c] = at[c] \/ at'[c] = {}
        /\ \/ replies' = replies /\ pending' = pending
           \/ replies'[c] = <<>> /\ \A i \in Ids : pending'[c][i] = "no"
    BY Typed
    DEF Attach, Refuse, OpenSession, StartFails, RunEnds, UpstreamDies, SessionEnds, Ask
  <1>4. \A i \in Ids : OnWay(c, i)' => OnWay(c, i) BY <1>1, <1>3 DEF OnWay, Queued
  <1>5. QED BY <1>1, <1>2, <1>4, FitsOn

\* What the upstream says was on its way already, and so was what the proxy passes on.
LEMMA FitsAnswers ==
  ASSUME TypeOK, NEW c \in Conn, ConnInv(c), ProxyFits(c), NEW i \in Ids,
         \/ ToGuest(c, i) \/ Watchdog(c, i)
         \/ Answer(c, i) \/ PostQuiet(c, i) \/ PostBreaks(c, i)
  PROVE  ProxyFits(c)'
  <1>1. CASE ToGuest(c, i)
    <2>1. /\ \E o : Receives(c, i, o)
          /\ forwarded' = forwarded /\ calls' = calls /\ read' = read /\ asked' = asked
          /\ at' = at /\ broken' = broken
          /\ pending'[c][i] = "no" /\ \A j \in Ids \ {i} : pending'[c][j] = pending[c][j]
      BY <1>1, ReceiveEffect
    <2>2. \A j \in Ids : Queued(c, j)' => Queued(c, j) BY <2>1, QueueTail
    <2>3. \A j \in Ids : OnWay(c, j)' => OnWay(c, j) BY <2>1, <2>2 DEF OnWay
    <2>4. QED BY <2>1, <2>3, FitsOn
  <1>2. CASE Watchdog(c, i)
    <2>1. /\ forwarded' = forwarded /\ calls' = calls /\ read' = read /\ asked' = asked
          /\ at' = at /\ broken' = broken /\ replies' = replies
      BY <1>2 DEF Watchdog, SendList, guest, wire, history
    <2>2. \A j \in Ids : pending'[c][j] # "no" => pending[c][j] # "no"
      BY <1>2, Typed DEF Watchdog
    <2>3. \A j \in Ids : OnWay(c, j)' => OnWay(c, j) BY <2>1, <2>2 DEF OnWay, Queued
    <2>4. QED BY <2>1, <2>3, FitsOn
  <1>3. CASE Answer(c, i) \/ PostQuiet(c, i) \/ PostBreaks(c, i)
    <2>1. PICK m \in Seq(Message) : Says(c, i, m) /\ \A k \in 1..Len(m) : m[k].id = i
      BY <1>3, SaysMessages
    <2>2. /\ forwarded' = forwarded /\ calls' = calls /\ read' = read /\ asked' = asked
          /\ pending' = pending
      BY <2>1 DEF Says, session, guest
    <2>3. i \in at[c] /\ at'[c] = at[c] \ {i} BY <2>1, Typed DEF Says
    <2>4. \A j \in Ids \ {i} : Queued(c, j)' => Queued(c, j) BY <2>1, QueueSays
    <2>5. broken'[c] \subseteq broken[c] \cup {i}
      <3>1. broken \in [Conn -> SUBSET Ids] BY DEF TypeOK
      <3>2. QED BY <1>3, <3>1 DEF Answer, PostQuiet, PostBreaks
    <2>6. \A j \in Ids : OnWay(c, j)' => OnWay(c, j) BY <2>2, <2>3, <2>4, <2>5 DEF OnWay
    <2>7. QED BY <2>2, <2>6, FitsOn
  <1>4. QED BY <1>1, <1>2, <1>3

\* A request that is read goes upstream or is answered, and is counted if it is a call.
LEMMA FitsReads ==
  ASSUME TypeOK, NEW c \in Conn, ConnInv(c), ProxyFits(c), NEW i \in Ids, FromGuest(c, i)
  PROVE  ProxyFits(c)'
  <1> USE DEF session, guest, wire, history
  <1>1. /\ i \in 1..Len(asked[c]) /\ read'[c] = i /\ read[c] < i
        /\ \A j \in Ids \ {i} : pending'[c][j] = pending[c][j]
        /\ \/ at'[c] = at[c] /\ pending'[c][i] = "no"
           \/ at'[c] = at[c] \cup {i}
    BY ReadEffect
  <1>2. asked' = asked /\ replies' = replies /\ broken' = broken
    BY DEF FromGuest, RefuseMethod, ForwardOther, ForwardList, DenyCall, CapCall,
           ForwardCall, Reads, Reply
  <1>3. /\ read[c] \in Nat /\ calls[c] \in Nat /\ forwarded[c] \subseteq Ids
        /\ MaxCalls \in Nat
    BY Typed, SessionBounds DEF TypeOK
  <1>4. ~ OnWay(c, i)
    <2>1. ~ (i <= read[c]) BY <1>1, <1>3 DEF Ids
    <2>2. QED BY <2>1 DEF ProxyFits
  <1>5. \A j \in Ids : j <= read[c] => j <= i BY <1>1, <1>3 DEF Ids
  <1>6. \A j \in Ids \ {i} : OnWay(c, j)' => OnWay(c, j)
    BY <1>1, <1>2 DEF OnWay, Queued
  <1>7. OnWay(c, i)' => asked[c][i].kind \in {"list", "other"} \/ i \in forwarded'[c]
    <2>1. ~ OnWay(c, i)' \/ ForwardOther(c, i) \/ ForwardList(c, i) \/ ForwardCall(c, i)
      <3>1. ASSUME at'[c] = at[c], pending'[c][i] = "no" PROVE ~ OnWay(c, i)'
        BY <1>2, <1>4, <3>1 DEF OnWay, Queued
      <3>2. CASE RefuseMethod(c, i) \/ DenyCall(c, i) \/ CapCall(c, i)
        <4>1. at' = at /\ pending' = pending
          BY <3>2 DEF RefuseMethod, DenyCall, CapCall
        <4>2. pending[c][i] = "no" BY <1>4 DEF OnWay
        <4>3. QED BY <3>1, <4>1, <4>2
      <3>3. QED BY <3>2 DEF FromGuest
    <2>2. forwarded \in [Conn -> SUBSET Ids] BY DEF TypeOK
    <2>3. QED BY <2>1, <2>2 DEF ForwardOther, ForwardList, ForwardCall, Reads
  <1>8. forwarded[c] \subseteq forwarded'[c] /\ forwarded'[c] \subseteq forwarded[c] \cup {i}
        /\ (i \in forwarded'[c] => asked[c][i].kind = "call")
    <2>1. forwarded \in [Conn -> SUBSET Ids] /\ i \notin forwarded[c]
      BY <1>1, <1>3 DEF TypeOK, ProxyFits, Ids
    <2>2. QED BY <2>1 DEF FromGuest, RefuseMethod, ForwardOther, ForwardList, DenyCall,
                          CapCall, ForwardCall, Reads
  <1>9. Cardinality(forwarded'[c]) = IF calls'[c] <= MaxCalls THEN calls'[c] ELSE MaxCalls
    <2>1. Cardinality(forwarded[c]) = IF calls[c] <= MaxCalls THEN calls[c] ELSE MaxCalls
      BY DEF ProxyFits
    <2>2. CASE forwarded' = forwarded /\ calls' = calls BY <2>1, <2>2
    <2>3. CASE CapCall(c, i)
      <3>1. forwarded' = forwarded /\ calls'[c] = calls[c] + 1 /\ calls'[c] > MaxCalls
        BY <2>3, Typed DEF CapCall, CountCall
      <3>2. QED BY <1>3, <2>1, <3>1
    <2>4. CASE ForwardCall(c, i)
      <3>1. /\ forwarded'[c] = forwarded[c] \cup {i} /\ calls'[c] = calls[c] + 1
            /\ calls'[c] <= MaxCalls
        BY <2>4, Typed DEF ForwardCall, CountCall, TypeOK
      <3>2. i \notin forwarded[c] BY <1>1, <1>3 DEF ProxyFits, Ids
      <3>3. Cardinality(forwarded[c] \cup {i}) = Cardinality(forwarded[c]) + 1
        BY <3>2, FS_AddElement DEF ConnInv, Capped
      <3>4. QED BY <1>3, <2>1, <3>1, <3>3
    <2>5. QED
      BY <2>2, <2>3, <2>4
      DEF FromGuest, RefuseMethod, ForwardOther, ForwardList, DenyCall
  <1>10. \A j \in Ids : OnWay(c, j)' => j <= i /\ Sent(c, j)'
    <2>1. ASSUME NEW j \in Ids, OnWay(c, j)' PROVE j <= i /\ Sent(c, j)'
      <3>1. CASE j = i
        <4>1. i <= i BY DEF Ids
        <4>2. QED BY <1>2, <1>7, <2>1, <3>1, <4>1 DEF Sent
      <3>2. CASE j # i
        <4>1. j <= read[c] /\ Sent(c, j) BY <1>6, <2>1, <3>2 DEF ProxyFits
        <4>2. QED BY <1>2, <1>5, <1>8, <4>1 DEF Sent
      <3>3. QED BY <3>1, <3>2
    <2>2. QED BY <2>1
  <1>11. \A j \in forwarded'[c] : j <= i /\ asked'[c][j].kind = "call"
    <2>1. ASSUME NEW j \in forwarded'[c] PROVE j <= i /\ asked'[c][j].kind = "call"
      <3>1. CASE j = i
        <4>1. i <= i BY DEF Ids
        <4>2. QED BY <1>2, <1>8, <3>1, <4>1
      <3>2. CASE j # i
        <4>1. j \in forwarded[c] BY <1>8, <3>2
        <4>2. QED BY <1>2, <1>3, <1>5, <4>1 DEF ProxyFits
      <3>3. QED BY <3>1, <3>2
    <2>2. QED BY <2>1
  <1>12. QED BY <1>1, <1>9, <1>10, <1>11 DEF ProxyFits

\* A row says that a call went through only if the server was sent it.
RowsAreTrue(c) ==
  \A i \in Ids : \A k \in 1..Len(audit[c][i]) :
    audit[c][i][k] \in {"allowed", "error"} => i \in forwarded[c]

ProxyInv == SessionInv /\ \A c \in Conn : ProxyFits(c) /\ RowsAreTrue(c)

\* A connection that no step is about stays as it fits.
LEMMA FitsSame ==
  ASSUME NEW d \in Conn, ProxyFits(d), RowsAreTrue(d), Same(d)
  PROVE  ProxyFits(d)' /\ RowsAreTrue(d)'
  BY DEF Same, ProxyFits, OnWay, Queued, Sent, RowsAreTrue

\* Every step is one of the operator's, or of a single connection.
LEMMA NextIsConnStep ==
  ASSUME TypeOK, Next
  PROVE  (\E r \in Rules : SetRule(r) \/ Forget(r)) \/ Toggle \/ \E c \in Conn : ConnStep(c)
  <1>1. ASSUME NEW c \in Conn, Len(asked[c]) < MaxReqs,
               NEW r \in MayAsk[c][Len(asked[c]) + 1], Ask(c, r)
        PROVE  ConnStep(c)
    BY <1>1, AskedIsRequest DEF ConnStep
  <1>2. QED BY <1>1 DEF Next, ConnStep

\* The operator's commands are about no connection.
LEMMA OperatorSame ==
  ASSUME \/ (\E r \in Rules : SetRule(r) \/ Forget(r)) \/ Toggle
         \/ UNCHANGED vars
  PROVE  /\ \A d \in Conn : Same(d)
         /\ UNCHANGED <<pc, policy, asked, read, forwarded, got, shown, broken>>
         /\ Toggle \/ UNCHANGED vars => rules' = rules
  <1> USE DEF vars, operator, session, guest, wire, history
  <1>1. /\ pc' = pc /\ policy' = policy /\ inForce' = inForce /\ read' = read
        /\ asked' = asked /\ listing' = listing /\ pending' = pending /\ at' = at
        /\ replies' = replies /\ got' = got /\ audit' = audit /\ unwritten' = unwritten
        /\ shown' = shown /\ calls' = calls /\ forwarded' = forwarded /\ broken' = broken
    BY DEF SetRule, Forget, Toggle
  <1>2. Toggle \/ UNCHANGED vars => rules' = rules BY DEF Toggle
  <1>3. QED BY <1>1, <1>2 DEF Same

\* They hold at the start.
LEMMA ProxyInvInit == Init => ProxyInv
  <1>1. ASSUME Init, NEW c \in Conn PROVE RowsAreTrue(c) BY <1>1 DEF Init, RowsAreTrue
  <1>2. QED BY <1>1, SessionInit, FitsInit DEF ProxyInv

\* What the proxy answers itself it does not write down as gone through, and what it does
\* write down so was pending, and had been sent.
LEMMA RowsStep ==
  ASSUME TypeOK, NEW c \in Conn, ConnInv(c), ProxyFits(c), RowsAreTrue(c), ConnStep(c)
  PROVE  RowsAreTrue(c)'
  <1>1. ASSUME audit' = audit, forwarded' = forwarded PROVE RowsAreTrue(c)'
    BY <1>1 DEF RowsAreTrue
  <1>2. ASSUME NEW i \in Ids, FromGuest(c, i) PROVE RowsAreTrue(c)'
    <2>1. /\ \A j \in Ids \ {i} : audit'[c][j] = audit[c][j]
          /\ \A k \in 1..Len(audit'[c][i]) : audit'[c][i][k] \in {"denied", "capped"}
      BY <1>2, ReadEffect DEF RowStays
    <2>2. forwarded[c] \subseteq forwarded'[c]
      <3>1. forwarded \in [Conn -> SUBSET Ids] BY DEF TypeOK
      <3>2. QED
        BY <1>2, <3>1
        DEF FromGuest, RefuseMethod, ForwardOther, ForwardList, DenyCall, CapCall,
            ForwardCall, history
    <2>3. QED BY <2>1, <2>2 DEF RowsAreTrue
  <1>3. ASSUME NEW i \in Ids, ToGuest(c, i) PROVE RowsAreTrue(c)'
    <2>1. /\ forwarded' = forwarded
          /\ \A j \in Ids \ {i} : audit'[c][j] = audit[c][j]
          /\ \/ audit'[c][i] = audit[c][i]
             \/ asked[c][i].kind = "call" /\ pending[c][i] # "no"
      BY <1>3, ReceiveEffect DEF RowStays
    <2>2. asked[c][i].kind = "call" /\ pending[c][i] # "no" => i \in forwarded[c]
      BY DEF ProxyFits, OnWay, Sent
    <2>3. QED BY <2>1, <2>2 DEF RowsAreTrue
  <1>4. ASSUME NEW i \in Ids, Answer(c, i) \/ PostQuiet(c, i) \/ PostBreaks(c, i)
        PROVE  audit' = audit /\ forwarded' = forwarded
    BY <1>4 DEF Answer, PostQuiet, PostBreaks, Says
  <1>5. ASSUME NEW i \in Ids, Watchdog(c, i) PROVE audit' = audit /\ forwarded' = forwarded
    BY <1>5 DEF Watchdog, history
  <1>6. ASSUME \/ Attach(c) \/ Refuse(c) \/ OpenSession(c) \/ StartFails(c)
               \/ RunEnds(c) \/ UpstreamDies(c) \/ SessionEnds(c)
               \/ \E r \in Request : Ask(c, r)
        PROVE  audit' = audit /\ forwarded' = forwarded
    BY <1>6 DEF Attach, Refuse, OpenSession, StartFails, RunEnds, UpstreamDies, SessionEnds,
                Ask, history
  <1>7. QED BY <1>1, <1>2, <1>3, <1>4, <1>5, <1>6 DEF ConnStep

\* Every step keeps it.
LEMMA ProxyInvStep ==
  ASSUME ProxyInv, [Next]_vars
  PROVE  ProxyInv'
  <1>0. TypeOK /\ \A d \in Conn : ConnInv(d) /\ ProxyFits(d) /\ RowsAreTrue(d)
    BY DEF ProxyInv, SessionInv
  <1>1. SessionInv' BY SessionStep DEF ProxyInv
  <1>2. ASSUME NEW c \in Conn, ConnStep(c), NEW d \in Conn
        PROVE  ProxyFits(d)' /\ RowsAreTrue(d)'
    <2>1. CASE d = c
      BY <1>0, <1>2, <2>1, FitsConn, FitsReads, FitsAnswers, RowsStep DEF ConnStep
    <2>2. CASE d # c BY <1>0, <1>2, <2>2, OthersSame, FitsSame
    <2>3. QED BY <2>1, <2>2
  <1>3. CASE (\E r \in Rules : SetRule(r) \/ Forget(r)) \/ Toggle \/ UNCHANGED vars
    BY <1>0, <1>1, <1>3, OperatorSame, FitsSame DEF ProxyInv
  <1>4. QED BY <1>0, <1>1, <1>2, <1>3, NextIsConnStep DEF ProxyInv

\* A call has no more than one row, and one when it was answered, unless the row could not
\* be written; a row that says the call went through is of a call the server was sent, one
\* that says it was denied of a call it was not (_intercept, _filter_response, _audit).
THEOREM Audited == Spec => []AuditedOnce
  <1>1. ASSUME ProxyInv, NEW c \in Conn, NEW i \in 1..Len(asked[c]),
               asked[c][i].kind = "call"
        PROVE  /\ Len(audit[c][i]) <= 1
               /\ got[c][i] > 0 /\ i \notin unwritten[c] => Len(audit[c][i]) = 1
               /\ \A k \in 1..Len(audit[c][i]) :
                    /\ audit[c][i][k] \in {"allowed", "error"} => i \in forwarded[c]
                    /\ audit[c][i][k] = "denied" => i \notin forwarded[c]
    <2>1. CallsPend(c) /\ ReadFirst(c) /\ ByPolicy(c) /\ RowsAreTrue(c)
      BY <1>1 DEF ProxyInv, SessionInv, ConnInv
    <2>2. Len(asked[c]) \in Nat BY <1>1, Typed DEF ProxyInv, SessionInv
    <2>3. i \in Ids /\ i <= Len(asked[c]) BY <2>1, <2>2, SessionBounds DEF ReadFirst, Ids
    <2>4. Recorded(c, i) BY <1>1, <2>1, <2>3 DEF CallsPend
    <2>5. Len(audit[c][i]) <= 1
      <3>1. Len(audit[c][i]) = 1 \/ audit[c][i] = <<>> BY <2>4 DEF Recorded
      <3>2. CASE Len(audit[c][i]) = 1 BY <3>2
      <3>3. CASE audit[c][i] = <<>>
        <4>1. Len(audit[c][i]) = 0 BY <3>3
        <4>2. QED BY <4>1
      <3>4. QED BY <3>1, <3>2, <3>3
    <2>6. got[c][i] > 0 /\ i \notin unwritten[c] => Len(audit[c][i]) = 1
      BY <2>4 DEF Recorded
    <2>7. QED BY <2>1, <2>3, <2>5, <2>6 DEF ByPolicy, RowsAreTrue
  <1>2. ProxyInv => AuditedOnce BY <1>1 DEF AuditedOnce
  <1>3. QED BY <1>2, ProxyInvInit, ProxyInvStep, PTL DEF Spec

-----------------------------------------------------------------------------
(* The views of a state that the mapping takes.                            *)

\* They are functions of the connections, and are compared one connection at a time.
LEMMA ViewsAre ==
  /\ Stage = [d \in Conn |-> Stage[d]] /\ Stage' = [d \in Conn |-> Stage'[d]]
  /\ MayUse = [d \in Conn |-> MayUse[d]] /\ MayUse' = [d \in Conn |-> MayUse'[d]]
  /\ Wanted = [d \in Conn |-> Wanted[d]] /\ Wanted' = [d \in Conn |-> Wanted'[d]]
  /\ PassedOn = [d \in Conn |-> PassedOn[d]] /\ PassedOn' = [d \in Conn |-> PassedOn'[d]]
  <1>1. Stage = [d \in Conn |-> Stage[d]] /\ Stage' = [d \in Conn |-> Stage'[d]]
    BY Zenon DEF Stage
  <1>2. MayUse = [d \in Conn |-> MayUse[d]] /\ MayUse' = [d \in Conn |-> MayUse'[d]]
    BY DEF MayUse
  <1>3. Wanted = [d \in Conn |-> Wanted[d]] /\ Wanted' = [d \in Conn |-> Wanted'[d]]
    BY DEF Wanted
  <1>4. /\ PassedOn = [d \in Conn |-> PassedOn[d]]
        /\ PassedOn' = [d \in Conn |-> PassedOn'[d]]
    BY DEF PassedOn
  <1>5. QED BY <1>1, <1>2, <1>3, <1>4

\* A step of one connection moves the views of that connection only, and no rule.
LEMMA ViewsMove ==
  ASSUME TypeOK, NEW c \in Conn, ConnStep(c)
  PROVE  /\ DeniedNow' = DeniedNow
         /\ Stage' = [Stage EXCEPT ![c] = Stage'[c]]
         /\ MayUse' = [MayUse EXCEPT ![c] = MayUse'[c]]
         /\ Wanted' = [Wanted EXCEPT ![c] = Wanted'[c]]
         /\ PassedOn' = [PassedOn EXCEPT ![c] = PassedOn'[c]]
  <1>1. \A d \in Conn \ {c} : Same(d) BY OthersSame
  <1>2. rules' = rules
    <2> USE DEF operator
    <2>1. CASE \/ Attach(c) \/ Refuse(c) \/ OpenSession(c) \/ StartFails(c)
               \/ RunEnds(c) \/ UpstreamDies(c) \/ SessionEnds(c)
      BY <2>1
      DEF Attach, Refuse, OpenSession, StartFails, RunEnds, UpstreamDies, SessionEnds
    <2>2. CASE \E r \in Request : Ask(c, r) BY <2>2 DEF Ask
    <2>3. ASSUME NEW i \in Ids, FromGuest(c, i) PROVE rules' = rules
      BY <2>3 DEF FromGuest, RefuseMethod, ForwardOther, ForwardList, DenyCall, CapCall,
                  ForwardCall
    <2>4. ASSUME NEW i \in Ids, ToGuest(c, i) \/ Watchdog(c, i) PROVE rules' = rules
      BY <2>4 DEF ToGuest, PassOn, CallReply, GoodList, FailedList, Watchdog
    <2>5. ASSUME NEW i \in Ids, Answer(c, i) \/ PostQuiet(c, i) \/ PostBreaks(c, i)
          PROVE  rules' = rules
      BY <2>5 DEF Answer, PostQuiet, PostBreaks, Says
    <2>6. QED BY <2>1, <2>2, <2>3, <2>4, <2>5 DEF ConnStep
  <1>3. DeniedNow' = DeniedNow BY <1>2 DEF DeniedNow, RuntimeRules
  <1>4. \A d \in Conn \ {c} : Stage'[d] = Stage[d] BY <1>1 DEF Same, Stage
  <1>5. \A d \in Conn \ {c} : MayUse'[d] = MayUse[d] BY <1>1 DEF Same, MayUse, Permitted
  <1>6. \A d \in Conn \ {c} : Wanted'[d] = Wanted[d] BY <1>1 DEF Same, Wanted, CallsOf
  <1>7. \A d \in Conn \ {c} : PassedOn'[d] = PassedOn[d] BY <1>1 DEF Same, PassedOn
  <1>8. Stage' = [Stage EXCEPT ![c] = Stage'[c]] BY <1>4, ViewsAre
  <1>9. MayUse' = [MayUse EXCEPT ![c] = MayUse'[c]] BY <1>5, ViewsAre
  <1>10. Wanted' = [Wanted EXCEPT ![c] = Wanted'[c]] BY <1>6, ViewsAre
  <1>11. PassedOn' = [PassedOn EXCEPT ![c] = PassedOn'[c]] BY <1>7, ViewsAre
  <1>12. QED BY <1>3, <1>8, <1>9, <1>10, <1>11

\* Those of the connection stay when nothing they speak of has changed.
LEMMA ViewsStay ==
  ASSUME TypeOK, NEW c \in Conn, ConnStep(c)
  PROVE  /\ pc'[c] = pc[c] => Stage' = Stage
         /\ pc'[c] = pc[c] /\ policy'[c] = policy[c] => MayUse' = MayUse
         /\ asked'[c] = asked[c] => Wanted' = Wanted
         /\ asked'[c] = asked[c] /\ read'[c] = read[c] /\ forwarded'[c] = forwarded[c]
            => PassedOn' = PassedOn
  <1>1. pc'[c] = pc[c] => Stage'[c] = Stage[c] BY DEF Stage
  <1>2. pc'[c] = pc[c] /\ policy'[c] = policy[c] => MayUse'[c] = MayUse[c]
    BY DEF MayUse, Permitted
  <1>3. asked'[c] = asked[c] => Wanted'[c] = Wanted[c] BY DEF Wanted, CallsOf
  <1>4. asked'[c] = asked[c] /\ read'[c] = read[c] /\ forwarded'[c] = forwarded[c]
        => PassedOn'[c] = PassedOn[c]
    BY DEF PassedOn
  <1>5. /\ [Stage EXCEPT ![c] = Stage[c]] = Stage
        /\ [MayUse EXCEPT ![c] = MayUse[c]] = MayUse
    BY DEF Stage, MayUse
  <1>6. /\ [Wanted EXCEPT ![c] = Wanted[c]] = Wanted
        /\ [PassedOn EXCEPT ![c] = PassedOn[c]] = PassedOn
    BY DEF Wanted, PassedOn
  <1>7. QED BY <1>1, <1>2, <1>3, <1>4, <1>5, <1>6, ViewsMove

\* What ToolProxy makes of them: the calls, the tools they name and those sent upstream.
LEMMA CallsAre ==
  ASSUME TypeOK, NEW c \in Conn, ConnInv(c), ProxyFits(c)
  PROVE  /\ Proxy!Calls(c) = CallsOf(c)
         /\ PassedOn[c] \cap Proxy!Calls(c) = forwarded[c]
         /\ \A i \in CallsOf(c) : pc[c] = "open"
              => (Proxy!MayCall(c, i) <=> Permitted(c, asked[c][i].tool))
         /\ Proxy!CallsLeft(c) <=> calls[c] < MaxCalls
  <1>1. Proxy!Calls(c) = CallsOf(c)
    <2>1. Wanted[c] = {<<i, asked[c][i].tool>> : i \in CallsOf(c)} BY DEF Wanted
    <2>2. \A i \in CallsOf(c) : <<i, asked[c][i].tool>>[1] = i OBVIOUS
    <2>3. \A i \in Proxy!Calls(c) : i \in CallsOf(c)
      BY <2>1, <2>2 DEF Proxy!Calls
    <2>4. \A i \in CallsOf(c) : i \in Proxy!Calls(c)
      BY <2>1, <2>2 DEF Proxy!Calls
    <2>5. QED BY <2>3, <2>4
  <1>2. PassedOn[c] \cap CallsOf(c) = forwarded[c]
    <2>1. forwarded[c] \subseteq CallsOf(c)
      <3>1. read[c] \in Nat /\ Len(asked[c]) \in Nat /\ read[c] <= Len(asked[c])
        BY Typed DEF ConnInv, ReadFirst
      <3>2. \A i \in forwarded[c] : i \in Nat \ {0} BY DEF TypeOK, Ids
      <3>3. QED BY <3>1, <3>2 DEF ProxyFits, CallsOf
    <2>2. QED BY <2>1 DEF PassedOn, CallsOf
  <1>3. ASSUME NEW i \in CallsOf(c), pc[c] = "open"
        PROVE  Proxy!MayCall(c, i) <=> Permitted(c, asked[c][i].tool)
    <2>1. asked[c] \in Seq(Request) /\ i \in 1..Len(asked[c]) BY Typed DEF CallsOf
    <2>2. asked[c][i].tool \in Tools
      <3>1. asked[c][i] \in Request BY <2>1
      <3>2. QED BY <3>1 DEF Request
    <2>3. asked[c][i].tool \in MayUse[c] <=> Permitted(c, asked[c][i].tool)
      BY <1>3, <2>2 DEF MayUse
    <2>4. /\ <<i, asked[c][i].tool>> \in Wanted[c]
          /\ \A w \in Wanted[c] : w[1] = i => w[2] = asked[c][i].tool
      BY DEF Wanted
    <2>5. QED BY <2>3, <2>4 DEF Proxy!MayCall
  <1>4. Proxy!CallsLeft(c) <=> calls[c] < MaxCalls
    <2>1. Proxy!CallsLeft(c) <=> Cardinality(forwarded[c]) < MaxCalls
      BY <1>1, <1>2 DEF Proxy!CallsLeft, Proxy!Cardinality, Cardinality
    <2>2. QED BY <2>1, SessionBounds, Typed DEF ProxyFits
  <1>5. QED BY <1>1, <1>2, <1>3, <1>4

\* What is on its way was sent upstream.
LEMMA OnWayIsPassed ==
  ASSUME TypeOK, NEW c \in Conn, ProxyFits(c), NEW i \in Ids, OnWay(c, i)
  PROVE  i \in PassedOn[c]
  <1>1. i <= read[c] /\ Sent(c, i) BY DEF ProxyFits
  <1>2. i \in 1..read[c] BY <1>1, Typed DEF Ids
  <1>3. QED BY <1>1, <1>2 DEF PassedOn, Sent

\* What was sent upstream was read.
LEMMA PassedIsRead ==
  ASSUME TypeOK, NEW c \in Conn, ConnInv(c), ProxyFits(c), NEW i \in PassedOn[c]
  PROVE  i \in 1..read[c]
  <1>1. read[c] \in Nat BY Typed
  <1>2. forwarded[c] \subseteq Nat \ {0} BY DEF TypeOK, Ids
  <1>3. QED BY <1>1, <1>2 DEF PassedOn, ProxyFits

-----------------------------------------------------------------------------
(* Each step is one of ToolProxy's, or one it does not see.                *)

\* The promise of ToolProxy for one step.
ProxyStep == Proxy!Next \/ UNCHANGED Proxy!proxyVars

\* The state of ToolProxy before any connection opens.
LEMMA ProxyInit == Init => Proxy!Init
  <1> SUFFICES ASSUME Init PROVE Proxy!Init
    OBVIOUS
  <1>1. DeniedNow \in [Conn -> SUBSET Tools] BY DEF DeniedNow
  <1>2. Stage = [c \in Conn |-> "new"] BY DEF Init, Stage
  <1>3. MayUse = [c \in Conn |-> {}] BY DEF Init, MayUse
  <1>4. Wanted = [c \in Conn |-> {}] BY DEF Init, Wanted, CallsOf
  <1>5. PassedOn = [c \in Conn |-> {}] BY DEF Init, PassedOn
  <1>6. got = [c \in Conn |-> [i \in Ids |-> 0]] /\ shown = [c \in Conn |-> {}]
        /\ broken = [c \in Conn |-> {}]
    BY DEF Init
  <1>7. QED BY <1>1, <1>2, <1>3, <1>4, <1>5, <1>6 DEF Proxy!Init

\* The operator's commands change what is denied, or nothing that ToolProxy sees.
LEMMA OperatorImplements ==
  ASSUME ProxyInv,
         (\E r \in Rules : SetRule(r) \/ Forget(r)) \/ Toggle \/ UNCHANGED vars
  PROVE  ProxyStep
  <1>1. UNCHANGED <<pc, policy, asked, read, forwarded, got, shown, broken>>
    BY OperatorSame
  <1>2. /\ Stage' = Stage /\ Wanted' = Wanted /\ PassedOn' = PassedOn
    BY <1>1 DEF Stage, Wanted, CallsOf, PassedOn
  <1>3. MayUse' = MayUse BY <1>1 DEF MayUse, Permitted
  <1>4. DeniedNow' \in [Conn -> SUBSET Tools] BY DEF DeniedNow
  <1>5. Proxy!Rule BY <1>1, <1>2, <1>3, <1>4 DEF Proxy!Rule
  <1>6. QED BY <1>5 DEF ProxyStep, Proxy!Next

\* A connection opens with tools that no rule of the moment denies.
LEMMA OpenImplements ==
  ASSUME ProxyInv, NEW c \in Conn, OpenSession(c)
  PROVE  Proxy!Open(c)
  <1>0. TypeOK /\ ConnStep(c) BY DEF ProxyInv, SessionInv, ConnStep
  <1>1. /\ asked' = asked /\ read' = read /\ forwarded' = forwarded /\ got' = got
        /\ shown' = shown /\ broken' = broken
        /\ pc[c] = "starting" /\ pc'[c] = "open" /\ policy'[c] = RuntimeRules(Caller[c])
    BY <1>0 DEF OpenSession, Go, guest, TypeOK
  <1>2. Stage[c] = "new" /\ Stage'[c] = "open" BY <1>1 DEF Stage
  <1>3. MayUse'[c] \subseteq Tools \ DeniedNow[c]
    <2>1. MayUse'[c] = {t \in Tools : Decide(Caller[c], t, RuntimeRules(Caller[c]))}
      BY <1>1 DEF MayUse, Permitted
    <2>2. QED BY <2>1 DEF Decide, DeniedNow, Matches
  <1>4. /\ DeniedNow' = DeniedNow /\ Wanted' = Wanted /\ PassedOn' = PassedOn
        /\ Stage' = [Stage EXCEPT ![c] = Stage'[c]]
        /\ MayUse' = [MayUse EXCEPT ![c] = MayUse'[c]]
    BY <1>0, <1>1, ViewsMove, ViewsStay
  <1>5. Stage' = [Stage EXCEPT ![c] = "open"] BY <1>2, <1>4
  <1>6. QED BY <1>1, <1>2, <1>3, <1>4, <1>5 DEF Proxy!Open

\* It is over when it is refused, does not start, or ends.
LEMMA CloseImplements ==
  ASSUME ProxyInv, NEW c \in Conn, Refuse(c) \/ StartFails(c) \/ SessionEnds(c)
  PROVE  Proxy!Close(c)
  <1>0. TypeOK /\ ConnStep(c) BY DEF ProxyInv, SessionInv, ConnStep
  <1>1. /\ asked' = asked /\ read' = read /\ forwarded' = forwarded /\ got' = got
        /\ shown' = shown /\ broken' = broken
        /\ pc[c] \in {"new", "starting", "open"} /\ pc'[c] \in {"refused", "closed"}
    BY <1>0 DEF Refuse, StartFails, SessionEnds, Go, guest, history, TypeOK
  <1>2. Stage[c] # "over" /\ Stage'[c] = "over" BY <1>1 DEF Stage
  <1>3. MayUse'[c] = {} BY <1>1 DEF MayUse
  <1>4. /\ DeniedNow' = DeniedNow /\ Wanted' = Wanted /\ PassedOn' = PassedOn
        /\ Stage' = [Stage EXCEPT ![c] = Stage'[c]]
        /\ MayUse' = [MayUse EXCEPT ![c] = MayUse'[c]]
    BY <1>0, <1>1, ViewsMove, ViewsStay
  <1>5. /\ Stage' = [Stage EXCEPT ![c] = "over"] /\ MayUse' = [MayUse EXCEPT ![c] = {}]
    BY <1>2, <1>3, <1>4
  <1>6. QED BY <1>1, <1>2, <1>4, <1>5 DEF Proxy!Close

\* ToolProxy does not see a handshake, the end of a run or the death of an upstream.
LEMMA QuietConn ==
  ASSUME ProxyInv, NEW c \in Conn, Attach(c) \/ RunEnds(c) \/ UpstreamDies(c)
  PROVE  UNCHANGED Proxy!proxyVars
  <1>0. TypeOK /\ ConnStep(c) BY DEF ProxyInv, SessionInv, ConnStep
  <1>1. /\ asked' = asked /\ read' = read /\ forwarded' = forwarded /\ got' = got
        /\ shown' = shown /\ broken' = broken /\ policy' = policy
        /\ \/ pc' = pc
           \/ pc[c] = "new" /\ pc'[c] = "starting"
    BY <1>0 DEF Attach, RunEnds, UpstreamDies, Go, session, guest, history, TypeOK
  <1>2. Stage'[c] = Stage[c] /\ MayUse'[c] = MayUse[c]
    BY <1>1 DEF Stage, MayUse, Permitted
  <1>3. [Stage EXCEPT ![c] = Stage[c]] = Stage /\ [MayUse EXCEPT ![c] = MayUse[c]] = MayUse
    BY DEF Stage, MayUse
  <1>4. /\ DeniedNow' = DeniedNow /\ Wanted' = Wanted /\ PassedOn' = PassedOn
        /\ Stage' = Stage /\ MayUse' = MayUse
    BY <1>0, <1>1, <1>2, <1>3, ViewsMove, ViewsStay
  <1>5. QED BY <1>1, <1>4 DEF Proxy!proxyVars

\* The guest's request is wanted if it is a call.
LEMMA AskImplements ==
  ASSUME ProxyInv, NEW c \in Conn, NEW r \in Request, Len(asked[c]) < MaxReqs,
         r \in MayAsk[c][Len(asked[c]) + 1], Ask(c, r)
  PROVE  ProxyStep
  <1> DEFINE i == Len(asked[c]) + 1
  <1>0. /\ TypeOK /\ ConnStep(c) /\ ConnInv(c) /\ ProxyFits(c)
    BY DEF ProxyInv, SessionInv, ConnStep
  <1>1. /\ pc' = pc /\ policy' = policy /\ read' = read /\ forwarded' = forwarded
        /\ got' = got /\ shown' = shown /\ broken' = broken /\ pc[c] = "open"
        /\ asked'[c] = Append(asked[c], r)
    BY <1>0, Typed DEF Ask, session, history
  <1>2. /\ asked[c] \in Seq(Request) /\ Len(asked[c]) \in Nat /\ read[c] \in Nat
        /\ read[c] <= Len(asked[c]) /\ i \in Ids
    BY <1>0, Typed, SessionBounds DEF ConnInv, ReadFirst, Ids
  <1>3. /\ Len(asked'[c]) = i /\ asked'[c][i] = r
        /\ \A j \in 1..Len(asked[c]) : asked'[c][j] = asked[c][j]
    BY <1>1, <1>2
  <1> HIDE DEF i
  <1>4. i \notin 1..Len(asked[c]) /\ 1..i = 1..Len(asked[c]) \cup {i}
        /\ 1..read[c] \subseteq 1..Len(asked[c])
    BY <1>2 DEF i
  <1>5. CallsOf(c)' = IF r.kind = "call" THEN CallsOf(c) \cup {i} ELSE CallsOf(c)
    BY <1>3, <1>4 DEF CallsOf
  <1>6. Wanted'[c] = IF r.kind = "call" THEN Wanted[c] \cup {<<i, r.tool>>} ELSE Wanted[c]
    <2>1. Wanted'[c] = {<<j, asked'[c][j].tool>> : j \in CallsOf(c)'} BY DEF Wanted
    <2>2. Wanted[c] = {<<j, asked[c][j].tool>> : j \in CallsOf(c)} BY DEF Wanted
    <2>3. \A j \in CallsOf(c) : asked'[c][j] = asked[c][j] BY <1>3 DEF CallsOf
    <2>4. {<<j, asked'[c][j].tool>> : j \in CallsOf(c)} = Wanted[c] BY <2>2, <2>3
    <2>5. QED BY <1>3, <1>5, <2>1, <2>4
  <1>7. PassedOn'[c] = PassedOn[c]
    <2>1. \A j \in 1..read[c] : asked'[c][j] = asked[c][j] BY <1>3, <1>4
    <2>2. QED BY <1>1, <2>1 DEF PassedOn
  <1>8. /\ DeniedNow' = DeniedNow /\ Stage' = Stage /\ MayUse' = MayUse
        /\ Wanted' = [Wanted EXCEPT ![c] = Wanted'[c]] /\ PassedOn' = PassedOn
    <2>1. [PassedOn EXCEPT ![c] = PassedOn[c]] = PassedOn BY DEF PassedOn
    <2>2. QED BY <1>0, <1>1, <1>7, <2>1, ViewsMove, ViewsStay
  <1>9. CASE r.kind = "call"
    <2>1. Proxy!Fresh(c, i)
      <3>1. i \notin PassedOn[c] BY <1>0, <1>4, PassedIsRead
      <3>2. got[c][i] = 0
        <4>1. got[c][i] \in Nat /\ i \in Ids BY <1>0, <1>2, Typed
        <4>2. ~ (i <= read[c]) BY <1>2 DEF i
        <4>3. QED BY <1>0, <4>1, <4>2 DEF ConnInv, ReadFirst
      <3>3. QED BY <3>1, <3>2 DEF Proxy!Fresh
    <2>2. i \notin Proxy!Calls(c) BY <1>0, <1>4, CallsAre DEF CallsOf
    <2>3. Stage[c] = "open" /\ r.tool \in Tools BY <1>1 DEF Stage, Request
    <2>4. Wanted' = [Wanted EXCEPT ![c] = Wanted[c] \cup {<<i, r.tool>>}]
      BY <1>6, <1>8, <1>9
    <2>5. Proxy!Want(c, i, r.tool) BY <1>1, <1>8, <2>1, <2>2, <2>3, <2>4 DEF Proxy!Want
    <2>6. QED BY <1>2, <2>3, <2>5 DEF ProxyStep, Proxy!Next
  <1>10. CASE r.kind # "call"
    <2>1. [Wanted EXCEPT ![c] = Wanted[c]] = Wanted BY DEF Wanted
    <2>2. Wanted' = Wanted BY <1>6, <1>8, <1>10, <2>1
    <2>3. QED BY <1>1, <1>8, <2>2 DEF ProxyStep, Proxy!proxyVars
  <1>11. QED BY <1>9, <1>10

\* A request that the proxy reads is passed on or refused, by the policy and the cap.
LEMMA FromGuestImplements ==
  ASSUME ProxyInv, NEW c \in Conn, NEW i \in Ids, FromGuest(c, i)
  PROVE  ProxyStep
  <1> USE DEF session, guest, wire, history
  <1>0. /\ TypeOK /\ ConnStep(c) /\ ConnInv(c) /\ ProxyFits(c)
    BY DEF ProxyInv, SessionInv, ConnStep
  <1>1. /\ i \in 1..Len(asked[c]) /\ read'[c] = i /\ i = read[c] + 1 /\ read[c] \in Nat
        /\ got[c][i] = 0 /\ pc[c] = "open"
    <2>1. PICK kind : Reads(c, i, kind)
      BY DEF FromGuest, RefuseMethod, ForwardOther, ForwardList, DenyCall, CapCall,
             ForwardCall
    <2>2. QED BY <1>0, <2>1, ReadIsNew, Typed DEF Reads
  <1>2. /\ pc' = pc /\ policy' = policy /\ asked' = asked /\ shown' = shown
        /\ broken' = broken
    BY DEF FromGuest, RefuseMethod, ForwardOther, ForwardList, DenyCall, CapCall,
           ForwardCall, Reads, Reply
  <1>3. /\ DeniedNow' = DeniedNow /\ Stage' = Stage /\ MayUse' = MayUse /\ Wanted' = Wanted
        /\ PassedOn' = [PassedOn EXCEPT ![c] = PassedOn'[c]] /\ Stage[c] = "open"
    <2>1. Stage[c] = "open" BY <1>1 DEF Stage
    <2>2. QED BY <1>0, <1>2, <2>1, ViewsMove, ViewsStay
  <1>4. 1..i = 1..read[c] \cup {i} /\ i \notin 1..read[c] BY <1>1
  <1>5. Proxy!Fresh(c, i)
    <2>1. i \notin PassedOn[c] BY <1>0, <1>4, PassedIsRead
    <2>2. QED BY <1>1, <2>1 DEF Proxy!Fresh
  <1>6. PassedOn'[c] =
          forwarded'[c] \cup {j \in 1..read[c] : asked[c][j].kind \in {"list", "other"}}
                       \cup {j \in {i} : asked[c][j].kind \in {"list", "other"}}
    BY <1>1, <1>2, <1>4 DEF PassedOn
  <1>7. i \in Proxy!Calls(c) <=> asked[c][i].kind = "call"
    BY <1>0, <1>1, CallsAre DEF CallsOf
  <1>8. asked[c][i].kind = "call" => /\ Proxy!MayCall(c, i) <=> Permitted(c, asked[c][i].tool)
                                     /\ Proxy!CallsLeft(c) <=> calls[c] < MaxCalls
    BY <1>0, <1>1, CallsAre DEF CallsOf
  <1>9. calls[c] \in Nat /\ MaxCalls \in Nat /\ forwarded \in [Conn -> SUBSET Ids]
    BY <1>0, Typed, SessionBounds DEF TypeOK
  <1>a. ASSUME Reply(c, i), forwarded' = forwarded, asked[c][i].kind \notin {"list", "other"},
               asked[c][i].kind = "call" =>
                 ~ (Permitted(c, asked[c][i].tool) /\ calls[c] < MaxCalls)
        PROVE  ProxyStep
    <2>1. PassedOn'[c] = PassedOn[c] BY <1>6, <1>a DEF PassedOn
    <2>2. [PassedOn EXCEPT ![c] = PassedOn[c]] = PassedOn BY DEF PassedOn
    <2>3. PassedOn' = PassedOn BY <1>3, <2>1, <2>2
    <2>4. got' = [got EXCEPT ![c][i] = 1] BY <1>0, <1>1, <1>a, Typed DEF Reply
    <2>5. Proxy!Refuse(c, i)
      BY <1>2, <1>3, <1>5, <1>7, <1>8, <1>a, <2>3, <2>4 DEF Proxy!Refuse
    <2>6. QED BY <2>5 DEF ProxyStep, Proxy!Next
  <1>b. ASSUME got' = got, PassedOn'[c] = PassedOn[c] \cup {i},
               asked[c][i].kind = "call" =>
                 Permitted(c, asked[c][i].tool) /\ calls[c] < MaxCalls
        PROVE  ProxyStep
    <2>1. PassedOn' = [PassedOn EXCEPT ![c] = PassedOn[c] \cup {i}] BY <1>3, <1>b
    <2>2. Proxy!Pass(c, i)
      BY <1>2, <1>3, <1>5, <1>7, <1>8, <1>b, <2>1 DEF Proxy!Pass
    <2>3. QED BY <2>2 DEF ProxyStep, Proxy!Next
  <1>10. CASE RefuseMethod(c, i)
    <2>1. Reply(c, i) /\ forwarded' = forwarded /\ asked[c][i].kind = "refused"
      BY <1>10 DEF RefuseMethod, Reads
    <2>2. QED BY <1>a, <2>1
  <1>11. CASE ForwardOther(c, i) \/ ForwardList(c, i)
    <2>1. got' = got /\ forwarded' = forwarded /\ asked[c][i].kind \in {"list", "other"}
      BY <1>11 DEF ForwardOther, ForwardList, Reads
    <2>2. PassedOn'[c] = PassedOn[c] \cup {i} BY <1>6, <2>1 DEF PassedOn
    <2>3. QED BY <1>b, <2>1, <2>2
  <1>12. CASE DenyCall(c, i)
    <2>1. /\ Reply(c, i) /\ forwarded' = forwarded /\ asked[c][i].kind = "call"
          /\ ~ Permitted(c, asked[c][i].tool)
      BY <1>12 DEF DenyCall, Reads
    <2>2. QED BY <1>a, <2>1
  <1>13. CASE CapCall(c, i)
    <2>1. /\ Reply(c, i) /\ forwarded' = forwarded /\ asked[c][i].kind = "call"
          /\ calls'[c] = calls[c] + 1 /\ calls'[c] > MaxCalls
      BY <1>0, <1>13, Typed DEF CapCall, Reads, CountCall
    <2>2. ~ (calls[c] < MaxCalls) BY <1>9, <2>1
    <2>3. QED BY <1>a, <2>1, <2>2
  <1>14. CASE ForwardCall(c, i)
    <2>1. /\ got' = got /\ forwarded'[c] = forwarded[c] \cup {i}
          /\ asked[c][i].kind = "call" /\ Permitted(c, asked[c][i].tool)
          /\ calls'[c] = calls[c] + 1 /\ calls'[c] <= MaxCalls
      BY <1>0, <1>9, <1>14, Typed DEF ForwardCall, Reads, CountCall
    <2>2. calls[c] < MaxCalls BY <1>9, <2>1
    <2>3. PassedOn'[c] = PassedOn[c] \cup {i} BY <1>6, <2>1 DEF PassedOn
    <2>4. QED BY <1>b, <2>1, <2>2, <2>3
  <1>15. QED BY <1>10, <1>11, <1>12, <1>13, <1>14 DEF FromGuest

\* What the guest is sent of the upstream answers a request that was passed on, once unless
\* its stream broke, and lists what it may call.
LEMMA ToGuestImplements ==
  ASSUME ProxyInv, NEW c \in Conn, NEW i \in Ids, ToGuest(c, i)
  PROVE  ProxyStep
  <1>0. /\ TypeOK /\ TypeOK' /\ ConnStep(c) /\ ConnInv(c) /\ ProxyFits(c)
    BY ToGuestType DEF ProxyInv, SessionInv, ConnStep
  <1>1. /\ \E o : Receives(c, i, o)
        /\ pc[c] = "open" /\ pc' = pc /\ policy' = policy /\ asked' = asked /\ read' = read
        /\ broken' = broken /\ forwarded' = forwarded
        /\ \A j \in Ids \ {i} : got'[c][j] = got[c][j]
        /\ \/ got'[c][i] = got[c][i] /\ pending[c][i] = "answered"
           \/ /\ got'[c][i] = got[c][i] + 1
              /\ pending[c][i] # "answered" /\ (pending[c][i] # "no" => got[c][i] = 0)
        /\ \A t \in shown'[c] : t \in shown[c] \/ Permitted(c, t)
    BY <1>0, ReceiveEffect
  <1>2. /\ DeniedNow' = DeniedNow /\ Stage' = Stage /\ MayUse' = MayUse /\ Wanted' = Wanted
        /\ PassedOn' = PassedOn /\ Stage[c] = "open"
    <2>1. Stage[c] = "open" BY <1>1 DEF Stage
    <2>2. QED BY <1>0, <1>1, <2>1, ViewsMove, ViewsStay
  <1>3. /\ got \in [Conn -> [Ids -> Nat]] /\ got' \in [Conn -> [Ids -> Nat]]
        /\ shown \in [Conn -> SUBSET Tools] /\ shown' \in [Conn -> SUBSET Tools]
    BY <1>0 DEF TypeOK
  <1>4. /\ \A d \in Conn \ {c} : got'[d] = got[d] /\ shown'[d] = shown[d]
    BY <1>0, OthersSame DEF Same
  <1>5. Queued(c, i) BY <1>0, <1>1, QueueTail
  <1>6. i \in PassedOn[c] BY <1>0, <1>5, OnWayIsPassed DEF OnWay
  <1>7. CASE pending[c][i] = "answered"
    <2>1. guest' = guest
      <3>1. GoodList(c, i) \/ FailedList(c, i)
        BY <1>0, <1>7 DEF ToGuest, PassOn, CallReply, Pending, ConnInv, OnItsWay
      <3>2. QED BY <1>7, <3>1 DEF GoodList, FailedList, Swallow
    <2>2. QED BY <1>1, <1>2, <2>1 DEF ProxyStep, Proxy!proxyVars, guest
  <1>8. CASE pending[c][i] # "answered" /\ got[c][i] = 0
    <2>1. got' = [got EXCEPT ![c][i] = 1]
      <3>1. got'[c][i] = 1 BY <1>1, <1>8
      <3>2. got'[c] = [got[c] EXCEPT ![i] = 1] BY <1>1, <1>3, <3>1
      <3>3. QED BY <1>3, <1>4, <3>2
    <2> DEFINE new == shown'[c] \ shown[c]
    <2>2. new \subseteq MayUse[c] BY <1>1, <1>3 DEF MayUse
    <2>3. shown' = [shown EXCEPT ![c] = shown[c] \cup new]
      <3>1. shown[c] \subseteq shown'[c]
        <4>1. shown' = shown \/ \E tools, more : SendList(c, i, tools, more)
          BY DEF ToGuest, PassOn, CallReply, GoodList, FailedList, Swallow, SendFailure,
                 guest
        <4>2. QED BY <1>3, <4>1 DEF SendList
      <3>2. shown'[c] = shown[c] \cup new BY <3>1
      <3>3. QED BY <1>3, <1>4, <3>2
    <2> HIDE DEF new
    <2>4. Proxy!Answer(c, i) BY <1>1, <1>2, <1>6, <1>8, <2>1, <2>2, <2>3 DEF Proxy!Answer
    <2>5. QED BY <2>4 DEF ProxyStep, Proxy!Next
  <1>9. CASE pending[c][i] # "answered" /\ got[c][i] # 0
    <2>1. i \in broken[c] BY <1>0, <1>5, <1>9 DEF ConnInv, OnItsWay
    <2>2. PassOn(c, i)
      BY <1>1, <1>9 DEF ToGuest, CallReply, GoodList, FailedList, Pending
    <2>3. got' = [got EXCEPT ![c][i] = @ + 1] /\ shown' = shown
      BY <2>2 DEF PassOn, Reply
    <2>4. Proxy!AnswerAgain(c, i) BY <1>1, <1>2, <1>6, <2>1, <2>3 DEF Proxy!AnswerAgain
    <2>5. QED BY <2>4 DEF ProxyStep, Proxy!Next
  <1>10. QED BY <1>7, <1>8, <1>9

\* So does the watchdog, or it is not seen.
LEMMA WatchdogImplements ==
  ASSUME ProxyInv, NEW c \in Conn, NEW i \in Ids, Watchdog(c, i)
  PROVE  ProxyStep
  <1> USE DEF wire, history
  <1>0. /\ TypeOK /\ ConnStep(c) /\ ConnInv(c) /\ ProxyFits(c)
    BY DEF ProxyInv, SessionInv, ConnStep
  <1>1. /\ pc[c] = "open" /\ pending[c][i] = "waiting" /\ got[c][i] = 0
        /\ pc' = pc /\ policy' = policy /\ asked' = asked /\ read' = read
        /\ broken' = broken /\ forwarded' = forwarded
    BY <1>0 DEF Watchdog, SendList, guest, ConnInv, OnItsWay
  <1>2. /\ DeniedNow' = DeniedNow /\ Stage' = Stage /\ MayUse' = MayUse /\ Wanted' = Wanted
        /\ PassedOn' = PassedOn /\ Stage[c] = "open"
    <2>1. Stage[c] = "open" BY <1>1 DEF Stage
    <2>2. QED BY <1>0, <1>1, <2>1, ViewsMove, ViewsStay
  <1>3. i \in PassedOn[c] BY <1>0, <1>1, OnWayIsPassed DEF OnWay
  <1>4. CASE cache # {}
    <2>1. got' = [got EXCEPT ![c][i] = 1]
          /\ shown' = [shown EXCEPT ![c] = @ \cup CachedList(c)]
      BY <1>0, <1>1, <1>4, Typed DEF Watchdog, SendList, Reply
    <2>2. CachedList(c) \subseteq MayUse[c]
      BY <1>0, <1>1 DEF CachedList, FilterTools, MayUse, TypeOK
    <2>3. Proxy!Answer(c, i) BY <1>1, <1>2, <1>3, <2>1, <2>2 DEF Proxy!Answer
    <2>4. QED BY <2>3 DEF ProxyStep, Proxy!Next
  <1>5. CASE cache = {}
    <2>1. got' = got /\ shown' = shown BY <1>5 DEF Watchdog, guest
    <2>2. QED BY <1>1, <1>2, <2>1 DEF ProxyStep, Proxy!proxyVars
  <1>6. QED BY <1>4, <1>5

\* Of what the upstream says ToolProxy sees that a stream broke.
LEMMA UpstreamImplements ==
  ASSUME ProxyInv, NEW c \in Conn, NEW i \in Ids,
         Answer(c, i) \/ PostQuiet(c, i) \/ PostBreaks(c, i)
  PROVE  ProxyStep
  <1>0. /\ TypeOK /\ ConnStep(c) /\ ConnInv(c) /\ ProxyFits(c)
    BY DEF ProxyInv, SessionInv, ConnStep
  <1>1. PICK m : Says(c, i, m) BY <1>0, SaysMessages
  <1>2. /\ i \in at[c] /\ pc' = pc /\ policy' = policy /\ asked' = asked /\ read' = read
        /\ forwarded' = forwarded /\ got' = got /\ shown' = shown
    BY <1>1 DEF Says, session, guest
  <1>3. /\ DeniedNow' = DeniedNow /\ Stage' = Stage /\ MayUse' = MayUse /\ Wanted' = Wanted
        /\ PassedOn' = PassedOn
    BY <1>0, <1>2, ViewsMove, ViewsStay
  <1>4. CASE Answer(c, i) \/ PostQuiet(c, i)
    <2>1. broken' = broken BY <1>4 DEF Answer, PostQuiet
    <2>2. QED BY <1>2, <1>3, <2>1 DEF ProxyStep, Proxy!proxyVars
  <1>5. CASE PostBreaks(c, i)
    <2>1. i \in PassedOn[c] BY <1>0, <1>2, OnWayIsPassed DEF OnWay
    <2>2. Proxy!Break(c, i) BY <1>2, <1>3, <1>5, <2>1 DEF PostBreaks, Proxy!Break
    <2>3. QED BY <2>2 DEF ProxyStep, Proxy!Next
  <1>6. QED BY <1>4, <1>5

\* Every step of the proxy is a step of ToolProxy, or one ToolProxy does not see.
LEMMA ProxyNext ==
  ProxyInv /\ [Next]_vars => [Proxy!Next]_(Proxy!proxyVars)
  <1> SUFFICES ASSUME ProxyInv, [Next]_vars PROVE ProxyStep
    BY DEF ProxyStep
  <1>1. CASE (\E r \in Rules : SetRule(r) \/ Forget(r)) \/ Toggle \/ UNCHANGED vars
    BY <1>1, OperatorImplements
  <1>2. ASSUME NEW c \in Conn, ConnStep(c) PROVE ProxyStep
    <2>1. CASE OpenSession(c) \/ Refuse(c) \/ StartFails(c) \/ SessionEnds(c)
      BY <2>1, OpenImplements, CloseImplements DEF ProxyStep, Proxy!Next
    <2>2. CASE Attach(c) \/ RunEnds(c) \/ UpstreamDies(c)
      BY <2>2, QuietConn DEF ProxyStep
    <2>3. CASE \E r \in Request : /\ Len(asked[c]) < MaxReqs
                                  /\ r \in MayAsk[c][Len(asked[c]) + 1] /\ Ask(c, r)
      BY <2>3, AskImplements
    <2>4. CASE \E i \in Ids : \/ FromGuest(c, i) \/ ToGuest(c, i) \/ Watchdog(c, i)
                              \/ Answer(c, i) \/ PostQuiet(c, i) \/ PostBreaks(c, i)
      BY <2>4, FromGuestImplements, ToGuestImplements, WatchdogImplements,
         UpstreamImplements
    <2>5. QED BY <1>2, <2>1, <2>2, <2>3, <2>4 DEF ConnStep
  <1>3. TypeOK BY DEF ProxyInv, SessionInv
  <1>4. QED BY <1>1, <1>2, <1>3, NextIsConnStep

\* The proxy keeps ToolProxy's promise to the guest and the server, whatever the order of
\* requests, answers, watchdogs, rules and ends (mcpproxy._Session).
THEOREM ProxyImplements == Spec => ImplementsToolProxy
  <1>1. ProxyInv /\ [Next]_vars => ProxyInv' BY ProxyInvStep
  <1>2. QED BY <1>1, ProxyInvInit, ProxyInit, ProxyNext, PTL DEF Spec, ImplementsToolProxy, Proxy!Spec
=============================================================================
