-------------------------- MODULE McpListingProofs --------------------------
(***************************************************************************)
(* That a listing of an MCP server is whole, for any connections that      *)
(* share its cache and any pages: the proof of McpSession!ListingIsWhole   *)
(* (slackagent/mcpproxy.py, _tools_list_response, _cached_tools_list).     *)
(***************************************************************************)
EXTENDS McpSessionProofs

USE SessionAssumption DEF trail

-----------------------------------------------------------------------------
(* The inductive invariant, part by part.                                 *)

UpTo(k) == UNION {upstream.catalogue[j] : j \in 1..k}

\* No list has come in late.
Calm == \A c \in Conn : ~ late[c]
Orderly == Pages <= 2 \/ Calm

\* A tools/list the guest waits for.
Owed(c, i) ==
  /\ i \in 1..Len(asked[c]) /\ asked[c][i].kind = "list"
  /\ i > read[c] \/ pending[c][i] \in {"waiting", "unwatched"}

\* The guest waits for one list at a time, the page its listing is at.
OneListing(c) ==
  /\ pc[c] \in {"new", "starting"} => listing[c].state = "none" /\ asked[c] = <<>>
  /\ \A i \in 1..Len(asked[c]) : Owed(c, i) =>
       listing[c].state = "asking" /\ asked[c][i].page = listing[c].page
  /\ \A i, j \in 1..Len(asked[c]) : Owed(c, i) /\ Owed(c, j) => i = j

\* Once there was a cursor, _tools_seen has the first page.
Beyond(c) ==
  \/ listing[c].state = "more"
  \/ listing[c].state = "asking" /\ listing[c].page # 1
  \/ \E i \in 1..Len(asked[c]) : asked[c][i].kind = "list" /\ asked[c][i].page # 1

FirstPage(c) == pc[c] = "open" /\ Beyond(c) => UpTo(1) \subseteq seen[c]

\* With no list late it has all pages the guest has had.
Gathered(c) ==
  pc[c] = "open" =>
    /\ listing[c].state = "more" => UpTo(listing[c].page) \subseteq seen[c]
    /\ listing[c].state = "asking" => UpTo(listing[c].page - 1) \subseteq seen[c]

\* What the guest has heard of its listing.
Heard(c) ==
  LET heard == listing[c].heard IN
  /\ listing[c].state = "more" => FilterTools(c, UpTo(listing[c].page)) \subseteq heard
  /\ listing[c].state = "asking" => FilterTools(c, UpTo(listing[c].page - 1)) \subseteq heard
  /\ listing[c].state = "whole" => FilterTools(c, Offered) \subseteq heard

\* The cache has everything, or nothing.
CacheIsWhole == cache = {} \/ Offered \subseteq cache

ListingInv(c) ==
  /\ OneListing(c) /\ FirstPage(c)
  /\ Calm => Gathered(c)
  /\ Orderly => Heard(c)

WholeInv ==
  /\ \A c \in Conn : ListingInv(c)
  /\ Orderly => CacheIsWhole

\* It holds at the start.
LEMMA ListingInit == Init => WholeInv
  <1> SUFFICES ASSUME Init PROVE WholeInv
    OBVIOUS
  <1> USE DEF Init
  <1>1. ASSUME NEW c \in Conn PROVE ListingInv(c)
    <2>1. listing[c].state = "none" /\ asked[c] = <<>> /\ pc[c] = "new" OBVIOUS
    <2>2. OneListing(c) BY <2>1 DEF OneListing, Owed
    <2>3. QED BY <2>1, <2>2 DEF ListingInv, FirstPage, Gathered, Heard
  <1>2. CacheIsWhole BY DEF CacheIsWhole
  <1>3. QED BY <1>1, <1>2 DEF WholeInv

-----------------------------------------------------------------------------
(* Pages.                                                                  *)

\* The pages up to one are the pages before it and that page; all of them are the offer.
LEMMA UpToNext ==
  ASSUME TypeOK, NEW k \in 1..Pages
  PROVE  /\ UpTo(k) = UpTo(k - 1) \cup upstream.catalogue[k]
         /\ UpTo(Pages) = Offered /\ UpTo(0) = {}
  <1>1. Pages \in Nat /\ k \in Nat BY PageType
  <1>2. 1..k = 1..(k - 1) \cup {k} BY <1>1
  <1>3. UpTo(k) = UpTo(k - 1) \cup upstream.catalogue[k] BY <1>2 DEF UpTo
  <1>4. 1..0 = {} OBVIOUS
  <1>5. UpTo(0) = {} BY <1>4 DEF UpTo
  <1>6. QED BY <1>3, <1>5 DEF UpTo, Offered

\* Every request for a page asks for one there is, and so is the page of a listing.
LEMMA PageAsked ==
  ASSUME TypeOK, NEW c \in Conn, ReadFirst(c), PagesExist(c), NEW i \in Ids, Owed(c, i)
  PROVE  asked[c][i] \in Request /\ asked[c][i].page \in 1..Pages
  <1>1. i \in 1..Len(asked[c]) /\ asked[c][i].kind = "list" BY DEF Owed
  <1>2. asked[c] \in Seq(Request) BY Typed
  <1>3. QED BY <1>1, <1>2 DEF PagesExist

-----------------------------------------------------------------------------
(* Steps that leave a listing alone.                                       *)

\* Nothing new is owed and nothing heard or forgotten.
Quiet(c) ==
  /\ listing'[c] = listing[c] /\ asked'[c] = asked[c] /\ policy'[c] = policy[c]
  /\ pc'[c] = "open" => pc[c] = "open" /\ seen'[c] = seen[c]
  /\ pc'[c] \in {"new", "starting"} => pc[c] \in {"new", "starting"}
  /\ \A i \in 1..Len(asked[c]) : Owed(c, i)' => Owed(c, i)

\* Such a step keeps what holds of the listing.
LEMMA QuietKeeps ==
  ASSUME NEW c \in Conn, ListingInv(c), Quiet(c), upstream' = upstream, Calm' => Calm
  PROVE  ListingInv(c)'
  <1>1. OneListing(c)' BY DEF ListingInv, OneListing, Quiet
  <1>2. FirstPage(c)' BY DEF ListingInv, FirstPage, Beyond, Quiet, UpTo
  <1>3. Calm' => Gathered(c)' BY DEF ListingInv, Gathered, Quiet, UpTo
  <1>4. Orderly' => Orderly BY DEF Orderly, Pages
  <1>5. Heard(c) => Heard(c)'
    BY DEF Heard, Quiet, UpTo, FilterTools, Permitted, Offered, Pages
  <1>6. QED BY <1>1, <1>2, <1>3, <1>4, <1>5 DEF ListingInv

\* What is owed later was owed before, when only the mark of i and read have moved.
LEMMA OwedBefore ==
  ASSUME TypeOK, NEW c \in Conn, asked'[c] = asked[c],
         read'[c] = read[c] \/ read'[c] = read[c] + 1,
         \A i \in Ids : \/ pending'[c][i] = pending[c][i]
                        \/ pending'[c][i] \in {"no", "answered"}
                        \/ i = read[c] + 1
                        \/ asked[c][i].kind # "list",
         Len(asked[c]) <= MaxReqs
  PROVE  \A i \in 1..Len(asked[c]) : Owed(c, i)' => Owed(c, i)
  <1>1. read[c] \in Nat /\ Len(asked[c]) \in Nat /\ MaxReqs \in Nat BY Typed, SessionBounds
  <1>2. 1..Len(asked[c]) \subseteq Ids BY <1>1 DEF Ids
  <1>3. ASSUME NEW i \in 1..Len(asked[c]), Owed(c, i)' PROVE Owed(c, i)
    <2>1. asked[c][i].kind = "list" BY <1>3 DEF Owed
    <2>2. CASE i > read'[c] BY <1>1, <2>1, <2>2 DEF Owed
    <2>3. CASE pending'[c][i] \in {"waiting", "unwatched"}
      <3>1. i \in Ids /\ i \in Nat BY <1>1, <1>2
      <3>2. pending[c][i] = pending'[c][i] \/ i = read[c] + 1 BY <2>1, <2>3, <3>1
      <3>3. QED BY <1>1, <2>1, <2>3, <3>1, <3>2 DEF Owed
    <2>4. QED BY <1>3, <2>2, <2>3 DEF Owed
  <1>4. QED BY <1>3

\* A connection's steps, but for those that open a session, ask, or send a list.
Silently(c) ==
  \/ Attach(c) \/ Refuse(c) \/ StartFails(c) \/ RunEnds(c) \/ UpstreamDies(c)
  \/ SessionEnds(c)
  \/ \E i \in Ids : \/ FromGuest(c, i) \/ PassOn(c, i) \/ CallReply(c, i)
                   \/ Answer(c, i) \/ PostQuiet(c, i) \/ PostBreaks(c, i)

\* They move nothing the guest waits for, and neither the cache nor the pages gathered.
LEMMA SilentlyQuiet ==
  ASSUME TypeOK, NEW c \in Conn, ReadFirst(c), Silently(c)
  PROVE  Quiet(c) /\ cache' = cache /\ late' = late /\ upstream' = upstream
  <1> USE DEF Go, operator, session, guest, wire, history
  <1>0. Len(asked[c]) <= MaxReqs BY DEF ReadFirst
  <1>1. CASE Attach(c) \/ Refuse(c) \/ StartFails(c) \/ RunEnds(c) \/ UpstreamDies(c)
    <2>1. /\ listing' = listing /\ asked' = asked /\ policy' = policy /\ seen' = seen
          /\ read' = read /\ pending' = pending /\ cache' = cache /\ late' = late
          /\ upstream' = upstream
      BY <1>1 DEF Attach, Refuse, StartFails, RunEnds, UpstreamDies
    <2>2. /\ pc'[c] = "open" => pc[c] = "open"
          /\ pc'[c] \in {"new", "starting"} => pc[c] \in {"new", "starting"}
      BY <1>1 DEF Attach, Refuse, StartFails, RunEnds, UpstreamDies, TypeOK
    <2>3. QED BY <2>1, <2>2 DEF Quiet, Owed
  <1>2. CASE SessionEnds(c)
    <2>1. /\ listing' = listing /\ asked' = asked /\ policy' = policy
          /\ read' = read /\ cache' = cache /\ late' = late /\ upstream' = upstream
      BY <1>2 DEF SessionEnds
    <2>2. pc'[c] = "closed" BY <1>2 DEF SessionEnds, TypeOK
    <2>3. \A i \in Ids : pending'[c][i] = "no" BY <1>2, Typed DEF SessionEnds
    <2>4. \A i \in 1..Len(asked[c]) : Owed(c, i)' => Owed(c, i)
      BY <1>0, <2>1, <2>3, OwedBefore
    <2>5. QED BY <2>1, <2>2, <2>4 DEF Quiet
  <1>3. ASSUME NEW i \in Ids, FromGuest(c, i)
        PROVE  Quiet(c) /\ cache' = cache /\ late' = late /\ upstream' = upstream
    <2> USE DEF FromGuest, RefuseMethod, ForwardOther, ForwardList, DenyCall, CapCall,
                ForwardCall
    <2>1. /\ listing' = listing /\ asked' = asked /\ policy' = policy /\ seen' = seen
          /\ cache' = cache /\ late' = late /\ upstream' = upstream /\ pc' = pc
      BY <1>3
    <2>2. i = read[c] + 1 /\ read'[c] = read[c] + 1 BY <1>3, Typed DEF Reads
    <2>3. \A j \in Ids : pending'[c][j] = pending[c][j] \/ j = i BY <1>3, Typed
    <2>4. \A j \in 1..Len(asked[c]) : Owed(c, j)' => Owed(c, j)
      BY <1>0, <2>1, <2>2, <2>3, OwedBefore
    <2>5. QED BY <2>1, <2>4 DEF Quiet
  <1>4. ASSUME NEW i \in Ids,
               \/ PassOn(c, i) \/ CallReply(c, i)
               \/ Answer(c, i) \/ PostQuiet(c, i) \/ PostBreaks(c, i)
        PROVE  Quiet(c) /\ cache' = cache /\ late' = late /\ upstream' = upstream
    <2> USE DEF PassOn, CallReply, Answer, PostQuiet, PostBreaks, Says
    <2>1. /\ listing' = listing /\ asked' = asked /\ policy' = policy /\ seen' = seen
          /\ cache' = cache /\ late' = late /\ upstream' = upstream /\ pc' = pc
          /\ read' = read
      BY <1>4
    <2>2. pending' = pending \/ Pop(c, i) BY <1>4
    <2>3. \A j \in Ids : pending'[c][j] = pending[c][j] \/ pending'[c][j] = "no"
      BY <2>2, Typed DEF Pop
    <2>4. \A j \in 1..Len(asked[c]) : Owed(c, j)' => Owed(c, j)
      BY <1>0, <2>1, <2>3, OwedBefore
    <2>5. QED BY <2>1, <2>4 DEF Quiet
  <1>5. QED BY <1>1, <1>2, <1>3, <1>4 DEF Silently

-----------------------------------------------------------------------------
(* Opening a session, and asking.                                          *)

\* A session that opens has no listing.
LEMMA OpenQuiet ==
  ASSUME TypeOK, NEW c \in Conn, ListingInv(c), OpenSession(c)
  PROVE  ListingInv(c)' /\ cache' = cache /\ late' = late /\ upstream' = upstream
  <1> USE DEF Go, operator, session, guest, wire, history
  <1>1. /\ listing' = listing /\ asked' = asked /\ read' = read /\ pending' = pending
        /\ cache' = cache /\ late' = late /\ upstream' = upstream
        /\ pc[c] = "starting" /\ pc'[c] = "open"
    BY DEF OpenSession, TypeOK
  <1>2. listing[c].state = "none" /\ asked[c] = <<>>
    BY <1>1 DEF ListingInv, OneListing
  <1>3. OneListing(c)' BY <1>1, <1>2 DEF OneListing, Owed
  <1>4. FirstPage(c)' BY <1>1, <1>2 DEF FirstPage, Beyond
  <1>5. Gathered(c)' /\ Heard(c)' BY <1>1, <1>2 DEF Gathered, Heard
  <1>6. QED BY <1>1, <1>3, <1>4, <1>5 DEF ListingInv

\* Who asks for a list waits for no other; the next page is asked for when the last came
\* with a cursor.
LEMMA AskIsNext ==
  ASSUME TypeOK, NEW c \in Conn, ReadFirst(c), ListingInv(c), Len(asked[c]) < MaxReqs,
         NEW r \in Request, Ask(c, r)
  PROVE  ListingInv(c)' /\ cache' = cache /\ late' = late /\ upstream' = upstream
  <1> USE DEF operator, session, wire, history
  <1>0. /\ asked[c] \in Seq(Request) /\ read[c] \in Nat /\ Len(asked[c]) \in Nat
        /\ listing[c] \in Listing /\ MaxReqs \in Nat
    BY Typed, SessionBounds
  <1>n. PICK n \in Nat : n = Len(asked[c]) + 1 BY <1>0
  <1>1. /\ read' = read /\ pending' = pending /\ seen' = seen /\ policy' = policy /\ pc' = pc
        /\ cache' = cache /\ late' = late /\ upstream' = upstream /\ pc[c] = "open"
    BY DEF Ask
  <1>2. /\ Len(asked'[c]) = n /\ asked'[c][n] = r
        /\ \A i \in 1..Len(asked[c]) : asked'[c][i] = asked[c][i]
    BY <1>0, <1>n, Typed DEF Ask
  <1>3. n \in Ids /\ 1..n = 1..Len(asked[c]) \cup {n} BY <1>0, <1>n DEF Ids
  <1>4. \A i \in 1..Len(asked[c]) : Owed(c, i)' <=> Owed(c, i)
    BY <1>0, <1>1, <1>2, <1>3 DEF Owed
  <1>5. CASE r.kind # "list"
    <2>1. listing' = listing BY <1>5 DEF Ask
    <2>2. ~ Owed(c, n)' BY <1>2, <1>5 DEF Owed
    <2>3. OneListing(c)'
      <3>1. ASSUME NEW i \in 1..Len(asked'[c]), Owed(c, i)'
            PROVE  i \in 1..Len(asked[c]) /\ Owed(c, i)
        <4>1. CASE i = n BY <2>2, <3>1, <4>1
        <4>2. CASE i \in 1..Len(asked[c]) BY <1>4, <3>1, <4>2
        <4>3. QED BY <1>2, <1>3, <4>1, <4>2
      <3>2. QED BY <1>1, <1>2, <2>1, <3>1 DEF ListingInv, OneListing
    <2>4. FirstPage(c)'
      <3>1. \A i \in 1..Len(asked'[c]) : asked'[c][i].kind = "list"
                                          => i \in 1..Len(asked[c]) /\ asked'[c][i] = asked[c][i]
        BY <1>2, <1>3, <1>5
      <3>2. Beyond(c)' => Beyond(c) BY <2>1, <3>1 DEF Beyond
      <3>3. QED BY <1>1, <3>2 DEF ListingInv, FirstPage, UpTo
    <2>5. Gathered(c) => Gathered(c)' BY <1>1, <2>1 DEF Gathered, UpTo
    <2>6. Heard(c) => Heard(c)'
      BY <1>1, <2>1 DEF Heard, UpTo, FilterTools, Permitted, Offered, Pages
    <2>7. QED BY <1>1, <2>3, <2>4, <2>5, <2>6 DEF ListingInv, Calm, Orderly, Pages
  <1>6. CASE r.kind = "list"
    <2>1. /\ listing[c].state # "asking" /\ r.page = Cursor(c)
          /\ listing'[c].state = "asking" /\ listing'[c].page = r.page
          /\ listing'[c].heard = listing[c].heard
      BY <1>6, <1>0, Typed DEF Ask, Listing
    <2>2. \A i \in 1..Len(asked[c]) : ~ Owed(c, i) BY <2>1 DEF ListingInv, OneListing
    <2>3. OneListing(c)'
      <3>1. \A i \in 1..Len(asked'[c]) : Owed(c, i)' => i = n
        BY <1>2, <1>3, <1>4, <2>2
      <3>2. QED BY <1>1, <1>2, <2>1, <3>1 DEF OneListing
    <2>4. listing[c].page \in Nat BY <1>0 DEF Listing
    <2>5. CASE listing[c].state = "more"
      <3>1. r.page = listing[c].page + 1 /\ r.page - 1 = listing[c].page
        BY <2>1, <2>4, <2>5 DEF Cursor
      <3>2. Beyond(c) BY <2>5 DEF Beyond
      <3>3. FirstPage(c)' BY <1>1, <3>2 DEF ListingInv, FirstPage, UpTo
      <3>4. Gathered(c) => Gathered(c)' BY <1>1, <2>1, <2>5, <3>1 DEF Gathered, UpTo
      <3>5. Heard(c) => Heard(c)'
        BY <1>1, <2>1, <2>5, <3>1 DEF Heard, UpTo, FilterTools, Permitted
      <3>6. QED BY <1>1, <2>3, <3>3, <3>4, <3>5 DEF ListingInv, Calm, Orderly, Pages
    <2>6. CASE listing[c].state # "more"
      <3>1. r.page = 1 /\ 1..(r.page - 1) = {} BY <2>1, <2>6 DEF Cursor
      <3>2. Beyond(c)' => Beyond(c) BY <1>2, <1>3, <2>1, <3>1 DEF Beyond
      <3>3. FirstPage(c)' BY <1>1, <3>2 DEF ListingInv, FirstPage, UpTo
      <3>4. UpTo(listing[c].page - 1)' = {} BY <2>1, <3>1 DEF UpTo
      <3>5. Gathered(c)' BY <2>1, <3>4 DEF Gathered
      <3>6. Heard(c)' BY <2>1, <3>4 DEF Heard, FilterTools
      <3>7. QED BY <1>1, <2>3, <3>3, <3>5, <3>6 DEF ListingInv
    <2>7. QED BY <2>5, <2>6
  <1>7. QED BY <1>1, <1>5, <1>6

-----------------------------------------------------------------------------
(* A list is sent, or swallowed.                                           *)

\* What sending the list that is owed makes of the listing.
LEMMA SentList ==
  ASSUME TypeOK, NEW c \in Conn, ReadFirst(c), PagesExist(c), OneListing(c),
         NEW i \in Ids, Owed(c, i), NEW tools \in SUBSET Tools, NEW more \in BOOLEAN,
         SendList(c, i, tools, more)
  PROVE  /\ listing[c].state = "asking"
         /\ listing[c].page = asked[c][i].page /\ listing[c].page \in 1..Pages
         /\ listing'[c].state = IF more THEN "more" ELSE "whole"
         /\ listing'[c].page = listing[c].page
         /\ tools \subseteq listing'[c].heard
         /\ listing[c].page # 1 => listing[c].heard \subseteq listing'[c].heard
         /\ asked' = asked
  <1>1. listing[c].state = "asking" /\ listing[c].page = asked[c][i].page
    BY DEF OneListing, Owed
  <1>2. asked[c][i].page \in 1..Pages BY PageAsked
  <1>3. listing'[c] =
          [state |-> IF more THEN "more" ELSE "whole", page |-> asked[c][i].page,
           heard |-> IF asked[c][i].page = 1 THEN tools
                     ELSE listing[c].heard \cup tools]
    BY Typed DEF SendList
  <1>4. QED BY <1>1, <1>2, <1>3 DEF SendList

\* With what was owed sent, or given up, nothing is owed.
LEMMA NoneOwed ==
  ASSUME TypeOK, NEW c \in Conn, ReadFirst(c), OneListing(c), NEW i \in Ids, Owed(c, i),
         asked' = asked, read' = read, i <= read[c],
         pending'[c][i] \in {"no", "answered"},
         \A j \in Ids \ {i} : pending'[c][j] = pending[c][j]
  PROVE  \A j \in 1..Len(asked[c]) : ~ Owed(c, j)'
  <1>1. read[c] \in Nat /\ Len(asked[c]) \in Nat /\ MaxReqs \in Nat BY Typed, SessionBounds
  <1>2. 1..Len(asked[c]) \subseteq Ids BY <1>1 DEF Ids, ReadFirst
  <1>3. ~ Owed(c, i)' BY <1>1 DEF Owed, Ids
  <1>4. ASSUME NEW j \in 1..Len(asked[c]), j # i PROVE ~ Owed(c, j)'
    <2>1. ~ Owed(c, j) BY <1>4 DEF OneListing, Owed
    <2>2. pending'[c][j] = pending[c][j] BY <1>2, <1>4
    <2>3. QED BY <2>1, <2>2 DEF Owed
  <1>5. QED BY <1>3, <1>4

\* A pending list has been read, and is owed unless the cache was served for it.
LEMMA PendingIsOwed ==
  ASSUME TypeOK, NEW c \in Conn, ReadFirst(c), NEW i \in Ids,
         pending[c][i] # "no", asked[c][i].kind = "list"
  PROVE  i <= read[c] /\ i \in 1..Len(asked[c]) /\ (pending[c][i] = "answered" \/ Owed(c, i))
  <1>1. i \in 1..Len(asked[c]) BY PendingIsAsked
  <1>2. pending[c][i] \in Marks BY Typed
  <1>3. QED BY <1>1, <1>2 DEF Owed, Marks, ReadFirst

\* The cache stands in for the page that is owed: the watchdog, or a failed page.
LEMMA CacheIsSent ==
  ASSUME TypeOK, NEW c \in Conn, ReadFirst(c), PagesExist(c), ListingInv(c),
         Orderly => CacheIsWhole, cache # {},
         NEW i \in Ids, Owed(c, i), i <= read[c], SendList(c, i, CachedList(c), FALSE),
         pending'[c][i] \in {"no", "answered"},
         \A j \in Ids \ {i} : pending'[c][j] = pending[c][j],
         pc' = pc, policy' = policy, read' = read, seen' = seen, cache' = cache,
         late' = late, upstream' = upstream
  PROVE  ListingInv(c)'
  <1>0. OneListing(c) BY DEF ListingInv
  <1>1. CachedList(c) \subseteq Tools BY DEF CachedList, FilterTools, TypeOK
  <1>2. /\ listing[c].state = "asking" /\ listing'[c].state = "whole"
        /\ CachedList(c) \subseteq listing'[c].heard /\ asked' = asked
        /\ listing[c].page = asked[c][i].page
    BY <1>0, <1>1, SentList
  <1>3. \A j \in 1..Len(asked[c]) : ~ Owed(c, j)' BY <1>0, <1>2, NoneOwed
  <1>4. OneListing(c)' BY <1>0, <1>2, <1>3 DEF OneListing
  <1>5. Beyond(c)' => Beyond(c) BY <1>2 DEF Beyond
  <1>6. FirstPage(c)' BY <1>5 DEF ListingInv, FirstPage, UpTo
  <1>7. Gathered(c)' BY <1>2 DEF Gathered
  <1>8. CacheIsWhole => Heard(c)'
    BY <1>2 DEF Heard, CacheIsWhole, CachedList, FilterTools, Permitted, Offered, Pages
  <1>9. QED BY <1>4, <1>6, <1>7, <1>8 DEF ListingInv, Orderly, Calm, Pages

\* The watchdog.
LEMMA WatchdogWhole ==
  ASSUME TypeOK, NEW c \in Conn, ReadFirst(c), PagesExist(c), ListingInv(c),
         Orderly => CacheIsWhole, NEW i \in Ids, Watchdog(c, i)
  PROVE  ListingInv(c)' /\ cache' = cache /\ late' = late /\ upstream' = upstream
  <1> USE DEF wire, history, operator
  <1>1. /\ pc' = pc /\ policy' = policy /\ read' = read /\ seen' = seen /\ cache' = cache
        /\ late' = late /\ upstream' = upstream
        /\ pending[c][i] = "waiting" /\ asked[c][i].kind = "list"
        /\ \A j \in Ids \ {i} : pending'[c][j] = pending[c][j]
        /\ pending'[c][i] = IF cache # {} THEN "answered" ELSE "unwatched"
    BY Typed DEF Watchdog, Watched
  <1>2. i <= read[c] /\ i \in 1..Len(asked[c]) /\ Owed(c, i) BY <1>1, PendingIsOwed
  <1>3. CASE cache # {}
    BY <1>1, <1>2, <1>3, CacheIsSent DEF Watchdog
  <1>4. CASE cache = {}
    <2>1. listing' = listing /\ asked' = asked BY <1>4 DEF Watchdog, guest
    <2>2. \A j \in 1..Len(asked[c]) : Owed(c, j)' => Owed(c, j)
      <3>1. ASSUME NEW j \in 1..Len(asked[c]), Owed(c, j)', j # i PROVE Owed(c, j)
        <4>1. 1..Len(asked[c]) \subseteq Ids BY Typed, SessionBounds DEF Ids, ReadFirst
        <4>2. pending'[c][j] = pending[c][j] BY <1>1, <3>1, <4>1
        <4>3. QED BY <1>1, <2>1, <3>1, <4>2 DEF Owed
      <3>2. QED BY <1>2, <3>1
    <2>3. Quiet(c) BY <1>1, <2>1, <2>2 DEF Quiet
    <2>4. Calm' => Calm BY <1>1 DEF Calm
    <2>5. QED BY <1>1, <2>3, <2>4, QuietKeeps
  <1>5. QED BY <1>3, <1>4

\* A failed page.
LEMMA FailedWhole ==
  ASSUME TypeOK, NEW c \in Conn, ReadFirst(c), PagesExist(c), ListingInv(c),
         Orderly => CacheIsWhole, NEW i \in Ids, FailedList(c, i)
  PROVE  ListingInv(c)' /\ cache' = cache /\ late' = late /\ upstream' = upstream
  <1> USE DEF history, operator
  <1>0. OneListing(c) BY DEF ListingInv
  <1>1. /\ pc' = pc /\ policy' = policy /\ read' = read /\ seen' = seen /\ cache' = cache
        /\ late' = late /\ upstream' = upstream
        /\ pending[c][i] # "no" /\ asked[c][i].kind = "list"
        /\ \A j \in Ids \ {i} : pending'[c][j] = pending[c][j]
        /\ pending'[c][i] = "no"
    BY Typed DEF FailedList, Pending, Pop
  <1>2. /\ i <= read[c] /\ i \in 1..Len(asked[c])
        /\ pending[c][i] = "answered" \/ Owed(c, i)
    BY <1>1, PendingIsOwed
  <1>3. CASE pending[c][i] = "answered"
    <2>1. listing' = listing /\ asked' = asked BY <1>3 DEF FailedList, Swallow, guest
    <2>2. \A j \in Ids : pending'[c][j] = pending[c][j] \/ pending'[c][j] = "no" BY <1>1
    <2>3. \A j \in 1..Len(asked[c]) : Owed(c, j)' => Owed(c, j)
      BY <1>1, <2>1, <2>2, OwedBefore DEF ReadFirst
    <2>4. Quiet(c) BY <1>1, <2>1, <2>3 DEF Quiet
    <2>5. Calm' => Calm BY <1>1 DEF Calm
    <2>6. QED BY <1>1, <2>4, <2>5, QuietKeeps
  <1>4. CASE pending[c][i] # "answered" /\ cache # {}
    <2>1. SendList(c, i, CachedList(c), FALSE) BY <1>4 DEF FailedList
    <2>2. QED BY <1>1, <1>2, <1>4, <2>1, CacheIsSent
  <1>5. CASE pending[c][i] # "answered" /\ cache = {}
    <2>1. /\ asked' = asked /\ listing'[c].state = "failed"
          /\ listing'[c].page = listing[c].page
      BY <1>5, Typed DEF FailedList, SendFailure, Listing
    <2>2. \A j \in 1..Len(asked[c]) : ~ Owed(c, j)' BY <1>0, <1>1, <1>2, <1>5, <2>1, NoneOwed
    <2>3. OneListing(c)'
      <3>1. asked[c] # <<>> BY <1>2, Typed
      <3>2. QED BY <1>0, <1>1, <2>1, <2>2, <3>1 DEF OneListing
    <2>4. FirstPage(c)' BY <1>1, <2>1 DEF ListingInv, FirstPage, Beyond, UpTo
    <2>5. Gathered(c)' /\ Heard(c)' BY <2>1 DEF Gathered, Heard
    <2>6. QED BY <1>1, <2>3, <2>4, <2>5 DEF ListingInv
  <1>6. QED BY <1>3, <1>4, <1>5

\* A page is added to the pages before it, and the last one is kept with them all.
LEMMA Accumulates ==
  ASSUME TypeOK, NEW c \in Conn, ReadFirst(c), PagesExist(c), FirstPage(c), pc[c] = "open",
         NEW i \in 1..Len(asked[c]), asked[c][i].kind = "list"
  PROVE  /\ asked[c][i].page \in 1..Pages
         /\ UpTo(1) \subseteq Accumulate(c, i)
         /\ UpTo(asked[c][i].page - 1) \subseteq seen[c]
              => UpTo(asked[c][i].page) \subseteq Accumulate(c, i)
         /\ Pages <= 2 => UpTo(asked[c][i].page) \subseteq Accumulate(c, i)
  <1>1. asked[c][i].page \in 1..Pages /\ Pages \in Nat BY PageType DEF PagesExist
  <1>2. /\ UpTo(asked[c][i].page)
             = UpTo(asked[c][i].page - 1) \cup upstream.catalogue[asked[c][i].page]
        /\ UpTo(0) = {}
    BY <1>1, UpToNext
  <1>3. CASE asked[c][i].page = 1
    <2>1. Accumulate(c, i) = UpTo(asked[c][i].page)
      BY <1>2, <1>3 DEF Accumulate, Page
    <2>2. QED BY <1>1, <1>3, <2>1
  <1>4. CASE asked[c][i].page # 1
    <2>1. Accumulate(c, i) = seen[c] \cup upstream.catalogue[asked[c][i].page]
      BY <1>4 DEF Accumulate, Page
    <2>2. Beyond(c) BY <1>4 DEF Beyond
    <2>3. UpTo(1) \subseteq seen[c] BY <2>2 DEF FirstPage
    <2>4. Pages <= 2 => asked[c][i].page - 1 = 1 BY <1>1, <1>4
    <2>5. QED BY <1>1, <1>2, <2>1, <2>3, <2>4
  <1>5. QED BY <1>3, <1>4

\* What a good page changes, whether or not it is sent.
LEMMA GoodEffect ==
  ASSUME TypeOK, NEW c \in Conn, ReadFirst(c), NEW i \in Ids, GoodList(c, i)
  PROVE  /\ pc[c] = "open" /\ pc' = pc /\ policy' = policy /\ read' = read
         /\ upstream' = upstream
         /\ asked[c][i].kind = "list" /\ pending[c][i] # "no" /\ pending'[c][i] = "no"
         /\ \A j \in Ids \ {i} : pending'[c][j] = pending[c][j]
         /\ seen'[c] = Accumulate(c, i)
         /\ cache' = cache \/ (IsLast(c, i) /\ cache' = Accumulate(c, i))
         /\ pending[c][i] = "answered" => late'[c]
         /\ Calm' => Calm
  <1> USE DEF operator
  <1>1. late \in [Conn -> BOOLEAN] /\ seen \in [Conn -> SUBSET Tools] BY DEF TypeOK
  <1>2. late' = late \/ late' = [late EXCEPT ![c] = TRUE] BY DEF GoodList
  <1>3. Calm' => Calm BY <1>1, <1>2 DEF Calm
  <1>4. cache' = cache \/ (IsLast(c, i) /\ cache' = Accumulate(c, i))
    BY DEF GoodList, SaveTools
  <1>5. seen'[c] = Accumulate(c, i) BY <1>1 DEF GoodList
  <1>6. pending[c][i] = "answered" => late'[c] BY <1>1 DEF GoodList
  <1>7. /\ pending'[c][i] = "no" /\ \A j \in Ids \ {i} : pending'[c][j] = pending[c][j]
        /\ asked[c][i].kind = "list" /\ pending[c][i] # "no" /\ pc[c] = "open"
    BY Typed DEF GoodList, Pending, Pop, Receives
  <1>8. pc' = pc /\ policy' = policy /\ read' = read /\ upstream' = upstream
    BY DEF GoodList
  <1>9. QED BY <1>3, <1>4, <1>5, <1>6, <1>7, <1>8

\* The cache stays whole: what is kept with the last page is every page.
LEMMA GoodCache ==
  ASSUME TypeOK, NEW c \in Conn, ReadFirst(c), PagesExist(c), ListingInv(c),
         Orderly => CacheIsWhole, NEW i \in Ids, GoodList(c, i)
  PROVE  Orderly' => CacheIsWhole'
  <1>1. Orderly' => Orderly BY GoodEffect DEF Orderly, Pages
  <1>2. i \in 1..Len(asked[c]) /\ pc[c] = "open" /\ asked[c][i].kind = "list"
    BY GoodEffect, PendingIsOwed
  <1>3. Offered' = Offered
    <2>1. upstream' = upstream BY GoodEffect
    <2>2. QED BY <2>1 DEF Offered, Pages
  <1>4. CASE cache' = cache BY <1>1, <1>3, <1>4 DEF CacheIsWhole
  <1>5. CASE cache' # cache
    <2>1. IsLast(c, i) /\ cache' = Accumulate(c, i) BY <1>5, GoodEffect
    <2>2. UpTo(asked[c][i].page) = Offered
      BY <1>2, <2>1, UpToNext DEF IsLast, PagesExist
    <2>3. Pages <= 2 => Offered \subseteq cache'
      BY <1>2, <2>1, <2>2, Accumulates DEF ListingInv
    <2>4. ASSUME Calm' PROVE Offered \subseteq cache'
      <3>1. Calm /\ ~ late'[c] BY <2>4, GoodEffect DEF Calm
      <3>2. Owed(c, i)
        <4>1. pending[c][i] # "answered" BY <3>1, GoodEffect
        <4>2. QED BY <4>1, GoodEffect, PendingIsOwed
      <3>3. listing[c].state = "asking" /\ asked[c][i].page = listing[c].page
        BY <1>2, <3>2 DEF ListingInv, OneListing
      <3>4. UpTo(asked[c][i].page - 1) \subseteq seen[c]
        BY <1>2, <3>1, <3>3 DEF ListingInv, Gathered
      <3>5. QED BY <1>2, <2>1, <2>2, <3>4, Accumulates DEF ListingInv
    <2>5. Pages' = Pages BY GoodEffect DEF Pages
    <2>6. QED BY <1>3, <2>3, <2>4, <2>5 DEF Orderly, CacheIsWhole
  <1>6. QED BY <1>4, <1>5

\* A page that comes in time goes to the guest.
LEMMA GoodWhole ==
  ASSUME TypeOK, NEW c \in Conn, ReadFirst(c), PagesExist(c), ListingInv(c),
         NEW i \in Ids, GoodList(c, i)
  PROVE  ListingInv(c)'
  <1>0. OneListing(c) /\ FirstPage(c) BY DEF ListingInv
  <1>1. /\ pc[c] = "open" /\ pc' = pc /\ policy' = policy /\ read' = read
        /\ upstream' = upstream /\ seen'[c] = Accumulate(c, i)
        /\ asked[c][i].kind = "list" /\ pending[c][i] # "no" /\ pending'[c][i] = "no"
        /\ \A j \in Ids \ {i} : pending'[c][j] = pending[c][j]
        /\ Calm' => Calm
    <2>1. pc[c] = "open" /\ pc' = pc /\ policy' = policy /\ read' = read BY GoodEffect
    <2>2. upstream' = upstream /\ seen'[c] = Accumulate(c, i) BY GoodEffect
    <2>3. asked[c][i].kind = "list" /\ pending[c][i] # "no" /\ pending'[c][i] = "no"
      BY GoodEffect
    <2>4. ASSUME NEW j \in Ids \ {i} PROVE pending'[c][j] = pending[c][j] BY GoodEffect
    <2>5. Calm' => Calm BY GoodEffect
    <2>6. QED BY <2>1, <2>2, <2>3, <2>4, <2>5
  <1>2. /\ i <= read[c] /\ i \in 1..Len(asked[c])
        /\ pending[c][i] = "answered" \/ Owed(c, i)
    BY <1>1, PendingIsOwed
  <1>3. /\ asked[c][i].page \in 1..Pages /\ UpTo(1) \subseteq seen'[c]
        /\ UpTo(asked[c][i].page - 1) \subseteq seen[c]
             => UpTo(asked[c][i].page) \subseteq seen'[c]
    BY <1>0, <1>1, <1>2, Accumulates
  <1>4. FirstPage(c)' BY <1>1, <1>3 DEF FirstPage, UpTo
  <1>5. CASE pending[c][i] = "answered"
    <2>1. listing' = listing /\ asked' = asked BY <1>5 DEF GoodList, Swallow, guest
    <2>2. \A j \in Ids : pending'[c][j] = pending[c][j] \/ pending'[c][j] = "no" BY <1>1
    <2>3. \A j \in 1..Len(asked[c]) : Owed(c, j)' => Owed(c, j)
      BY <1>1, <2>1, <2>2, OwedBefore DEF ReadFirst
    <2>4. OneListing(c)' BY <1>0, <1>1, <2>1, <2>3 DEF OneListing
    <2>5. ~ Calm' BY <1>5, GoodEffect DEF Calm
    <2>6. Heard(c) => Heard(c)'
      BY <1>1, <2>1 DEF Heard, UpTo, FilterTools, Permitted, Offered, Pages
    <2>7. QED BY <1>1, <1>4, <2>4, <2>5, <2>6 DEF ListingInv, Orderly, Pages
  <1>6. CASE pending[c][i] # "answered"
    <2> DEFINE tools == FilterTools(c, Page(c, i))
               page  == asked[c][i].page
    <2>1. Owed(c, i) /\ SendList(c, i, tools, ~ IsLast(c, i))
      BY <1>2, <1>6 DEF GoodList
    <2>2. tools \subseteq Tools BY <1>3, PageType DEF FilterTools, Page
    <2>3. /\ listing[c].state = "asking" /\ listing[c].page = page
          /\ listing'[c].state = IF ~ IsLast(c, i) THEN "more" ELSE "whole"
          /\ listing'[c].page = page /\ tools \subseteq listing'[c].heard
          /\ page # 1 => listing[c].heard \subseteq listing'[c].heard
          /\ asked' = asked
      BY <1>0, <2>1, <2>2, SentList
    <2>4. \A j \in 1..Len(asked[c]) : ~ Owed(c, j)'
      BY <1>0, <1>1, <1>2, <2>1, <2>3, NoneOwed
    <2>5. OneListing(c)'
      <3>1. asked[c] # <<>> BY <1>2, Typed
      <3>2. QED BY <1>0, <1>1, <2>3, <2>4, <3>1 DEF OneListing
    <2>6. ASSUME Calm PROVE Gathered(c)'
      <3>1. UpTo(page - 1) \subseteq seen[c]
        BY <1>1, <2>3, <2>6 DEF ListingInv, Gathered
      <3>2. UpTo(page) \subseteq seen'[c] BY <1>3, <3>1
      <3>3. UpTo(page)' = UpTo(page) BY <1>1, <2>3 DEF UpTo
      <3>4. QED BY <2>3, <3>2, <3>3 DEF Gathered, UpTo
    <2>7. ASSUME Heard(c) PROVE Heard(c)'
      <3>1. FilterTools(c, UpTo(page - 1)) \subseteq listing[c].heard
        BY <2>3, <2>7 DEF Heard
      <3>2. UpTo(page) = UpTo(page - 1) \cup Page(c, i) /\ UpTo(0) = {}
        BY <1>3, UpToNext DEF Page
      <3>3. FilterTools(c, UpTo(page)) \subseteq listing'[c].heard
        <4>1. CASE page = 1 BY <2>3, <3>2, <4>1 DEF FilterTools
        <4>2. CASE page # 1 BY <2>3, <3>1, <3>2, <4>2 DEF FilterTools
        <4>3. QED BY <4>1, <4>2
      <3>4. IsLast(c, i) => UpTo(page) = Offered BY <1>3, UpToNext DEF IsLast
      <3>5. FilterTools(c, UpTo(page)) = FilterTools(c, UpTo(listing[c].page))'
        BY <1>1, <2>3 DEF FilterTools, Permitted, UpTo
      <3>6. FilterTools(c, Offered)' = FilterTools(c, Offered)
        BY <1>1 DEF FilterTools, Permitted, Offered, Pages
      <3>7. QED BY <2>3, <3>3, <3>4, <3>5, <3>6 DEF Heard
    <2>8. Orderly' => Orderly BY <1>1 DEF Orderly, Pages
    <2>9. QED BY <1>1, <1>4, <2>5, <2>6, <2>7, <2>8 DEF ListingInv
  <1>7. QED BY <1>5, <1>6

-----------------------------------------------------------------------------
(* Every step keeps the invariant.                                         *)

\* A step of a connection keeps what holds of its own listing, and the cache whole.
LEMMA OwnStep ==
  ASSUME SessionInv, WholeInv, NEW c \in Conn, ConnStep(c)
  PROVE  ListingInv(c)' /\ (Orderly' => CacheIsWhole')
  <1>0. /\ TypeOK /\ ReadFirst(c) /\ PagesExist(c) /\ ListingInv(c)
        /\ Orderly => CacheIsWhole
    BY DEF SessionInv, ConnInv, WholeInv
  <1>a. ASSUME cache' = cache, late' = late, upstream' = upstream
        PROVE  (Orderly' => CacheIsWhole') /\ (Calm' => Calm)
    BY <1>0, <1>a DEF Orderly, Calm, CacheIsWhole, Offered, Pages
  <1>1. CASE Silently(c) BY <1>0, <1>1, <1>a, SilentlyQuiet, QuietKeeps
  <1>2. CASE OpenSession(c) BY <1>0, <1>2, <1>a, OpenQuiet
  <1>3. ASSUME NEW r \in Request, Len(asked[c]) < MaxReqs, Ask(c, r)
        PROVE  ListingInv(c)' /\ (Orderly' => CacheIsWhole')
    BY <1>0, <1>3, <1>a, AskIsNext
  <1>4. ASSUME NEW i \in Ids, GoodList(c, i)
        PROVE  ListingInv(c)' /\ (Orderly' => CacheIsWhole')
    BY <1>0, <1>4, GoodWhole, GoodCache
  <1>5. ASSUME NEW i \in Ids, FailedList(c, i)
        PROVE  ListingInv(c)' /\ (Orderly' => CacheIsWhole')
    BY <1>0, <1>5, <1>a, FailedWhole
  <1>6. ASSUME NEW i \in Ids, Watchdog(c, i)
        PROVE  ListingInv(c)' /\ (Orderly' => CacheIsWhole')
    BY <1>0, <1>6, <1>a, WatchdogWhole
  <1>7. QED BY <1>1, <1>2, <1>3, <1>4, <1>5, <1>6 DEF ConnStep, Silently, ToGuest

\* It leaves the listing of another alone.
LEMMA OtherStep ==
  ASSUME TypeOK, NEW c \in Conn, ReadFirst(c), NEW d \in Conn \ {c}, ConnStep(c)
  PROVE  Quiet(d) /\ upstream' = upstream /\ (Calm' => Calm)
  <1> USE DEF Go, operator, session, guest, wire, history
  <1>1. Same(d) /\ upstream' = upstream BY OthersSame
  <1>2. seen'[d] = seen[d]
    <2>1. seen' = seen \/ \E T : seen' = [seen EXCEPT ![c] = T]
      BY ZenonT(40) DEF ConnStep, Attach, Refuse, OpenSession, StartFails, RunEnds, UpstreamDies,
             SessionEnds, Ask, FromGuest, RefuseMethod, ForwardOther, ForwardList, DenyCall,
             CapCall, ForwardCall, ToGuest, PassOn, CallReply, GoodList, FailedList, Watchdog,
             Answer, PostQuiet, PostBreaks, Says
    <2>2. QED BY <2>1 DEF TypeOK
  <1>3. Quiet(d) BY <1>1, <1>2 DEF Quiet, Same, Owed
  <1>4. CASE \E i \in Ids : GoodList(c, i) BY <1>1, <1>3, <1>4, GoodEffect
  <1>5. CASE ~ \E i \in Ids : GoodList(c, i)
    <2>1. late' = late
      BY ZenonT(40), <1>5
      DEF    ConnStep, Attach, Refuse, OpenSession, StartFails, RunEnds, UpstreamDies,
             SessionEnds, Ask, FromGuest, RefuseMethod, ForwardOther, ForwardList, DenyCall,
             CapCall, ForwardCall, ToGuest, PassOn, CallReply, FailedList, Watchdog,
             Answer, PostQuiet, PostBreaks, Says
    <2>2. QED BY <1>1, <1>3, <2>1 DEF Calm
  <1>6. QED BY <1>4, <1>5

\* Every step keeps the invariant.
LEMMA WholeStep ==
  ASSUME SessionInv, WholeInv, [Next]_vars
  PROVE  WholeInv'
  <1> USE DEF operator, session, guest, wire, history
  <1>0. TypeOK /\ \A d \in Conn : ReadFirst(d) BY DEF SessionInv, ConnInv
  <1>1. CASE \/ (\E r \in Rules : SetRule(r) \/ Forget(r)) \/ Toggle \/ UNCHANGED vars
    <2>1. /\ upstream' = upstream /\ late' = late /\ cache' = cache
          /\ listing' = listing /\ asked' = asked /\ policy' = policy /\ pc' = pc
          /\ seen' = seen /\ read' = read /\ pending' = pending
      BY <1>1 DEF SetRule, Forget, Toggle, vars
    <2>2. ASSUME NEW d \in Conn PROVE Quiet(d) BY <2>1 DEF Quiet, Owed
    <2>3. Calm' => Calm BY <2>1 DEF Calm
    <2>4. Orderly' => CacheIsWhole'
      BY <2>1 DEF WholeInv, Orderly, Calm, CacheIsWhole, Offered, Pages
    <2>5. QED BY <2>1, <2>2, <2>3, <2>4, QuietKeeps DEF WholeInv
  <1>2. ASSUME NEW c \in Conn, ConnStep(c) PROVE WholeInv'
    <2>1. ListingInv(c)' /\ (Orderly' => CacheIsWhole') BY <1>2, OwnStep
    <2>2. ASSUME NEW d \in Conn \ {c} PROVE ListingInv(d)'
      BY <1>0, <1>2, OtherStep, QuietKeeps DEF WholeInv
    <2>3. QED BY <2>1, <2>2 DEF WholeInv
  <1>3. CASE Next
    <2>1. ASSUME NEW c \in Conn, Len(asked[c]) < MaxReqs,
                 NEW r \in MayAsk[c][Len(asked[c]) + 1], Ask(c, r)
          PROVE  ConnStep(c)
      BY <1>0, <2>1, AskedIsRequest DEF ConnStep
    <2>2. \/ (\E r \in Rules : SetRule(r) \/ Forget(r)) \/ Toggle
          \/ \E c \in Conn : ConnStep(c)
      BY <1>3, <2>1 DEF Next, ConnStep
    <2>3. QED BY <1>1, <1>2, <2>2
  <1>4. QED BY <1>1, <1>3

\* A listing the guest completes has every tool it may call, although pages failed or were
\* replaced from the cache, unless a page that was given up came in late
\* (_tools_list_response, _cached_tools_list).
THEOREM ListedWhole == Spec => []ListingIsWhole
  <1>1. Init => SessionInv /\ WholeInv BY SessionInit, ListingInit
  <1>2. SessionInv /\ WholeInv /\ [Next]_vars => (SessionInv /\ WholeInv)'
    BY SessionStep, WholeStep
  <1>3. SessionInv /\ WholeInv => ListingIsWhole
    BY DEF WholeInv, ListingInv, Heard, Orderly, Calm, ListingIsWhole
  <1>4. QED BY <1>1, <1>2, <1>3, PTL DEF Spec
=============================================================================
