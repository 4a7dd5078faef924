-------------------------- MODULE CallPolicyProofs --------------------------
(***************************************************************************)
(* Theorems about CallPolicy, for any calls, any vocabulary and any number *)
(* of presses and of revoked grants.                                       *)
(* What it is to split a line, to suggest a grant and to be covered by one *)
(* is in CallMatchingProofs.                                               *)
(***************************************************************************)
EXTENDS CallPolicy, CallMatchingProofs

-----------------------------------------------------------------------------
(* The inductive invariant.                                                *)

\* The policy of a run is the one it was started with, and calls belong to a run.
PolicyIsKept ==
  /\ policy # "none" => since = policy
  /\ how # "idle" => policy # "none" /\ call \in Call

\* Every grant was suggested for a call that was pressed.
Minted == \A g \in grants : \E a \in always : g \in Suggest(a.tool, a.text)

\* What the hook let through by itself, it let through under the policy of the run.
ByTheHook == how = "by the hook" => HookAllows(since, call.tool, call.text)

\* A file that grants let write lies below one that was pressed, or beside it.
ByGrants ==
  how = "by grants" /\ call.tool \in WriteTools
    => \E p \in Seen(call.tool) : Below(p, call.text) \/ Beside(p, call.text)

\* What was suggested for a call that was pressed is granted, or was revoked.
StillGranted ==
  \A a \in always :
    /\ Suggest(a.tool, a.text) # {}
    /\ Suggest(a.tool, a.text) \ revoked \subseteq grants

PolicyInv ==
  TypeOK /\ PolicyIsKept /\ Minted /\ ByTheHook /\ ByGrants /\ StillGranted /\ NothingNewRuns

-----------------------------------------------------------------------------
(* Grants.                                                                 *)

\* A grant names its tool, its type and its pattern (grants.suggest).
LEMMA SuggestType ==
  ASSUME NEW tool, NEW t, NEW g \in Suggest(tool, t)
  PROVE  /\ DOMAIN g = {"tool", "type", "pattern"} /\ g.type \in GrantTypes
         /\ g.tool = tool
  <1>1. \E type \in GrantTypes : \E p : g = Grant(tool, type, p)
    BY DEF Suggest, SuggestBash, GrantTypes
  <1>2. QED BY <1>1 DEF Grant

\* What "Always allow" offers for a file is the file's path, and below it.
LEMMA SuggestPath ==
  ASSUME NEW tool \in WriteTools, NEW t, NEW g \in Suggest(tool, t)
  PROVE  g.type = "prefix" /\ g.pattern = t
  <1>1. t # NoText /\ tool # "Bash" BY MatchingAssumption DEF Suggest, MustBeScoped
  <1>2. g = Grant(tool, "prefix", t) BY <1>1 DEF Suggest
  <1>3. QED BY <1>2 DEF Grant

\* What follows a path that does not wind leads below it, or below the one it is in.
LEMMA Continued ==
  ASSUME NEW p, p \in Seq(Pieces(p)), p # <<>>, NEW t, t \in Seq(Pieces(t)), Continues(p, t)
  PROVE  Below(p, t) \/ Beside(p, t)
  <1> DEFINE W == Pieces(p) \cup Pieces(t)
  <1>1. p \in Seq(W) /\ t \in Seq(W) BY SeqMonotonic
  <1> HIDE DEF W
  <1>2. /\ Len(p) \in Nat \ {0} /\ Front(p) \in Seq(W) /\ Len(Front(p)) = Len(p) - 1
        /\ \A i \in 1..(Len(p) - 1) : Front(p)[i] = p[i]
    BY <1>1, FrontIs
  <1>3. Len(p) <= Len(t) /\ IsPrefix(Front(p), t) BY DEF Continues
  <1>4. CASE Last(p) = t[Len(p)]
    <2>1. \A i \in 1..(Len(p) - 1) : p[i] = t[i] BY <1>1, <1>2, <1>3, PrefixIs
    <2>2. \A i \in 1..Len(p) : i = Len(p) \/ i \in 1..(Len(p) - 1) BY <1>2
    <2>3. \A i \in 1..Len(p) : p[i] = t[i] BY <1>4, <2>1, <2>2 DEF Last
    <2>4. IsPrefix(p, t) BY <1>1, <1>3, <2>3, PrefixIs
    <2>5. Below(p, t) BY <1>1, <2>4, PlainTailsStay DEF Below, Winds
    <2>6. QED BY <2>5
  <1>5. CASE Last(p) # t[Len(p)]
    <2>1. <<Last(p), t[Len(p)]>> \in Longer BY <1>5 DEF Continues
    <2>2. Len(Front(p)) + 1 = Len(p) BY <1>2
    <2>3. \/ IsPrefix(RealPath(Front(p)), RealPath(t))
          \/ Winds(SubSeq(t, Len(p), Len(t)))
      BY <1>1, <1>2, <1>3, <2>2, PlainTailsStay DEF Winds
    <2>4. Beside(p, t) BY <1>3, <2>1, <2>3 DEF Beside
    <2>5. QED BY <2>4
  <1>6. QED BY <1>4, <1>5

\* A grant that covers the writing of a file is for a path above it, or for a neighbour
\* (grants.covered_by).
LEMMA CoveredPath ==
  ASSUME TypeOK, Minted, NEW tool \in WriteTools, NEW t, t \in Seq(Pieces(t)),
         CoveredBy(grants, tool, t)
  PROVE  \E p \in Seen(tool) : Below(p, t) \/ Beside(p, t)
  <1>1. t # NoText /\ tool # "Bash" BY MatchingAssumption DEF CoveredBy, MustBeScoped
  <1>2. PICK g \in grants : MatchesOne(g, tool, t) BY <1>1 DEF CoveredBy
  <1>3. PICK a \in always : g \in Suggest(a.tool, a.text) BY DEF Minted
  <1>4. a.tool = tool BY <1>2, <1>3, SuggestType DEF MatchesOne
  <1>5. g.type = "prefix" /\ g.pattern = a.text BY <1>3, <1>4, SuggestPath
  <1>6. Continues(a.text, t) BY <1>1, <1>2, <1>5 DEF MatchesOne
  <1>7. a.text # <<>> /\ a.text \in Seq(Pieces(a.text))
    <2>1. a.text # NoText
      <3>1. tool \in MustBeScoped BY DEF MustBeScoped
      <3>2. QED BY <1>3, <1>4, <3>1 DEF Suggest
    <2>2. a \in Call BY <1>3 DEF TypeOK
    <2>3. QED BY <2>1, <2>2, PolicyAssumption
  <1>8. Below(a.text, t) \/ Beside(a.text, t) BY <1>6, <1>7, Continued
  <1>9. QED BY <1>4, <1>8 DEF Seen

\* What "Always allow" offers for a command is the line as it stands, or the prefix of one
\* of its commands that neither destroys nor interprets.
LEMMA SuggestCommand ==
  ASSUME NEW t, NEW g \in Suggest("Bash", t)
  PROVE  /\ t # NoText
         /\ \/ g.type = "exact" /\ g.pattern = t
            \/ /\ g.type = "prefix"
               /\ \E s \in Segments(t) : Generalises(s) /\ g.pattern = PrefixOf(s)
  <1>1. t # NoText BY DEF Suggest, MustBeScoped
  <1>2. g \in SuggestBash("Bash", t) BY <1>1 DEF Suggest
  <1>3. CASE g = Grant("Bash", "exact", t) BY <1>1, <1>3 DEF Grant
  <1>4. CASE g # Grant("Bash", "exact", t)
    <2>1. PICK s \in Segments(t) : Generalises(s) /\ g = Grant("Bash", "prefix", PrefixOf(s))
      BY <1>2, <1>4 DEF SuggestBash
    <2>2. QED BY <1>1, <2>1 DEF Grant
  <1>5. QED BY <1>3, <1>4

\* A grant that matches a command is for that command as it stands, or for the same one.
LEMMA MatchedCommand ==
  ASSUME TypeOK, Minted, NEW W, NEW t \in Seq(W), NEW s \in Segments(t),
         NEW g \in grants, MatchesOne(g, "Bash", s)
  PROVE  \/ s \in Seen("Bash")
         \/ /\ Program(s) \notin Singles(Unsafe)
            /\ \E u \in Seen("Bash") : \E seen \in Segments(u) : SameCommand(seen, s)
  <1>1. g.tool = "Bash" /\ g.type # "any" BY DEF MatchesOne, MustBeScoped, TypeOK
  <1>2. PICK a \in always : g \in Suggest(a.tool, a.text) BY DEF Minted
  <1>3. a.tool = "Bash" /\ a \in Call
    <2>1. g.tool = a.tool BY <1>2, SuggestType
    <2>2. QED BY <1>1, <2>1 DEF TypeOK
  <1>4. a.text \in Seen("Bash") BY <1>3 DEF Seen
  <1>5. a.text # NoText BY <1>2, <1>3, SuggestCommand
  <1>6. CASE g.type = "exact"
    <2>1. s = g.pattern BY <1>6 DEF MatchesOne
    <2>2. g.pattern = a.text BY <1>2, <1>3, <1>6, SuggestCommand
    <2>3. QED BY <1>4, <2>1, <2>2
  <1>7. CASE g.type # "exact"
    <2>1. PICK seen \in Segments(a.text) : Generalises(seen) /\ g.pattern = PrefixOf(seen)
      BY <1>2, <1>3, <1>7, SuggestCommand
    <2>2. ByPattern(PrefixOf(seen), s) BY <1>1, <1>7, <2>1 DEF MatchesOne, ByPattern
    <2> DEFINE V == W \cup Pieces(a.text) \cup {Space}
    <2>3. a.text \in Seq(Pieces(a.text)) BY <1>3, <1>5, PolicyAssumption
    <2>4. a.text \in Seq(V) /\ t \in Seq(V) /\ Space \in V BY <2>3, SeqMonotonic
    <2> HIDE DEF V
    <2>5. /\ seen \in Seq(V) /\ seen # <<>> /\ seen[1] \notin Blank
          /\ s \in Seq(V) /\ s # <<>> /\ s[1] \notin Blank
      BY <2>4, SegmentIs
    <2>6. SameCommand(seen, s)
      BY <2>2, <2>4, <2>5, PrefixSays DEF SameCommand, HasSub
    <2>7. Program(s) \notin Singles(Unsafe) BY <2>1, <2>6 DEF Generalises, SameCommand
    <2>8. QED BY <1>4, <2>6, <2>7
  <1>8. QED BY <1>6, <1>7

\* A line that is covered was seen, or is made of what was seen (grants.covered_by).
LEMMA CoveredCommand ==
  ASSUME TypeOK, Minted, NEW c \in Call, c.tool = "Bash", c.text # NoText,
         CoveredBy(grants, c.tool, c.text)
  PROVE  \/ c.text \in Seen("Bash")
         \/ /\ ~ IsSpecial(c.text)
            /\ \A s \in Segments(c.text) :
                 \/ s \in Seen("Bash")
                 \/ /\ Program(s) \notin Singles(Unsafe)
                    /\ \E t \in Seen("Bash") : \E seen \in Segments(t) : SameCommand(seen, s)
  <1>1. CASE Grant("Bash", "exact", c.text) \in grants
    <2> DEFINE g == Grant("Bash", "exact", c.text)
    <2>1. g.tool = "Bash" /\ g.type = "exact" /\ g.pattern = c.text BY DEF Grant
    <2>2. g \in grants BY <1>1
    <2> HIDE DEF g
    <2>3. PICK a \in always : g \in Suggest(a.tool, a.text) BY <2>2 DEF Minted
    <2>4. a.tool = "Bash" BY <2>1, <2>3, SuggestType
    <2>5. g.pattern = a.text BY <2>1, <2>3, <2>4, SuggestCommand
    <2>6. QED BY <2>1, <2>4, <2>5 DEF Seen
  <1>2. CASE ~ IsSpecial(c.text) /\ EverySegment(grants, c.tool, c.text)
    <2>1. c.text \in Seq(Pieces(c.text)) BY PolicyAssumption
    <2>2. \A s \in Segments(c.text) : \E g \in grants : MatchesOne(g, "Bash", s)
      BY <1>2 DEF EverySegment
    <2>3. QED BY <1>2, <2>1, <2>2, MatchedCommand
  <1>3. QED BY <1>1, <1>2 DEF CoveredBy

-----------------------------------------------------------------------------
(* Every step keeps the invariant.                                         *)

\* The policy of a run that starts now is one there is.
LEMMA SettingType ==
  ASSUME TypeOK
  PROVE  Setting \in Modes
  BY PolicyAssumption DEF TypeOK, Setting

\* It holds at the start.
LEMMA PolicyInit == Init => PolicyInv
  BY PolicyAssumption DEF Init, PolicyInv, TypeOK, PolicyIsKept, Minted, ByTheHook, ByGrants,
         StillGranted, NothingNewRuns, Modes

\* The types.
LEMMA TypeNext ==
  ASSUME PolicyInv, Next
  PROVE  TypeOK'
  <1>0. TypeOK /\ PolicyIsKept /\ Setting \in Modes BY SettingType DEF PolicyInv
  <1>1. CASE StartRun BY <1>0, <1>1 DEF StartRun, TypeOK
  <1>2. CASE EndRun BY <1>0, <1>2, PolicyAssumption DEF EndRun, TypeOK
  <1>3. CASE Answer BY <1>0, <1>3 DEF Answer, TypeOK
  <1>4. CASE Always
    <2>1. call \in Call BY <1>0, <1>4 DEF Always, PolicyIsKept
    <2>2. \A g \in grants' :
            DOMAIN g = {"tool", "type", "pattern"} /\ g.type \in GrantTypes
      BY <1>0, <1>4, SuggestType DEF Always, TypeOK
    <2>3. QED BY <1>0, <1>4, <2>1, <2>2 DEF Always, TypeOK
  <1>5. CASE \E c \in Call : Propose(c) BY <1>0, <1>5 DEF Propose, TypeOK
  <1>6. CASE \E mode \in Modes : Auth(mode) BY <1>0, <1>6 DEF Auth, TypeOK
  <1>7. CASE \E G \in {{g} : g \in grants} \cup {grants} : Revoke(G)
    <2>1. PICK G \in {{g} : g \in grants} \cup {grants} : Revoke(G) BY <1>7
    <2>2. G \subseteq grants OBVIOUS
    <2>3. grants' \cup revoked' \subseteq grants \cup revoked BY <2>1, <2>2 DEF Revoke
    <2>4. /\ setting' = setting /\ policy' = policy /\ since' = since /\ call' = call
          /\ how' = how /\ always' = always
      BY <2>1 DEF Revoke
    <2>5. QED BY <1>0, <2>3, <2>4 DEF TypeOK
  <1>8. QED BY <1>1, <1>2, <1>3, <1>4, <1>5, <1>6, <1>7 DEF Next

\* Neither |auth nor |revoke reaches a run that has started.
LEMMA PolicyNext ==
  ASSUME PolicyInv, Next
  PROVE  PolicyIsKept' /\ ByTheHook'
  <1> USE DEF PolicyIsKept, ByTheHook
  <1>0. TypeOK /\ PolicyIsKept /\ ByTheHook BY DEF PolicyInv
  <1>1. CASE StartRun
    <2>1. how = "idle" /\ how' = "idle" BY <1>0, <1>1 DEF StartRun
    <2>2. QED BY <1>1, <2>1 DEF StartRun
  <1>2. CASE EndRun BY <1>2 DEF EndRun
  <1>3. CASE Answer BY <1>0, <1>3 DEF Answer
  <1>4. CASE Always BY <1>0, <1>4 DEF Always
  <1>5. ASSUME NEW c \in Call, Propose(c) PROVE PolicyIsKept' /\ ByTheHook'
    <2>1. PolicyIsKept' BY <1>0, <1>5 DEF Propose
    <2>2. how' = "by the hook" => HookAllows(since, c.tool, c.text)
      BY <1>0, <1>5 DEF Propose, PolicyOfRun
    <2>3. QED BY <1>5, <2>1, <2>2 DEF Propose
  <1>6. CASE \E mode \in Modes : Auth(mode) BY <1>0, <1>6 DEF Auth
  <1>7. CASE \E G \in {{g} : g \in grants} \cup {grants} : Revoke(G) BY <1>0, <1>7 DEF Revoke
  <1>8. QED BY <1>1, <1>2, <1>3, <1>4, <1>5, <1>6, <1>7 DEF Next

\* Grants come from "Always allow" alone, and what was pressed stays pressed.
LEMMA MintedNext ==
  ASSUME PolicyInv, Next
  PROVE  Minted' /\ ByGrants'
  <1> USE DEF Minted, ByGrants, Seen
  <1>0. TypeOK /\ PolicyIsKept /\ Minted /\ ByGrants BY DEF PolicyInv
  <1>1. CASE StartRun \/ EndRun \/ Answer
    <2>1. grants' = grants /\ always' = always BY <1>1 DEF StartRun, EndRun, Answer
    <2>2. how' = "by grants" => how = "by grants" /\ call' = call
      BY <1>1 DEF StartRun, EndRun, Answer
    <2>3. QED BY <1>0, <2>1, <2>2
  <1>2. CASE Always
    <2>1. how' = "answered" BY <1>2 DEF Always
    <2>2. Minted' BY <1>0, <1>2 DEF Always
    <2>3. QED BY <2>1, <2>2
  <1>3. ASSUME NEW c \in Call, Propose(c) PROVE Minted' /\ ByGrants'
    <2>1. grants' = grants /\ always' = always /\ call' = c BY <1>3 DEF Propose
    <2>2. how' = "by grants" => CoveredBy(grants, c.tool, c.text) BY <1>3 DEF Propose
    <2>3. ASSUME how' = "by grants", c.tool \in WriteTools
          PROVE  \E p \in Seen(c.tool) : Below(p, c.text) \/ Beside(p, c.text)
      <3>1. c.text # NoText
        BY <2>2, <2>3, MatchingAssumption DEF CoveredBy, MustBeScoped
      <3>2. c.text \in Seq(Pieces(c.text)) BY <3>1, PolicyAssumption
      <3>3. QED BY <1>0, <2>2, <2>3, <3>2, CoveredPath
    <2>4. QED BY <1>0, <2>1, <2>3
  <1>4. CASE \E mode \in Modes : Auth(mode)
    <2>1. grants' = grants /\ always' = always /\ how' = how /\ call' = call
      BY <1>4 DEF Auth
    <2>2. QED BY <1>0, <2>1
  <1>5. CASE \E G \in {{g} : g \in grants} \cup {grants} : Revoke(G)
    <2>1. grants' \subseteq grants /\ always' = always /\ how' = how /\ call' = call
      BY <1>5 DEF Revoke
    <2>2. QED BY <1>0, <2>1
  <1>6. QED BY <1>1, <1>2, <1>3, <1>4, <1>5 DEF Next

\* A grant disappears only when it is revoked.
LEMMA KeptNext ==
  ASSUME PolicyInv, Next
  PROVE  StillGranted'
  <1> USE DEF StillGranted
  <1>0. StillGranted BY DEF PolicyInv
  <1>1. CASE StartRun \/ EndRun \/ Answer
    <2>1. grants' = grants /\ always' = always /\ revoked' = revoked
      BY <1>1 DEF StartRun, EndRun, Answer
    <2>2. QED BY <1>0, <2>1
  <1>2. CASE Always
    <2>1. /\ grants' = grants \cup Suggest(call.tool, call.text) /\ revoked' = revoked
          /\ always' = always \cup {call} /\ Suggest(call.tool, call.text) # {}
      BY <1>2 DEF Always
    <2>2. QED BY <1>0, <2>1
  <1>3. CASE \E c \in Call : Propose(c)
    <2>1. grants' = grants /\ always' = always /\ revoked' = revoked BY <1>3 DEF Propose
    <2>2. QED BY <1>0, <2>1
  <1>4. CASE \E mode \in Modes : Auth(mode)
    <2>1. grants' = grants /\ always' = always /\ revoked' = revoked BY <1>4 DEF Auth
    <2>2. QED BY <1>0, <2>1
  <1>5. CASE \E G \in {{g} : g \in grants} \cup {grants} : Revoke(G)
    <2>1. PICK G : grants' = grants \ G /\ revoked' = revoked \cup G /\ always' = always
      BY <1>5 DEF Revoke
    <2>2. QED BY <1>0, <2>1
  <1>6. QED BY <1>1, <1>2, <1>3, <1>4, <1>5 DEF Next

\* What runs by grants was seen when it is proposed; what was pressed stays pressed.
LEMMA NothingNewNext ==
  ASSUME PolicyInv, Next
  PROVE  NothingNewRuns'
  <1>0. TypeOK /\ Minted /\ NothingNewRuns BY DEF PolicyInv
  <1>1. ASSUME how' = "by grants" => how = "by grants" /\ call' = call, always' = always
        PROVE  NothingNewRuns'
    BY <1>0, <1>1 DEF NothingNewRuns, Seen
  <1>2. CASE StartRun \/ EndRun \/ Answer BY <1>1, <1>2 DEF StartRun, EndRun, Answer
  <1>3. CASE Always BY <1>3 DEF Always, NothingNewRuns
  <1>4. ASSUME NEW c \in Call, Propose(c) PROVE NothingNewRuns'
    <2>1. always' = always /\ call' = c BY <1>4 DEF Propose
    <2>2. how' = "by grants" => CoveredBy(grants, c.tool, c.text) BY <1>4 DEF Propose
    <2>3. SUFFICES ASSUME how' = "by grants", c.tool = "Bash", c.text # NoText
                   PROVE  NothingNewRuns'
      BY <2>1 DEF NothingNewRuns
    <2>4. \/ c.text \in Seen("Bash")
          \/ /\ ~ IsSpecial(c.text)
             /\ \A s \in Segments(c.text) :
                  \/ s \in Seen("Bash")
                  \/ /\ Program(s) \notin Singles(Unsafe)
                     /\ \E t \in Seen("Bash") :
                          \E seen \in Segments(t) : SameCommand(seen, s)
      BY <1>0, <2>2, <2>3, CoveredCommand
    <2>5. QED BY <2>1, <2>4 DEF NothingNewRuns, Seen
  <1>5. CASE \E mode \in Modes : Auth(mode) BY <1>1, <1>5 DEF Auth
  <1>6. CASE \E G \in {{g} : g \in grants} \cup {grants} : Revoke(G)
    BY <1>1, <1>6 DEF Revoke
  <1>7. QED BY <1>2, <1>3, <1>4, <1>5, <1>6 DEF Next

\* Every step keeps the invariant.
LEMMA PolicyStep ==
  ASSUME PolicyInv, [Next]_vars
  PROVE  PolicyInv'
  <1>1. CASE Next
    BY <1>1, TypeNext, PolicyNext, MintedNext, KeptNext, NothingNewNext DEF PolicyInv
  <1>2. CASE UNCHANGED vars
    BY <1>2 DEF vars, PolicyInv, TypeOK, PolicyIsKept, Minted, ByTheHook, ByGrants,
                StillGranted, NothingNewRuns, Seen
  <1>3. QED BY <1>1, <1>2

\* The inductive invariant holds in every reachable state.
THEOREM Inductive == Spec => []PolicyInv
  <1>1. PolicyInv /\ [Next]_vars => PolicyInv' BY PolicyStep
  <1>2. QED BY PolicyInit, <1>1, PTL DEF Spec

-----------------------------------------------------------------------------
(* The theorems.                                                           *)

\* Every variable keeps its type.
THEOREM TypeCorrect == Spec => []TypeOK
  <1>1. PolicyInv => TypeOK BY DEF PolicyInv
  <1>2. QED BY <1>1, Inductive, PTL

\* No tool that writes files writes one without a button but in the workspace, links
\* followed, or below a path that was pressed or beside it, unless the text after that path
\* goes up or over a link; whatever |auth and |revoke come in between (approve.py,
\* grants.py).
THEOREM WritesContained == Spec => []WritesStayPut
  <1>1. ASSUME PolicyInv PROVE WritesStayPut
    <2>1. ASSUME how = "by the hook", call.tool \in WriteTools, since # "open"
          PROVE  IsPrefix(Workspace, RealPath(call.text))
      <3>1. HookAllows(since, call.tool, call.text) BY <1>1, <2>1 DEF PolicyInv, ByTheHook
      <3>2. call.tool \notin AutoAllow /\ call.tool # "Bash" BY <2>1, MatchingAssumption
      <3>3. QED BY <2>1, <3>1, <3>2 DEF HookAllows, InsideWorkspace
    <2>2. QED BY <1>1, <2>1 DEF PolicyInv, ByGrants, WritesStayPut
  <1>2. QED BY <1>1, Inductive, PTL

\* A press on "Always allow" settles the same call until one of its grants is revoked,
\* whatever is pressed, revoked and run in between (grants.suggest, grants.covered_by).
THEOREM PressSettles == Spec => []SameCallIsCovered
  <1>1. ASSUME PolicyInv PROVE SameCallIsCovered
    <2>1. SUFFICES ASSUME NEW a \in always,
                          a.tool = "Bash" /\ a.text # NoText => Spaced(a.text),
                          Suggest(a.tool, a.text) \cap revoked = {}
                   PROVE  CoveredBy(grants, a.tool, a.text)
      BY DEF SameCallIsCovered
    <2>2. /\ a \in Call /\ Suggest(a.tool, a.text) # {}
          /\ Suggest(a.tool, a.text) \subseteq grants
      BY <1>1, <2>1 DEF PolicyInv, TypeOK, StillGranted
    <2>3. a.text # NoText => a.text # <<>> /\ a.text \in Seq(Pieces(a.text))
      BY <2>2, PolicyAssumption
    <2>4. CoveredBy(Suggest(a.tool, a.text), a.tool, a.text)
      BY <2>1, <2>2, <2>3, SuggestionCovers
    <2>5. QED BY <2>2, <2>4, CoverGrows
  <1>2. QED BY <1>1, Inductive, PTL

\* No grant lets a command run that is not one a human has seen; least of all one that
\* destroys or interprets (grants._prefix_of, grants.covered_by).
THEOREM NothingNew == Spec => []NothingNewRuns
  <1>1. PolicyInv => NothingNewRuns BY DEF PolicyInv
  <1>2. QED BY <1>1, Inductive, PTL

\* What the hook lets through by itself is ordinary work as far as it looks, for lines of
\* any length: no command of the line asks, unless its name is glued to another by an
\* operator, none begins with a phrase that does, and no mutator of it names a path that is
\* written outside, unless a single & hides the mutator (approve.bash_reason_to_ask).
THEOREM OrdinaryWork == Spec => []OrdinaryWorkOnly
  <1>1. ASSUME PolicyInv PROVE OrdinaryWorkOnly
    <2>1. SUFFICES ASSUME how = "by the hook", call.tool = "Bash", since # "open"
                   PROVE  /\ since # "strict"
                          /\ \A s \in Segments(call.text) :
                              /\ \A w \in AskCommands :
                                   Trim(Program(s), Quotes) = <<w>> => Glued(call.text, w)
                              /\ \A ph \in Phrases : ~ IsPrefix(ph, s)
                              /\ Program(s) \in Singles(Mutators) /\ ~ Backgrounds(call.text)
                                   => Outside(s, TRUE) = {}
      BY DEF OrdinaryWorkOnly
    <2>2. HookAllows(since, "Bash", call.text) /\ call \in Call
      BY <1>1, <2>1 DEF PolicyInv, ByTheHook, PolicyIsKept
    <2>3. since # "strict" /\ call.text # NoText /\ ~ ReasonToAsk(call.text)
      BY <2>1, <2>2, MatchingAssumption DEF HookAllows
    <2>4. call.text \in Seq(Pieces(call.text)) BY <2>2, <2>3, PolicyAssumption
    <2>5. QED BY <2>3, <2>4, NoReasonMeansOrdinary DEF Backgrounds, Glued
  <1>2. QED BY <1>1, Inductive, PTL
=============================================================================
