---------------------------- MODULE CallMatching ----------------------------
(***************************************************************************)
(* Which tool calls need a human: the matching of standing grants          *)
(* (slackagent/grants.py, on the host) and the rules the hook applies by   *)
(* itself (vm-files/etc/claude-agent/approve.py, in the guest).            *)
(*                                                                         *)
(* A Bash command is the sequence of its pieces: a blank, an operator, a   *)
(* quotation mark or another character that ends a name is a piece of its  *)
(* own, and so is each name between two of them.  Capital letters are left *)
(* out.  A path is the sequence of its components, empty after a trailing  *)
(* slash.  Pieces matter only by the sets they are in.                     *)
(***************************************************************************)
EXTENDS Naturals, SequencesExt

CONSTANTS
  Space,          \* one space
  Blank,          \* white space: a space, a tab, a newline
  Quotes,         \* quotation marks
  Operators,      \* _OPERATORS of grants.py: they end a command
  HookOperators,  \* what ends one for approve.py: a newline too, but no single &
  Special,        \* _NO_PREFIX_SEQUENCES: redirection, substitution, ...
  Redirect,       \* those of them with a >
  Trimmed,        \* what approve.py strips off the ends of a word
  Unsafe,         \* _INTERPRETERS and _DESTRUCTIVE
  Unstable,       \* VAR=value, and names with a slash
  Bare,           \* letters, digits, - and _, without a leading -
  AskCommands,    \* _ASK_COMMANDS
  Phrases,        \* the sequences in which one of _ASK_PHRASES is written
  Markers,        \* names with one of the agent's dotfiles in them
  Mutators,       \* _MUTATORS
  Written,        \* of a name with a leading / or ~, the list its text puts it on
  Root,           \* WORKSPACE as a name
  Workspace,      \* WORKSPACE as a path
  Link,           \* the symbolic links of the workspace, and where they lead
  Longer,         \* pairs: the second goes on from the first with a space or a ?, or
                  \* with anything if the first is empty or ends in a colon
  AutoAllow,      \* tools that only read
  WriteTools,     \* WORKSPACE_WRITE_TOOLS
  NoText          \* the subject of a call that has none

Pieces(t) == {t[i] : i \in DOMAIN t}

ASSUME MatchingAssumption ==
  /\ Space \in Blank /\ HookOperators \subseteq Operators \cup Blank
  /\ Redirect \subseteq Special /\ Quotes \cup Operators \subseteq Trimmed
  /\ "Bash" \notin AutoAllow \cup WriteTools /\ AutoAllow \cap WriteTools = {}
  /\ Operators \cap (Bare \cup Unsafe \cup Unstable \cup Quotes) = {}
  /\ Blank \cap (Trimmed \cup Bare \cup Unsafe \cup Unstable) = {}
  /\ (Trimmed \cup Blank) \cap (AskCommands \cup Mutators \cup DOMAIN Written) = {}
  /\ Mutators \cap DOMAIN Written = {}
  /\ \A ph \in Phrases : ph \in Seq(Pieces(ph))
  /\ ".." \notin DOMAIN Link
  /\ \A w \in DOMAIN Link :
       /\ Link[w] \in Seq(Pieces(Link[w]))
       /\ Pieces(Link[w]) \cap (DOMAIN Link \cup {".."}) = {}

\* Tools with no bound but the one a grant gives them.
MustBeScoped == {"Bash", "WebFetch"} \cup WriteTools

Singles(S) == {<<w>> : w \in S}

\* str.strip, of what is in S.
Kept(t, S) == {i \in DOMAIN t : t[i] \notin S}
Trim(t, S) ==
  IF Kept(t, S) = {} THEN <<>> ELSE SubSeq(t, Min(Kept(t, S)), Max(Kept(t, S)))

\* str.split, at what is in E: where its parts begin, where each ends, and the parts.
Starts(t, E) == {i \in DOMAIN t : t[i] \notin E /\ (i = 1 \/ t[i - 1] \in E)}
End(t, i, E) == Min({j \in i..Len(t) : j = Len(t) \/ t[j + 1] \in E})
PartAt(t, i, E) == SubSeq(t, i, End(t, i, E))
Split(t, E) == {PartAt(t, i, E) : i \in Starts(t, E)}

\* The first two words.
Others(t) == Starts(t, Blank) \ {Min(Starts(t, Blank))}
Program(t) == PartAt(t, Min(Starts(t, Blank)), Blank)
HasSecond(t) == Others(t) # {}
Second(t) == PartAt(t, Min(Others(t)), Blank)

\* Words are one space apart, and the line does not begin with one.
Spaced(t) ==
  \A i \in DOMAIN t :
    t[i] \in Blank => t[i] = Space /\ i > 1 /\ t[i - 1] \notin Blank

-----------------------------------------------------------------------------
(* grants.py                                                               *)

\* One piece of split_segments.
Cut(a, w) ==
  IF a.quote # {}
  THEN [a EXCEPT !.current = Append(@, w), !.quote = @ \ {w}]
  ELSE IF w \in Quotes THEN [a EXCEPT !.current = Append(@, w), !.quote = {w}]
  ELSE IF w \in Operators
  THEN [a EXCEPT !.segments = @ \cup {Trim(a.current, Blank)}, !.current = <<>>]
  ELSE [a EXCEPT !.current = Append(@, w)]

NothingCut == [segments |-> {}, current |-> <<>>, quote |-> {}]

\* The loop of split_segments, up to each piece.
Scan(t) ==
  LET a[n \in 0..Len(t)] == IF n = 0 THEN NothingCut ELSE Cut(a[n - 1], t[n]) IN a

\* split_segments: the commands of a line; what is made of them does not depend on their order.
Segments(t) ==
  LET a == Scan(t)[Len(t)] IN (a.segments \cup {Trim(a.current, Blank)}) \ {<<>>}

\* _prefix_of is not None.
Generalises(s) ==
  Program(s) \notin Singles(Unsafe) /\ Pieces(Program(s)) \cap Unstable = {}

\* _prefix_of: the command, with its subcommand.
PrefixOf(s) ==
  IF HasSecond(s) /\ Second(s) \in Singles(Bare)
  THEN Program(s) \o <<Space>> \o Second(s) ELSE Program(s)

Grant(tool, type, pattern) == [tool |-> tool, type |-> type, pattern |-> pattern]

IsSpecial(t) == Pieces(t) \cap Special # {}

\* Mutant: a compound command offers one of its commands only.
SuggestOne(tool, t) ==
  IF IsSpecial(t) \/ Segments(t) = {} \/ \E s \in Segments(t) : ~ Generalises(s)
  THEN {Grant(tool, "exact", t)}
  ELSE {Grant(tool, "prefix", PrefixOf(CHOOSE s \in Segments(t) : TRUE))}

\* suggest, of a Bash command.
SuggestBash(tool, t) ==
  IF IsSpecial(t) \/ Segments(t) = {} \/ \E s \in Segments(t) : ~ Generalises(s)
  THEN {Grant(tool, "exact", t)}
  ELSE {Grant(tool, "prefix", PrefixOf(s)) : s \in Segments(t)}

\* suggest: what "Always allow" would create, if anything.
Suggest(tool, t) ==
  IF t = NoText
  THEN IF tool \in MustBeScoped THEN {} ELSE {Grant(tool, "any", <<>>)}
  ELSE IF tool = "Bash" THEN SuggestBash(tool, t)
  ELSE {Grant(tool, "prefix", t)}

\* _matches_one of another tool: the pattern, where a component ends or goes on as Longer has it.
Continues(p, t) ==
  /\ Len(p) <= Len(t) /\ IsPrefix(Front(p), t)
  /\ Last(p) = t[Len(p)] \/ <<Last(p), t[Len(p)]>> \in Longer

\* _matches_one
MatchesOne(g, tool, t) ==
  /\ g.tool = tool
  /\ \/ g.type = "exact" /\ t = g.pattern
     \/ g.type = "any" /\ tool \notin MustBeScoped
     \/ /\ g.type = "prefix" /\ g.pattern # <<>>
        /\ IF tool = "Bash"
           THEN ~ IsSpecial(t) /\ (t = g.pattern \/ IsPrefix(g.pattern \o <<Space>>, t))
           ELSE Continues(g.pattern, t)

\* Mutant: one command of a line is enough.
EveryIsSome(G, tool, t) ==
  \E s \in Segments(t) : \E g \in G : MatchesOne(g, tool, s)

\* Every command of a compound line is covered.
EverySegment(G, tool, t) ==
  /\ Segments(t) # {}
  /\ \A s \in Segments(t) : \E g \in G : MatchesOne(g, tool, s)

\* covered_by is not None.
CoveredBy(G, tool, t) ==
  IF t = NoText
  THEN tool \notin MustBeScoped /\ \E g \in G : g.tool = tool /\ g.type = "any"
  ELSE IF tool # "Bash" THEN \E g \in G : MatchesOne(g, tool, t)
  ELSE \/ Grant(tool, "exact", t) \in G
       \/ ~ IsSpecial(t) /\ EverySegment(G, tool, t)

-----------------------------------------------------------------------------
(* approve.py                                                              *)

\* The words that start a command as the hook sees it: it knows no quotation marks.
Heads(t) == {Program(p) : p \in {q \in Split(t, HookOperators) : Starts(q, Blank) # {}}}

\* Mutant: only the first command of the line is looked at.
FirstMutating(t) ==
  Program(t) \in Singles(Mutators) \/ Pieces(t) \cap Redirect # {}

Mutating(t) == Heads(t) \cap Singles(Mutators) # {} \/ Pieces(t) \cap Redirect # {}

\* The words of a line as they are compared: what is glued together stays one word.
Stripped(t) == {Trim(w, Trimmed) : w \in Split(t, Blank)}

\* What the text of a path makes of it; where the path leads is not asked.
Class(p) == IF p = <<Root>> THEN "workspace" ELSE Written[p[1]]

\* _paths_outside_workspace
Outside(t, mutating) ==
  {p \in Stripped(t) :
     /\ p # <<>> /\ p[1] \in DOMAIN Written
     /\ Class(p) \notin {"workspace", "scratch"} \cup (IF mutating THEN {} ELSE {"programs"})}

\* bash_reason_to_ask is not None.
ReasonToAsk(t) ==
  \/ \E p \in Phrases : \E i \in DOMAIN t : IsPrefix(p, SubSeq(t, i, Len(t)))
  \/ Stripped(t) \cap Singles(AskCommands) # {}
  \/ Pieces(t) \cap Markers # {}
  \/ Mutating(t) /\ Outside(t, TRUE) # {}
  \/ \E p \in Outside(t, Mutating(t)) : Class(p) = "system"

\* os.path.realpath of an absolute path, one component after the other.
Step(path, w) ==
  CASE w = ".."          -> IF path = <<>> THEN <<>> ELSE Front(path)
    [] w \in DOMAIN Link -> Link[w]
    [] OTHER             -> Append(path, w)

Resolve(t) ==
  LET path[n \in 0..Len(t)] == IF n = 0 THEN <<>> ELSE Step(path[n - 1], t[n]) IN path

RealPath(t) == Resolve(t)[Len(t)]

\* Mutant: the path as it is written.
InsideAsWritten(t) == IsPrefix(Workspace, t)

InsideWorkspace(t) == IsPrefix(Workspace, RealPath(t))

\* main, before it asks the daemon.
HookAllows(policy, tool, t) ==
  \/ policy = "open"
  \/ tool \in AutoAllow
  \/ /\ tool = "Bash" /\ policy # "strict"
     /\ t # NoText /\ Trim(t, Blank) # <<>> /\ ~ ReasonToAsk(t)
  \/ tool \in WriteTools /\ t # NoText /\ InsideWorkspace(t)
=============================================================================
