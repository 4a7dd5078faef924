----------------------------- MODULE CallPolicy -----------------------------
(***************************************************************************)
(* What runs without a button: the policy of a run, the hook's own rules,  *)
(* and the grants that "Always allow" leaves behind, over a history of     *)
(* calls, presses, |auth and |revoke.                                      *)
(*                                                                         *)
(* One call at a time; how requests, presses and the window interleave is  *)
(* ApprovalGate, whose Covered stands for CoveredBy here.                  *)
(***************************************************************************)
EXTENDS CallMatching

CONSTANTS Call,        \* records: a tool and its subject
          Default,     \* AGENT_POLICY of the daemon's .env
          MaxAlways,   \* bound: calls on which "Always allow" was pressed
          MaxRevoked   \* bound: grants revoked

Modes == {"open", "permissive", "strict"}

ASSUME PolicyAssumption ==
  /\ \A c \in Call :
       /\ DOMAIN c = {"tool", "text"}
       /\ c.text # NoText => c.text # <<>> /\ c.text \in Seq(Pieces(c.text))
  /\ Default \in Modes
  /\ MaxAlways \in Nat /\ MaxRevoked \in Nat

VARIABLES
  setting,     \* settings.agent_policy, "unset" without a row
  policy,      \* the policy in the job of the run, "none" without a run
  since,       \* history: the policy |auth showed when the run started
  grants,      \* the table
  call,        \* the call made last
  how,         \* what became of it
  always,      \* history: calls on which "Always allow" was pressed
  revoked      \* history: grants that were revoked

vars == <<setting, policy, since, grants, call, how, always, revoked>>

NoCall == [tool |-> "none", text |-> NoText]

GrantTypes == {"exact", "prefix", "any"}

TypeOK ==
  /\ setting \in Modes \cup {"unset"}
  /\ policy \in Modes \cup {"none"} /\ since \in Modes
  /\ \A g \in grants \cup revoked :
       DOMAIN g = {"tool", "type", "pattern"} /\ g.type \in GrantTypes
  /\ call \in Call \cup {NoCall}
  /\ how \in {"idle", "by the hook", "by grants", "asking", "answered"}
  /\ always \subseteq Call

Init ==
  /\ setting = "unset" /\ policy = "none" /\ since = Default
  /\ grants = {} /\ call = NoCall /\ how = "idle"
  /\ always = {} /\ revoked = {}

\* Mutant: a row that is not there has no value.
SettingRaw == setting

\* get_setting, with the default of the .env
Setting == IF setting = "unset" THEN Default ELSE setting

-----------------------------------------------------------------------------
\* The policy is read once, and travels with the job to the hook's environment.
StartRun ==
  /\ policy = "none"
  /\ policy' = Setting /\ since' = Setting
  /\ UNCHANGED <<setting, grants, call, how, always, revoked>>

\* A call that still asks is denied by unregister_run, and nobody hears of it.
EndRun ==
  /\ policy # "none" /\ policy' = "none" /\ since' = Default
  /\ call' = NoCall /\ how' = "idle"
  /\ UNCHANGED <<setting, grants, always, revoked>>

\* Mutant: the policy of the moment.
PolicyNow == Setting

\* AGENT_POLICY in the guest.
PolicyOfRun == policy

\* A tool call: the hook by itself, or find_grant on the host, or a human.
Propose(c) ==
  /\ policy # "none" /\ how # "asking"
  /\ call' = c
  /\ how' = IF HookAllows(PolicyOfRun, c.tool, c.text) THEN "by the hook"
            ELSE IF CoveredBy(grants, c.tool, c.text) THEN "by grants"
            ELSE "asking"
  /\ UNCHANGED <<setting, policy, since, grants, always, revoked>>

\* "Approve" or "Deny", or no answer.
Answer ==
  /\ how = "asking"
  /\ how' = "answered"
  /\ UNCHANGED <<setting, policy, since, grants, call, always, revoked>>

\* "Always allow", which is only offered with a suggestion.
Always ==
  /\ how = "asking" /\ Cardinality(always) < MaxAlways
  /\ Suggest(call.tool, call.text) # {}
  /\ grants' = grants \cup Suggest(call.tool, call.text)
  /\ always' = always \cup {call}
  /\ how' = "answered"
  /\ UNCHANGED <<setting, policy, since, call, revoked>>

\* |auth, by the operator.
Auth(mode) ==
  /\ mode # Setting
  /\ setting' = mode
  /\ UNCHANGED <<policy, since, grants, call, how, always, revoked>>

\* |revoke, of one grant or of all.
Revoke(G) ==
  /\ G # {} /\ Cardinality(revoked \cup G) <= MaxRevoked
  /\ grants' = grants \ G
  /\ revoked' = revoked \cup G
  /\ UNCHANGED <<setting, policy, since, call, how, always>>

Next ==
  \/ StartRun \/ EndRun \/ Answer \/ Always
  \/ \E c \in Call : Propose(c)
  \/ \E mode \in Modes : Auth(mode)
  \/ \E G \in {{g} : g \in grants} \cup {grants} : Revoke(G)

Spec == Init /\ [][Next]_vars

-----------------------------------------------------------------------------
(* What makes the policy right.                                            *)

Seen(tool) == {c.text : c \in {a \in always : a.tool = tool}}

\* A press on "Always allow" settles it: the same call is covered from then on, for as
\* long as none of its grants is revoked; unless its words are more than a space apart,
\* which the pattern does not keep.
SameCallIsCovered ==
  \A a \in always :
    /\ a.tool = "Bash" /\ a.text # NoText => Spaced(a.text)
    /\ Suggest(a.tool, a.text) \cap revoked = {}
    => CoveredBy(grants, a.tool, a.text)

\* The same program, and the same subcommand where one was seen.
SameCommand(seen, s) ==
  /\ Program(seen) = Program(s)
  /\ HasSecond(seen) /\ Second(seen) \in Singles(Bare)
       => HasSecond(s) /\ Second(seen) = Second(s)

\* What grants let run was seen: the whole line as it stands; or it has neither
\* redirection nor substitution, and each command in it was pressed "Always allow" for, or
\* is the same command as one in a line that was.  "One careless click would auto-approve
\* every future rm": a command that destroys, or interprets its arguments, only as seen,
\* by its name as it is written (a quoted 'rm' is another name).
NothingNewRuns ==
  how = "by grants" /\ call.tool = "Bash" /\ call.text # NoText =>
    \/ call.text \in Seen("Bash")
    \/ /\ ~ IsSpecial(call.text)
       /\ \A s \in Segments(call.text) :
            \/ s \in Seen("Bash")
            \/ /\ Program(s) \notin Singles(Unsafe)
               /\ \E t \in Seen("Bash") : \E seen \in Segments(t) : SameCommand(seen, s)

\* A single & outside the separators the hook knows.
Backgrounds(t) == Pieces(t) \cap (Operators \ HookOperators) # {}

\* The name is in a word that goes on beyond an operator: "ls;sudo".
Glued(t, w) ==
  \E x \in Split(t, Blank) : w \in Pieces(x) /\ Pieces(Trim(x, Trimmed)) \cap Operators # {}

\* "Ordinary work runs": by the policy its run started with, whatever |auth said since, a
\* strict hook lets no command through.  A permissive one lets none of a line's commands
\* through, wherever in the line the shell starts it, that escalates or pushes, or that is
\* a mutator with a path written outside workspace and scratch among its words.  Less than
\* approve.py says of itself: it misses a name glued to another by an operator, a mutator
\* after a single &, and a path by another spelling (relative, with .., through a link, or
\* in the middle of a word); and a phrase only counts as it is spelt.
OrdinaryWorkOnly ==
  how = "by the hook" /\ call.tool = "Bash" /\ since # "open" =>
    /\ since # "strict"
    /\ \A s \in Segments(call.text) :
      /\ \A w \in AskCommands :
           Trim(Program(s), Quotes) = <<w>> => Glued(call.text, w)
      /\ \A ph \in Phrases : ~ IsPrefix(ph, s)
      /\ Program(s) \in Singles(Mutators) /\ ~ Backgrounds(call.text)
           => Outside(s, TRUE) = {}

\* What follows in a path leads elsewhere: it goes up, or over a link.
Winds(t) == Pieces(t) \cap (DOMAIN Link \cup {".."}) # {}

\* A path below another, in the end as it is written, unless it winds.
Below(p, t) ==
  /\ IsPrefix(p, t)
  /\ IsPrefix(RealPath(p), RealPath(t)) \/ Winds(SubSeq(t, Len(p) + 1, Len(t)))

\* A neighbour: its name is the other's, and goes on with a space or a question mark.
Beside(p, t) ==
  /\ Len(p) <= Len(t) /\ IsPrefix(Front(p), t) /\ <<Last(p), t[Len(p)]>> \in Longer
  /\ IsPrefix(RealPath(Front(p)), RealPath(t)) \/ Winds(SubSeq(t, Len(p), Len(t)))

\* A file is written by a tool without a button only in the workspace, wherever its links
\* lead, or as a standing grant says: below a path that was pressed, or beside one whose
\* name it continues ("notes evil.md" by a grant of "notes").  A grant is matched by the
\* text, so .. and links after the pressed path lead out of it.  What Bash writes is
\* OrdinaryWorkOnly's.
WritesStayPut ==
  /\ how = "by the hook" /\ call.tool \in WriteTools /\ since # "open"
       => IsPrefix(Workspace, RealPath(call.text))
  /\ how = "by grants" /\ call.tool \in WriteTools
       => \E p \in Seen(call.tool) : Below(p, call.text) \/ Beside(p, call.text)
=============================================================================
