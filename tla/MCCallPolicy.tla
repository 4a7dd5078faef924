---------------------------- MODULE MCCallPolicy ----------------------------
(* An instance of CallPolicy for TLC: a small vocabulary, and lines of one or two commands *)
(* in it, with quotations, redirections, names glued to operators, paths by other          *)
(* spellings and irregular spaces among them.                                              *)
EXTENDS CallPolicy, TLC

CONSTANT none

Q == "'"
NL == "newline"

\* Words, one space apart.
Sp(words) == [i \in 1..(2 * Len(words) - 1) |-> IF i % 2 = 1 THEN words[(i + 1) \div 2] ELSE " "]

TheWritten ==
  "/work/x" :> "workspace" @@ "/work/../x" :> "workspace" @@ "/work" :> "system"
    @@ "/tmp/x" :> "scratch" @@ "/usr/x" :> "programs"
    @@ "/etc/x" :> "system" @@ "/srv/x" :> "elsewhere"

Simple == {Sp(<<"git", "status">>), Sp(<<"git", "-v", "push">>), Sp(<<"cp", "/usr/x">>)}

Compound ==
  {Sp(<<"git", "status", "&&", "cp", "/usr/x">>), Sp(<<"git", "status", "&&", "rm", "/etc/x">>),
   Sp(<<"git", "status", "&", "rm", "/srv/x">>),
   <<"git", " ", Q, "&&", " ", "rm", " ", "/srv/x", Q>>,
   <<"git", NL, "rm", " ", "/etc/x">>}

Glueing ==
  {<<"git", "&&", "sudo", " ", "rm">>,
   <<"git", " ", "status", "&&", "rm", " ", "/srv/x", "&&", "git">>}

Odd ==
  {<<"git", " ", " ", "status">>, <<Q, "sudo", Q, " ", "rm">>, Sp(<<"A=1", "git">>),
   Sp(<<"git", "status", ">", "/tmp/x">>), Sp(<<"rm", "/work/../x">>)}

Lines ==
  Simple \cup Compound \cup Glueing \cup Odd
    \cup {Sp(<<"git", "push">>), Sp(<<"rm", "/etc/x">>), Sp(<<"sudo", "rm">>),
          Sp(<<"cp", "/work/.ssh">>)}

TheCalls ==
  [tool : {"Bash"}, text : Lines \cup {none}]
    \cup [tool : {"Write"},
          text : {<<"work", "a">>, <<"work", "out", "a">>,
                  <<"etc">>, <<"etc a">>, <<"etc", "..", "srv">>}]
    \cup [tool : {"Read"}, text : {<<"etc">>}] \cup [tool : {"Other"}, text : {none}]

TheLinks == "out" :> <<"etc">>
TheWorkspace == <<"work">>
ThePhrases == {Sp(<<"git", "push">>)}
TheLonger == {<<"etc", "etc a">>}
==============================================================================
