---------------------------- MODULE MCMcpSession ----------------------------
(* Instances of McpSession for TLC. *)
EXTENDS McpSession, TLC

CONSTANTS c1, owner, read1, write1, admin1, root1

List(k)  == [kind |-> "list", tool |-> read1, page |-> k]
Call(t)  == [kind |-> "call", tool |-> t, page |-> 1]
Plain(k) == [kind |-> k, tool |-> read1, page |-> 1]

TheCaller == c1 :> owner

\* What the upstream offers, in two pages and in three.
TheCatalogues == {<<{read1, write1, root1}, {admin1}>>, <<{read1, root1}, {write1}, {admin1}>>}

\* The server allows two tools, the owner's own list all four; the server denies one of
\* them, and the owner's entry another.
TheAllow == {{read1, write1}}
TheDeny == {{root1}}
TheUserAllow == owner :> {{read1, admin1, write1, root1}}
TheUserDeny == owner :> {{write1}}

\* What the operator may add: a deny for everyone, and an allow for the owner against it.
TheRules ==
  {[effect |-> "deny", who |-> Everyone, pattern |-> {read1}],
   [effect |-> "allow", who |-> owner, pattern |-> {read1}]}

\* A listing of up to three pages, or one started over, with calls around it.
TheAsks ==
  c1 :> << {List(1), Call(root1), Plain("other"), Plain("refused")},
           {List(1), List(2), Call(read1)}, {List(2), List(3), Call(read1)} >>
==============================================================================
