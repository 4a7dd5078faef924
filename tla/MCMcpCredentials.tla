-------------------------- MODULE MCMcpCredentials --------------------------
(* Instances of McpCredentials for TLC. *)
EXTENDS McpCredentials, TLC

CONSTANTS c1, c2

Good == [keys |-> TRUE, type |-> "http", url |-> "some", command |-> FALSE, proxy |-> "none",
         proxyCa |-> FALSE, proxyAuth |-> "none", mode |-> "shared", users |-> FALSE,
         fallback |-> FALSE, auth |-> 0, odd |-> "no"]

\* Files that are fine, a typo, a per-user server that nobody can use, a limit that is not
\* a number.
TheDocs == {[d EXCEPT !.auth = a] : a \in 0..1, d \in
  {Good, [Good EXCEPT !.keys = FALSE], [Good EXCEPT !.mode = "per_user"],
   [Good EXCEPT !.odd = "limits"]}}

ConnSymmetry == Permutations(Conn)
==============================================================================
