------------------------------ MODULE ToolGate ------------------------------
(***************************************************************************)
(* What the approval gate promises, whatever the daemon does inside.       *)
(*                                                                         *)
(* The agent in the VM asks about a tool call and is told "allow" or       *)
(* "deny" once.  "allow" needs a warrant: standing grants, or the press of *)
(* somebody who may decide.  A warrant may turn up at any time, also after *)
(* the call was denied (then it changes nothing), and it is never          *)
(* withdrawn: a revoked grant applies to later calls only.                 *)
(***************************************************************************)
CONSTANT Call                  \* the tool calls the agent attempts

VARIABLES verdict,             \* verdict[c]: what the agent knows about c
          warranted            \* the calls somebody or some grant has allowed

gateVars == <<verdict, warranted>>

Init == /\ verdict = [c \in Call |-> "idle"]
        /\ warranted = {}

Ask(c) == /\ verdict[c] = "idle"
          /\ verdict' = [verdict EXCEPT ![c] = "asking"]
          /\ UNCHANGED warranted

\* One database write may warrant a call; two calls are never warranted at once.
Warrant(c) == /\ c \notin warranted
              /\ warranted' = warranted \cup {c}
              /\ UNCHANGED verdict

Allow(c) == /\ verdict[c] = "asking"
            /\ c \in warranted
            /\ verdict' = [verdict EXCEPT ![c] = "allow"]
            /\ UNCHANGED warranted

Deny(c) == /\ verdict[c] = "asking"
           /\ verdict' = [verdict EXCEPT ![c] = "deny"]
           /\ UNCHANGED warranted

Next == \E c \in Call : Ask(c) \/ Warrant(c) \/ Allow(c) \/ Deny(c)

Spec == Init /\ [][Next]_gateVars
=============================================================================
