----------------------------- MODULE ToolProxy -----------------------------
(***************************************************************************)
(* What the MCP proxy promises the guest and the server behind it,         *)
(* whatever the daemon does inside.                                        *)
(*                                                                         *)
(* A connection opens once, with the tools its caller may use, none of     *)
(* which is denied at that moment, and keeps them until it closes.  A      *)
(* request is passed on to the server or refused, and never both.  A call  *)
(* is passed on if its tool is permitted and calls are left, and refused   *)
(* only if it is not, or none are.  What was passed on is answered at most *)
(* once, with permitted tools in it; but an answer whose stream broke may  *)
(* be followed by another.                                                 *)
(***************************************************************************)
EXTENDS Naturals, FiniteSets

CONSTANTS Conn,       \* the connections of the guest's relays
          Ids,        \* the requests on one of them
          Tools,      \* the tools of the server
          MaxCalls    \* the calls a connection may pass on

VARIABLES
  denied,      \* the tools that are denied to the caller, at the moment
  stage,       \* where a connection is: "new", "open", "over"
  permitted,   \* the tools of an open connection
  wanted,      \* pairs of a request and the tool it calls
  passed,      \* requests the server has been sent
  answers,     \* how many answers a request has had
  shown,       \* tools the guest has been told of
  broken       \* requests whose stream broke

proxyVars == <<denied, stage, permitted, wanted, passed, answers, shown, broken>>

Init ==
  /\ denied \in [Conn -> SUBSET Tools]
  /\ stage = [c \in Conn |-> "new"]
  /\ permitted = [c \in Conn |-> {}] /\ shown = [c \in Conn |-> {}]
  /\ wanted = [c \in Conn |-> {}]
  /\ passed = [c \in Conn |-> {}] /\ broken = [c \in Conn |-> {}]
  /\ answers = [c \in Conn |-> [i \in Ids |-> 0]]

\* The operator changes the rules.
Rule ==
  /\ denied' \in [Conn -> SUBSET Tools]
  /\ UNCHANGED <<stage, permitted, wanted, passed, answers, shown, broken>>

Open(c) ==
  /\ stage[c] = "new" /\ stage' = [stage EXCEPT ![c] = "open"]
  /\ \E tools \in SUBSET (Tools \ denied[c]) : permitted' = [permitted EXCEPT ![c] = tools]
  /\ UNCHANGED <<denied, wanted, passed, answers, shown, broken>>

Close(c) ==
  /\ stage[c] # "over" /\ stage' = [stage EXCEPT ![c] = "over"]
  /\ permitted' = [permitted EXCEPT ![c] = {}]
  /\ UNCHANGED <<denied, wanted, passed, answers, shown, broken>>

-----------------------------------------------------------------------------
Fresh(c, i) == i \notin passed[c] /\ answers[c][i] = 0

Calls(c) == {w[1] : w \in wanted[c]}
MayCall(c, i) == \A w \in wanted[c] : w[1] = i => w[2] \in permitted[c]
CallsLeft(c) == Cardinality(passed[c] \cap Calls(c)) < MaxCalls

\* The guest's request is a call of a tool.
Want(c, i, tool) ==
  /\ stage[c] = "open" /\ Fresh(c, i) /\ i \notin Calls(c)
  /\ wanted' = [wanted EXCEPT ![c] = @ \cup {<<i, tool>>}]
  /\ UNCHANGED <<denied, stage, permitted, passed, answers, shown, broken>>

Pass(c, i) ==
  /\ stage[c] = "open" /\ Fresh(c, i)
  /\ i \in Calls(c) => MayCall(c, i) /\ CallsLeft(c)
  /\ passed' = [passed EXCEPT ![c] = @ \cup {i}]
  /\ UNCHANGED <<denied, stage, permitted, wanted, answers, shown, broken>>

Refuse(c, i) ==
  /\ stage[c] = "open" /\ Fresh(c, i)
  /\ i \in Calls(c) => ~ (MayCall(c, i) /\ CallsLeft(c))
  /\ answers' = [answers EXCEPT ![c][i] = 1]
  /\ UNCHANGED <<denied, stage, permitted, wanted, passed, shown, broken>>

\* The first answer to a request, with the tools that are listed in it.
Answer(c, i) ==
  /\ stage[c] = "open" /\ i \in passed[c] /\ answers[c][i] = 0
  /\ answers' = [answers EXCEPT ![c][i] = 1]
  /\ \E tools \in SUBSET permitted[c] : shown' = [shown EXCEPT ![c] = @ \cup tools]
  /\ UNCHANGED <<denied, stage, permitted, wanted, passed, broken>>

Break(c, i) ==
  /\ i \in passed[c]
  /\ broken' = [broken EXCEPT ![c] = @ \cup {i}]
  /\ UNCHANGED <<denied, stage, permitted, wanted, passed, answers, shown>>

AnswerAgain(c, i) ==
  /\ stage[c] = "open" /\ i \in passed[c] \cap broken[c]
  /\ answers' = [answers EXCEPT ![c][i] = @ + 1]
  /\ UNCHANGED <<denied, stage, permitted, wanted, passed, shown, broken>>

Next ==
  \/ Rule
  \/ \E c \in Conn :
       \/ Open(c) \/ Close(c)
       \/ \E i \in Ids :
            \/ \E tool \in Tools : Want(c, i, tool)
            \/ Pass(c, i) \/ Refuse(c, i)
            \/ Answer(c, i) \/ Break(c, i) \/ AnswerAgain(c, i)

Spec == Init /\ [][Next]_proxyVars
=============================================================================
