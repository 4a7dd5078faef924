---------------------------- MODULE MCThreadTurns ----------------------------
(* Instances of ThreadTurns for TLC. *)
EXTENDS ThreadTurns

Say(t) == [kind |-> "say", tagged |-> t]
Cmd(k) == [kind |-> k, tagged |-> FALSE]

\* A mention, then modes coming and going around replies and mentions.
ModesInTheMiddle ==
  << {Say(TRUE)},
     {Cmd("pause"), Cmd("silent")},
     {Say(TRUE), Say(FALSE)},
     {Cmd("resume"), Cmd("silent"), Say(FALSE)},
     {Say(TRUE)} >>

\* A thread with a session, then a pause that |silent lifts.
PauseThenSilent == <<{Say(TRUE)}, {Cmd("pause")}, {Say(FALSE)}, {Cmd("silent")}, {Say(TRUE)}>>

\* A mention waits for the turn before it while the operator pauses the thread.
PauseWhileQueued == <<{Say(TRUE)}, {Say(TRUE)}, {Cmd("pause")}>>

\* Mention-only, then |resume and an ordinary reply before the next mention.
SilentThenResume ==
  <<{Say(TRUE)}, {Cmd("silent")}, {Say(FALSE)}, {Cmd("resume")}, {Say(FALSE)}, {Say(TRUE)}>>
==============================================================================
