------------------------------ MODULE JobControl ------------------------------
(***************************************************************************)
(* What the user of tsh is promised about a job (lab9/tsh.c, the comment   *)
(* before the global variables): its states, the changes of state, and at  *)
(* most one job in the foreground.  A process that is not on the job list  *)
(* is UNDEF.  Beyond the comment, a background job may stop too (somebody  *)
(* sends it a SIGSTOP), and a job may be started, and may end, in any      *)
(* state.                                                                  *)
(***************************************************************************)
CONSTANT PID
VARIABLE state

JobState == {"UNDEF", "FG", "BG", "ST"}

Init == state = [p \in PID |-> "UNDEF"]

Move(p, from, to) ==
  /\ state[p] \in from
  /\ to = "FG" => \A q \in PID : state[q] # "FG"
  /\ state' = [state EXCEPT ![p] = to]

Next == \E p \in PID :
  \/ Move(p, {"UNDEF"}, "FG") \/ Move(p, {"UNDEF"}, "BG")   \* started
  \/ Move(p, {"FG", "BG"}, "ST")                            \* stopped
  \/ Move(p, {"ST", "BG"}, "FG") \/ Move(p, {"ST"}, "BG")   \* fg, bg
  \/ Move(p, {"FG", "BG", "ST"}, "UNDEF")                   \* ended

Spec == Init /\ [][Next]_state
=============================================================================
