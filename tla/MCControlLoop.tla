--------------------------- MODULE MCControlLoop ---------------------------
(* A cadence of two tasks instead of a hundred, one kill; either a single     *)
(* process over MaxTasks tasks, so that rounds have several rows, or two that *)
(* share the store over MaxShared, or one beside a harvest over MaxShared, up *)
(* to the end of the harvest.  Where there are two actors the planner does    *)
(* not fail, which touches nothing they share, and the process that dies is   *)
(* in the middle of a removal or between a result and its mark.               *)
(* SYMBOLIC_FAIL and LOW_SCORE differ in the false negatives only: the first  *)
(* is the reason of the first task's row alone.                               *)
(* Of the two, w1 takes the first task: the other half of the state space is  *)
(* its mirror image.                                                          *)
EXTENDS Flywheel

CONSTANTS w1, w2, MaxShared

MCInit == FlywheelInit /\ active \in {{w1}, {w1, w2}} /\ (hpc = "ready" => active = {w1})

Crowded == active = {w1, w2} \/ hpc # "off"

MCNext ==
  /\ FlywheelNext
  /\ hpc \notin {"done", "raised"}
  /\ Crowded => started' <= MaxShared /\ (started' # started => task' # task)
  /\ \A t \in DOMAIN reservoir' : reservoir'[t] = "SYMBOLIC_FAIL" => t = 1
  /\ Crowded /\ kills' # kills => \E w \in active : pc[w] \in {"trim", "mark"} /\ pc'[w] = "idle"
  /\ active = {w1, w2} /\ started = 0 => pc'[w2] = "idle"

MCSpec == MCInit /\ [][MCNext]_<<active, vars, harvest_vars>>
=============================================================================
