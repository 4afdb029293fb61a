----------------------------- MODULE MCCascade -----------------------------
(* The constants of config.py over One = 20, as in MCRunTask. *)
EXTENDS Cascade, TLC

(* cost.py is not reached from run_cascade's decisions. *)
NoEntropy(p) == 0

StepRecal ==
  [p \in PT |-> IF p < 160 THEN p ELSE IF p < 260 THEN 180
                 ELSE IF p < 320 THEN 220 ELSE 360]

L(p, u, r) == [latent |-> p, u |-> u, r_long |-> r]

(* Confident, middling, hopeless, and one the ensemble disagrees about. *)
MCLatent == {L(20, 0, 0), L(12, 2, 0), L(16, 6, 8), L(0, 0, 0), L(8, 14, 0)}
=============================================================================
