----------------------------- MODULE MCRunTask -----------------------------
(* Instances of RunTask for TLC: the constants of config.py over One = 20,   *)
(* which represents every one of them exactly but aleatoric_max: .18 of .25  *)
(* is 14.4, and no integer lies between 14 and 14.4.                         *)
EXTENDS RunTaskProperties, TLC

(* Binary entropy over One = 20, at the p_t of the instances: .7 latent +    *)
(* .3 simulator (each 0, .5 or 1) over 400; 4p(1-p) elsewhere.               *)
MCEntropy(p) ==
  CASE p \in {0, 400}   -> 0
    [] p \in {60, 340}  -> 12
    [] p \in {120, 280} -> 18
    [] p \in {140, 260} -> 19
    [] p = 200 -> 20
    [] OTHER -> (4 * p * (400 - p)) \div 8000

(* No calibration has run yet. *)
IdentityRecal == NoRecalibrator

(* An over-confident model: everything from .4 up is pulled down, in steps. *)
StepRecal ==
  [p \in PT |-> IF p < 160 THEN p ELSE IF p < 260 THEN 180
                 ELSE IF p < 320 THEN 220 ELSE 360]

M(c, pass, latent, u, ua, rl, cov, fn) ==
  [p_c |-> pass, latent |-> latent, u |-> u, u_aleatoric |-> ua, r_long |-> rl,
   c_planner |-> c, coverage_u |-> cov, edits_function |-> fn]

(* What the screen may see: a confident, a middling and a hopeless branch;   *)
(* one the ensemble, one the coverage is unsure of; a flaky one; one that    *)
(* does not compile.                                                         *)
MCScreens ==
  {M(18, 1, 20, 0, 0, 0, 0, TRUE), M(18, 1, 10, 2, 0, 0, 0, FALSE),
   M(18, 1, 10, 0, 0, 8, 12, TRUE), M(18, 1, 20, 8, 16, 4, 2, TRUE),
   M(18, 1, 0, 0, 0, 0, 0, TRUE), M(18, 1, 20, 14, 0, 0, 0, TRUE),
   M(18, 1, 10, 0, 0, 0, 20, FALSE), M(20, 1, 14, 1, 18, 0, 0, TRUE),
   M(18, 0, 10, 0, 0, 0, 0, FALSE)}

MCJudgments == {[sim |-> s, crit |-> c] : s \in {0, 20}, c \in {2, 16}}

(* Three branches, only what the control flow tells apart. *)
SmallScreens ==
  {M(18, 1, 20, 0, 0, 0, 0, FALSE), M(18, 1, 0, 0, 0, 0, 0, FALSE),
   M(18, 1, 10, 14, 0, 0, 0, TRUE), M(18, 1, 20, 16, 0, 0, 0, FALSE)}

SmallJudgments == {[sim |-> 20, crit |-> 0]}
=============================================================================
