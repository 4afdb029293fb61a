--------------------------- MODULE ArbiterProofs ---------------------------
(***************************************************************************)
(* What the decision rule guarantees for every value of its constants,     *)
(* every recalibrator and every conformal threshold.                       *)
(***************************************************************************)
EXTENDS Arbiter, TLAPS

(* Products of naturals are monotone in either factor. *)
LEMMA TimesMonotone ==
  ASSUME NEW a \in Nat, NEW b \in Nat, NEW c \in Nat, NEW d \in Nat, a <= b, c <= d
  PROVE  a * c <= b * d /\ a * c \in Nat
<1>1. b = a + (b - a) /\ d = c + (d - c) /\ b - a \in Nat /\ d - c \in Nat
  OBVIOUS
<1>2. \A x, y \in Nat : (a + x) * (c + y) = a * c + (a * y + x * c + x * y)
  OBVIOUS
<1>3. \A x, y \in Nat : a * y \in Nat /\ x * c \in Nat /\ x * y \in Nat /\ a * c \in Nat
  OBVIOUS
<1>4. QED
  BY <1>1, <1>2, <1>3

LEMMA OneFacts ==
  /\ One \in Nat /\ One >= 1 /\ One * One \in Nat /\ One * One * One \in Nat
  /\ Alpha \in Nat /\ One - Alpha \in Nat
  /\ Lambda1 \in Nat /\ Lambda2 \in Nat /\ Lambda3 \in Nat
<1>1. One \in Nat /\ One >= 1 /\ Alpha \in Nat /\ One - Alpha \in Nat
  BY ConstantsAssumption DEF Prob
<1>2. One * One \in Nat /\ One * One * One \in Nat
  BY <1>1
<1>3. QED
  BY <1>1, <1>2, ConstantsAssumption

(* The aggregate of two opinions is a probability, and a more favourable     *)
(* simulator never lowers it.                                                *)
LEMMA AggregateType ==
  ASSUME NEW latent \in Prob, NEW sim \in Prob
  PROVE  aggregate_p_t(latent, sim) \in PT
<1>1. /\ latent \in Nat /\ latent <= One /\ sim \in Nat /\ sim <= One
      /\ Alpha \in Nat /\ One - Alpha \in Nat /\ One \in Nat /\ One * One \in Nat
  BY OneFacts DEF Prob
<1>2. Alpha * latent <= Alpha * One /\ Alpha * latent \in Nat
  BY <1>1, TimesMonotone
<1>3. (One - Alpha) * sim <= (One - Alpha) * One /\ (One - Alpha) * sim \in Nat
  BY <1>1, TimesMonotone
<1>4. Alpha * One + (One - Alpha) * One = One * One
  BY <1>1
<1>5. QED
  BY <1>1, <1>2, <1>3, <1>4 DEF aggregate_p_t, PT

LEMMA AggregateMonotone ==
  ASSUME NEW latent \in Prob, NEW s1 \in Prob, NEW s2 \in Prob, s1 <= s2
  PROVE  aggregate_p_t(latent, s1) <= aggregate_p_t(latent, s2)
<1>1. /\ latent \in Nat /\ s1 \in Nat /\ s2 \in Nat
      /\ Alpha \in Nat /\ One - Alpha \in Nat
  BY OneFacts DEF Prob
<1>2. (One - Alpha) * s1 <= (One - Alpha) * s2 /\ (One - Alpha) * s1 \in Nat
  BY <1>1, TimesMonotone
<1>3. Alpha * latent \in Nat /\ (One - Alpha) * s2 \in Nat
  BY <1>1
<1>4. QED
  BY <1>2, <1>3 DEF aggregate_p_t

(* S(B) is an integer. *)
LEMMA ScoreType ==
  ASSUME NEW s \in Signals, NEW p \in PT, NEW u \in Nat
  PROVE  score(s, p, u) \in Int
<1>1. /\ s.p_c \in Int /\ s.c_planner \in Int /\ s.r_critic \in Int /\ s.r_long \in Int
      /\ p \in Int /\ One \in Int /\ One * One \in Int
      /\ Lambda1 \in Int /\ Lambda2 \in Int /\ Lambda3 \in Int
  BY OneFacts DEF Signals, Prob, PT
<1>2. normalize_uncertainty(u) \in Int
  BY <1>1 DEF normalize_uncertainty
<1>3. s.p_c * p \in Int
  BY <1>1
<1>4. s.p_c * p * s.c_planner \in Int
  BY <1>1, <1>3
<1>5. s.p_c * p * s.c_planner * One \in Int
  BY <1>1, <1>4
<1>6. (Lambda1 * s.r_critic + Lambda2 * s.r_long) \in Int
  BY <1>1
<1>7. (Lambda1 * s.r_critic + Lambda2 * s.r_long) * (One * One) \in Int
  BY <1>1, <1>6
<1>8. normalize_uncertainty(u) * (One * One - p) \in Int
  BY <1>1, <1>2
<1>9. Lambda3 * (normalize_uncertainty(u) * (One * One - p)) \in Int
  BY <1>1, <1>8
<1>10. QED
  BY <1>5, <1>7, <1>9 DEF score

(* S(B) grows with p_t and falls with the critic's risk (cascade.py:95): of  *)
(* two predictions that differ in those alone, the one with the higher p_t   *)
(* and the lower risk scores at least as high.                               *)
THEOREM ScoreMonotone ==
  ASSUME NEW s1 \in Signals, NEW s2 \in Signals, NEW p1 \in PT, NEW p2 \in PT,
         NEW u \in Nat, p1 <= p2, s2.r_critic <= s1.r_critic,
         s1.p_c = s2.p_c, s1.r_long = s2.r_long, s1.c_planner = s2.c_planner
  PROVE  score(s1, p1, u) <= score(s2, p2, u)
<1> DEFINE D == One * One
           N == normalize_uncertainty(u)
           base1 == s1.p_c * p1 * s1.c_planner
           base2 == s2.p_c * p2 * s2.c_planner
           risk1 == Lambda1 * s1.r_critic + Lambda2 * s1.r_long
           risk2 == Lambda1 * s2.r_critic + Lambda2 * s2.r_long
<1>1. /\ s1.p_c \in Nat /\ s1.c_planner \in Nat /\ s1.r_critic \in Nat /\ s1.r_long \in Nat
      /\ s2.r_critic \in Nat
      /\ p1 \in Nat /\ p2 \in Nat /\ D - p1 \in Nat /\ D - p2 \in Nat
      /\ D - p2 <= D - p1
      /\ One \in Nat /\ D \in Nat /\ N \in Nat
      /\ Lambda1 \in Nat /\ Lambda2 \in Nat /\ Lambda3 \in Nat
  BY OneFacts DEF Signals, Prob, PT, normalize_uncertainty
<1>2. base1 * One <= base2 * One /\ base1 * One \in Nat /\ base2 * One \in Nat
  <2>1. s1.p_c * p1 <= s2.p_c * p2 /\ s1.p_c * p1 \in Nat /\ s2.p_c * p2 \in Nat
    BY <1>1, TimesMonotone
  <2>2. base1 <= base2 /\ base1 \in Nat /\ base2 \in Nat
    BY <1>1, <2>1, TimesMonotone
  <2>3. QED
    BY <1>1, <2>2, TimesMonotone
<1>3. risk2 * D <= risk1 * D /\ risk2 * D \in Nat /\ risk1 * D \in Nat
  <2>1. /\ Lambda1 * s2.r_critic <= Lambda1 * s1.r_critic
        /\ Lambda1 * s2.r_critic \in Nat /\ Lambda1 * s1.r_critic \in Nat
    BY <1>1, TimesMonotone
  <2>2. Lambda2 * s1.r_long \in Nat
    BY <1>1
  <2>3. risk2 <= risk1 /\ risk2 \in Nat /\ risk1 \in Nat
    BY <2>1, <2>2
  <2>4. QED
    BY <1>1, <2>3, TimesMonotone
<1>4. /\ Lambda3 * (N * (D - p2)) <= Lambda3 * (N * (D - p1))
      /\ Lambda3 * (N * (D - p2)) \in Nat /\ Lambda3 * (N * (D - p1)) \in Nat
  <2>1. N * (D - p2) <= N * (D - p1) /\ N * (D - p2) \in Nat /\ N * (D - p1) \in Nat
    BY <1>1, TimesMonotone
  <2>2. QED
    BY <1>1, <2>1, TimesMonotone
<1>5. /\ score(s1, p1, u) = base1 * One - (risk1 * D + Lambda3 * (N * (D - p1)))
      /\ score(s2, p2, u) = base2 * One - (risk2 * D + Lambda3 * (N * (D - p2)))
  BY DEF score
<1> HIDE DEF D, N, base1, base2, risk1, risk2
<1>6. QED
  BY <1>2, <1>3, <1>4, <1>5

-----------------------------------------------------------------------------
(* Judging a branch changes only the two opinions and their aggregate. *)
LEMMA WithJudgmentFacts ==
  ASSUME NEW s \in Signals, NEW sim \in Prob, NEW crit \in Prob
  PROVE  LET t == WithJudgment(s, sim, crit) IN
         /\ t \in Signals
         /\ t.p_t = aggregate_p_t(s.p_t_latent, sim) /\ t.p_t \in PT
         /\ t.r_critic = crit /\ t.p_t_sim = sim
         /\ t.p_c = s.p_c /\ t.u = s.u /\ t.u_aleatoric = s.u_aleatoric
         /\ t.r_long = s.r_long /\ t.c_planner = s.c_planner
         /\ t.p_t_latent = s.p_t_latent
<1>1. s.p_t_latent \in Prob
  BY DEF Signals
<1>2. aggregate_p_t(s.p_t_latent, sim) \in PT
  BY <1>1, AggregateType
<1>3. QED
  BY <1>2 DEF WithJudgment, WithSim, Signals

LEMMA EffectiveUType ==
  ASSUME NEW u \in Nat, NEW v \in Nat
  PROVE  /\ EffectiveU(u, v) \in Nat
         /\ EffectiveU(u, v) >= u /\ EffectiveU(u, v) >= v
  BY DEF EffectiveU

LEMMA DecideType ==
  ASSUME NEW s \in Signals, NEW recal \in Recalibrators, NEW cov \in Nat,
         NEW conf \in Nat, NEW escalate \in BOOLEAN
  PROVE  decide(s, recal, cov, conf, escalate) \in Decision
<1>1. s.p_t \in PT /\ s.u \in Nat
  BY DEF Signals
<1>2. recal[s.p_t] \in PT
  BY <1>1 DEF Recalibrators
<1>3. score(s, recal[s.p_t], EffectiveU(s.u, cov)) \in Int
  BY <1>1, <1>2, ScoreType, EffectiveUType
<1>4. QED
  BY <1>3 DEF decide, Decision, Routing, Reasons

(* The three safety invariants of invariants.py hold of every decision: no   *)
(* prune for a low score under high uncertainty (I1), a symbolic failure is  *)
(* always pruned (I2), nothing below the conformal threshold executes (I3).  *)
THEOREM DecisionsAreSafe ==
  ASSUME NEW s \in Signals, NEW recal \in Recalibrators, NEW cov \in Nat,
         NEW conf \in Nat, NEW escalate \in BOOLEAN
  PROVE  LET d == decide(s, recal, cov, conf, escalate) IN
         /\ check_never_prune_on_uncertainty(s, d, cov)
         /\ check_symbolic_fail_prunes(s, d)
         /\ check_conformal_execute(d, recal[s.p_t], conf)
<1>1. recal[s.p_t] \in Nat /\ UMax \in Nat
  BY ConstantsAssumption DEF Recalibrators, Signals, PT
<1>2. EffectiveU(s.u, cov) \in Nat
  BY EffectiveUType DEF Signals
<1>3. QED
  BY <1>1, <1>2 DEF decide, check_never_prune_on_uncertainty,
                    check_symbolic_fail_prunes, check_conformal_execute

(* What a LOW_SCORE prune says of the branch. *)
LEMMA LowScoreMeans ==
  ASSUME NEW s \in Signals, NEW recal \in Recalibrators, NEW cov \in Nat,
         NEW conf \in Nat, NEW escalate \in BOOLEAN
  PROVE  decide(s, recal, cov, conf, escalate).reason = "LOW_SCORE" <=>
           /\ s.p_c # 0 /\ ~(EffectiveU(s.u, cov) > UMax)
           /\ score(s, recal[s.p_t], EffectiveU(s.u, cov))
                 < TauPrune * (One * One * One)
  BY DEF decide

(* The screen costs no recall: a branch pruned for its score with the most   *)
(* favourable simulator and no critic risk is pruned for its score under     *)
(* every judgment, with or without the aleatoric escalation.                 *)
THEOREM ScreenSound ==
  ASSUME NEW s \in Signals, NEW recal \in Recalibrators, NEW cov \in Nat,
         NEW conf \in Nat, NEW e1 \in BOOLEAN, NEW e2 \in BOOLEAN,
         NEW sim \in Prob, NEW crit \in Prob,
         decide(WithJudgment(s, One, 0), recal, cov, conf, e1).reason = "LOW_SCORE"
  PROVE  decide(WithJudgment(s, sim, crit), recal, cov, conf, e2).reason = "LOW_SCORE"
<1> DEFINE best == WithJudgment(s, One, 0)
           real == WithJudgment(s, sim, crit)
           u == EffectiveU(s.u, cov)
<1>1. One \in Prob /\ 0 \in Prob /\ s.p_t_latent \in Prob /\ s.u \in Nat
  BY OneFacts DEF Prob, Signals
<1>2. /\ best \in Signals /\ best.p_t = aggregate_p_t(s.p_t_latent, One)
      /\ best.p_t \in PT /\ best.r_critic = 0 /\ best.p_c = s.p_c /\ best.u = s.u
      /\ best.r_long = s.r_long /\ best.c_planner = s.c_planner
  BY <1>1, WithJudgmentFacts
<1>3. /\ real \in Signals /\ real.p_t = aggregate_p_t(s.p_t_latent, sim)
      /\ real.p_t \in PT /\ real.r_critic = crit /\ real.p_c = s.p_c /\ real.u = s.u
      /\ real.r_long = s.r_long /\ real.c_planner = s.c_planner
  BY <1>1, WithJudgmentFacts
<1> HIDE DEF best, real
<1>4. real.p_t <= best.p_t
  BY <1>1, <1>2, <1>3, AggregateMonotone DEF Prob
<1>5. /\ recal[real.p_t] <= recal[best.p_t]
      /\ recal[real.p_t] \in PT /\ recal[best.p_t] \in PT
  BY <1>2, <1>3, <1>4 DEF Recalibrators, IsMonotone
<1>6. u \in Nat /\ best.r_critic <= real.r_critic
  <2>1. u \in Nat
    BY <1>1, EffectiveUType
  <2>2. 0 <= crit
    BY <1>1 DEF Prob
  <2>3. QED
    BY <1>2, <1>3, <2>1, <2>2
<1>7. score(real, recal[real.p_t], u) <= score(best, recal[best.p_t], u)
  BY <1>2, <1>3, <1>5, <1>6, ScoreMonotone
<1>8. /\ score(real, recal[real.p_t], u) \in Int
      /\ score(best, recal[best.p_t], u) \in Int
      /\ TauPrune * (One * One * One) \in Int
  <2>1. TauPrune \in Int /\ One * One * One \in Int
    BY OneFacts, ConstantsAssumption
  <2>2. TauPrune * (One * One * One) \in Int
    BY <2>1
  <2>3. QED
    BY <1>2, <1>3, <1>5, <1>6, <2>2, ScoreType
<1>9. /\ best.p_c # 0 /\ ~(u > UMax)
      /\ score(best, recal[best.p_t], u) < TauPrune * (One * One * One)
  BY <1>2, LowScoreMeans DEF best
<1>10. score(real, recal[real.p_t], u) < TauPrune * (One * One * One)
  BY <1>7, <1>8, <1>9
<1>11. decide(real, recal, cov, conf, e2).reason = "LOW_SCORE"
  BY <1>2, <1>3, <1>9, <1>10, LowScoreMeans
<1>12. QED
  BY <1>11 DEF real
=============================================================================
