------------------------------ MODULE Arbiter ------------------------------
(***************************************************************************)
(* The decision rule of NSE (nse/orchestrator/arbiter.py), the safety      *)
(* checks on a decision (invariants.py) and the order in which uncertain   *)
(* branches are given a sandbox run (cost.py), as constant-level operators.*)
(*                                                                         *)
(* Real numbers are integers over a common denominator One:                *)
(*   - a probability, a risk or a weight v is the integer v * One;         *)
(*   - an aggregated p_t, a product of two of them, is over One^2;         *)
(*   - a score, a product of four of them, is over One^4;                  *)
(*   - an uncertainty u is in units of max_variance / One, so that u = One *)
(*     is the theoretical maximum that normalize_uncertainty clips to.     *)
(* With One = 100 every default of config.py is represented exactly.       *)
(***************************************************************************)
EXTENDS Integers

CONSTANTS
  One,           \* the denominator
  Alpha,         \* weight of the latent model against the simulator
  Lambda1,       \* critic risk penalty
  Lambda2,       \* long-term risk penalty
  Lambda3,       \* uncertainty penalty
  TauPrune,      \* score below which a branch is pruned, over One
  UMax,          \* uncertainty above which evidence is gathered
  AleatoricMax,  \* irreducible uncertainty above which a human decides
  CoinFlipBand,  \* half-width of the near-coin-flip band, over One
  Entropy(_),    \* binary entropy of a p_t, over One
  NoScore        \* the score of a branch that fails the symbolic gate

Prob  == 0 .. One
PT    == 0 .. One * One

ASSUME ConstantsAssumption ==
  /\ One \in Nat \ {0}
  /\ Alpha \in Prob
  /\ Lambda1 \in Nat /\ Lambda2 \in Nat /\ Lambda3 \in Nat
  /\ TauPrune \in Nat /\ UMax \in Nat /\ AleatoricMax \in Nat
  /\ CoinFlipBand \in Nat
  /\ NoScore \notin Int

ASSUME EntropyAssumption == \A p \in PT : Entropy(p) \in Nat

Routing == {"PRUNE", "INCREMENTAL", "HUMAN_REVIEW", "EXECUTE"}
Reasons == {"NONE", "LOW_SCORE", "SYMBOLIC_FAIL", "UNSAFE_PATCH", "ORACLE_CRASH"}

(* The signals of a branch that the decision rule reads. *)
Signals == [p_c : {0, 1}, p_t_sim : Prob, p_t_latent : Prob, p_t : PT,
            u : Nat, u_aleatoric : Nat, r_critic : Prob, r_long : Prob,
            c_planner : Prob]

Decision == [score : Int \cup {NoScore}, routing : Routing, reason : Reasons]

(* A calibration map never reverses the order of two predictions (isotonic *)
(* regression); the identity stands for "no recalibrator".                 *)
IsMonotone(f)  == \A p, q \in PT : p <= q => f[p] <= f[q]
Recalibrators  == {f \in [PT -> PT] : IsMonotone(f)}
NoRecalibrator == [p \in PT |-> p]

-----------------------------------------------------------------------------
aggregate_p_t(latent, sim) == Alpha * latent + (One - Alpha) * sim

normalize_uncertainty(u) == IF u > One THEN One ELSE u

ModelUOnly(u, coverage_u) == u   \* mutant of EffectiveU
EffectiveU(u, coverage_u) == IF u >= coverage_u THEN u ELSE coverage_u

score(s, p_t, u) ==
  LET base    == s.p_c * p_t * s.c_planner
      penalty == (Lambda1 * s.r_critic + Lambda2 * s.r_long) * (One * One)
                   + Lambda3 * (normalize_uncertainty(u) * (One * One - p_t))
  IN  base * One - penalty

NearCoinFlip(p_t) ==
  /\ 2 * p_t <= One * One + 2 * CoinFlipBand * One
  /\ 2 * p_t >= One * One - 2 * CoinFlipBand * One

(* decide().  The conformal threshold is over One^2 and 0 when there is none: *)
(* no p_t is below it.  escalate is whether the caller passes aleatoric_max.  *)
decide(s, recal, coverage_u, conformal, escalate) ==
  LET p_t == recal[s.p_t]
      u   == EffectiveU(s.u, coverage_u)
      sc  == score(s, p_t, u)
      Route(r, why) == [score |-> sc, routing |-> r, reason |-> why]
  IN  IF s.p_c = 0
        THEN [score |-> NoScore, routing |-> "PRUNE", reason |-> "SYMBOLIC_FAIL"]
      ELSE IF u > UMax THEN Route("INCREMENTAL", "NONE")
      ELSE IF sc < TauPrune * (One * One * One) THEN Route("PRUNE", "LOW_SCORE")
      ELSE IF p_t < conformal THEN Route("INCREMENTAL", "NONE")
      ELSE IF escalate /\ s.u_aleatoric > AleatoricMax /\ NearCoinFlip(p_t)
        THEN Route("HUMAN_REVIEW", "NONE")
      ELSE Route("EXECUTE", "NONE")

(* The signals with the judgment of the simulator (and critic) filled in. *)
WithSim(s, sim) ==
  [s EXCEPT !.p_t_sim = sim, !.p_t = aggregate_p_t(s.p_t_latent, sim)]
StaleAggregate(s, sim, crit) ==   \* mutant of WithJudgment
  [s EXCEPT !.p_t_sim = sim, !.r_critic = crit]
WithJudgment(s, sim, crit) == [WithSim(s, sim) EXCEPT !.r_critic = crit]

(* select_best(): the first of the highest-scoring EXECUTE branches; b ranges *)
(* over branch positions, d[b] is the decision on branch b.                   *)
IsBest(b, branches, d) ==
  /\ b \in branches /\ d[b].routing = "EXECUTE"
  /\ \A c \in branches : d[c].routing = "EXECUTE" =>
       \/ d[b].score > d[c].score
       \/ d[b].score = d[c].score /\ b <= c

-----------------------------------------------------------------------------
(* invariants.py *)
check_never_prune_on_uncertainty(s, d, coverage_u) ==
  EffectiveU(s.u, coverage_u) > UMax =>
    ~(d.routing = "PRUNE" /\ d.reason = "LOW_SCORE")

check_symbolic_fail_prunes(s, d) == s.p_c = 0 => d.routing = "PRUNE"

check_conformal_execute(d, p_t, conformal) ==
  d.routing = "EXECUTE" => p_t >= conformal

(* assert_safe() as run_task calls it: without the two conformal arguments. *)
assert_safe(s, d, coverage_u) ==
  /\ check_never_prune_on_uncertainty(s, d, coverage_u)
  /\ check_symbolic_fail_prunes(s, d)

-----------------------------------------------------------------------------
(* cost.py: the information a sandbox run buys, from the raw p_t and u; the  *)
(* cost per run is the same for every branch and drops out of the order.     *)
info_gain(s) == Entropy(s.p_t) + normalize_uncertainty(s.u)

ListOrder(b, c, s) == b < c   \* mutant of RankedBefore

(* b comes before c in rank_by_acquisition: more information, then position. *)
RankedBefore(b, c, s) ==
  \/ info_gain(s[b]) > info_gain(s[c])
  \/ info_gain(s[b]) = info_gain(s[c]) /\ b < c
=============================================================================
