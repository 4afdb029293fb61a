--------------------------- MODULE RunTaskProofs ---------------------------
(***************************************************************************)
(* Invariants of RunTask for any number of branches, any budget, any       *)
(* recalibrator and threshold, and anything the screen and the agents may  *)
(* answer: the types, what is pruned, and what the tables and the report   *)
(* record.  Then the refinement: RunTask implements TieredGate, so that    *)
(* what every implementation of TieredGate keeps, run_task keeps; and on   *)
(* the same invariant, that decisions follow signals and that the sandbox  *)
(* runs are well spent.                                                    *)
(***************************************************************************)
EXTENDS RunTaskProperties, ArbiterProofs, FiniteSetTheorems

(* TypeOK is not inductive alone: the row of the reservoir is written after  *)
(* the cursor was checked, and the list of branches is set once.             *)
PhaseInv ==
  /\ pc = "log_pruned" => cursor <= n
  /\ pc = "plan" => n = 0 /\ asked = {}

TypeInv == TypeOK /\ PhaseInv

LEMMA AnswersType == Answers \subseteq [sim : Prob, crit : Prob]
<1>1. One \div 2 \in Prob /\ 0 \in Prob
  BY OneFacts DEF Prob
<1>2. QED
  BY <1>1, RunTaskAssumption DEF Answers

LEMMA MeasuredType ==
  ASSUME NEW m \in Screens, NEW sim \in Prob
  PROVE  Measured(m, sim) \in Signals
<1>1. m \in ScreenType
  BY RunTaskAssumption
<1>2. aggregate_p_t(m.latent, sim) \in PT
  BY <1>1, AggregateType DEF ScreenType
<1>3. 0 \in Prob
  BY OneFacts DEF Prob
<1>4. QED
  BY <1>1, <1>2, <1>3 DEF ScreenType, Measured, Signals

LEMMA ConstantFacts ==
  /\ Recal \in Recalibrators /\ Conformal \in Nat /\ K \in Nat /\ MaxRuns \in Nat
  /\ TRUE \in BOOLEAN /\ FALSE \in BOOLEAN
  /\ One \in Prob /\ 0 \in Prob /\ ScreenSim \in Prob
  /\ 0 \in PT /\ NoScore \notin Int
  BY RunTaskAssumption, OneFacts, ConstantsAssumption DEF Prob, PT, ScreenSim

LEMMA NoSignalType == NoSignal \in Signals /\ Unrouted \in Decision \cup {Unrouted}
  BY ConstantFacts DEF NoSignal, Signals, Unrouted

LEMMA InitTypeInv == Init => TypeInv
<1> SUFFICES ASSUME Init PROVE TypeInv
  OBVIOUS
<1>1. /\ sig \in [Branch -> Signals] /\ dec \in [Branch -> Decision \cup {Unrouted}]
  BY NoSignalType DEF Init
<1>2. /\ ctx \in [Branch -> [coverage_u : Nat, edits_function : BOOLEAN]]
      /\ tier \in [Branch -> 0 .. 2]
  BY DEF Init, NoCtx
<1>3. cursor \in 1 .. K + 1 /\ n \in 0 .. K /\ report \in [best : 0 .. K, tests_passed : BOOLEAN]
  BY ConstantFacts DEF Init
<1>4. QED
  BY <1>1, <1>2, <1>3 DEF Init, TypeInv, TypeOK, PhaseInv, Phases

(* Writing the prediction of one branch keeps the types of all of them. *)
LEMMA ScreenedType ==
  ASSUME TypeInv, NEW s \in Signals, NEW d \in Decision,
         NEW x \in [coverage_u : Nat, edits_function : BOOLEAN],
         Screening, Screened(cursor, s, d, x)
  PROVE  TypeInv'
<1>1. cursor \in Branch /\ cursor + 1 \in 1 .. K + 1
  BY ConstantFacts DEF TypeInv, TypeOK, Screening, Branch
<1>2. /\ sig' \in [Branch -> Signals] /\ dec' \in [Branch -> Decision \cup {Unrouted}]
      /\ ctx' \in [Branch -> [coverage_u : Nat, edits_function : BOOLEAN]]
      /\ tier' \in [Branch -> 0 .. 2]
  BY <1>1 DEF TypeInv, TypeOK, Screened
<1>3. QED
  BY <1>1, <1>2 DEF TypeInv, TypeOK, PhaseInv, Screening, Screened, Planned,
     table_vars, run_vars

LEMMA JudgedType ==
  ASSUME TypeInv, NEW s \in Signals, NEW d \in Decision, Judging,
         Judged(cursor, s, d), oracle_runs' \in Nat
  PROVE  TypeInv'
<1>1. cursor \in Branch /\ cursor + 1 \in 1 .. K + 1
  BY ConstantFacts DEF TypeInv, TypeOK, Judging, Branch
<1>2. /\ sig' \in [Branch -> Signals] /\ dec' \in [Branch -> Decision \cup {Unrouted}]
      /\ tier' \in [Branch -> 0 .. 2]
  BY <1>1 DEF TypeInv, TypeOK, Judged
<1>3. /\ cursor' \in 1 .. K + 1 /\ pc' \in {"judge", "crashed"}
  BY <1>1 DEF TypeInv, TypeOK, Judging, Judged, Goto
<1>4. QED
  BY <1>1, <1>2, <1>3 DEF TypeInv, TypeOK, PhaseInv, Judged, Planned, Phases,
     table_vars

(* What the two deciding tiers may write. *)
LEMMA ScreenWrites ==
  ASSUME NEW m \in Screens, NEW sim \in Prob
  PROVE  decide(Measured(m, sim), Recal, m.coverage_u, Conformal, FALSE) \in Decision
  BY MeasuredType, DecideType, ConstantFacts, RunTaskAssumption DEF ScreenType

LEMMA JudgeWrites ==
  ASSUME TypeOK, NEW b \in Branch, NEW j \in Answers
  PROVE  /\ WithJudgment(sig[b], j.sim, j.crit) \in Signals
         /\ Verdict(b, WithJudgment(sig[b], j.sim, j.crit)) \in Decision
<1>1. j.sim \in Prob /\ j.crit \in Prob
  BY AnswersType
<1>2. sig[b] \in Signals /\ ctx[b].coverage_u \in Nat
  BY DEF TypeOK
<1>3. WithJudgment(sig[b], j.sim, j.crit) \in Signals
  BY <1>1, <1>2, WithJudgmentFacts
<1>4. QED
  BY <1>2, <1>3, DecideType, ConstantFacts DEF Verdict

LEMMA NextTypeInv == TypeInv /\ [Next]_vars => TypeInv'
<1> SUFFICES ASSUME TypeInv, [Next]_vars
             PROVE  TypeInv'
  OBVIOUS
<1> USE DEF TypeInv
<1>1. CASE Plan
  BY <1>1, RunTaskAssumption DEF Plan, TypeOK, PhaseInv, Phases, Start, Proposals,
     Branch, Planned, pred_vars, table_vars, run_vars
<1>2. CASE PlannerFails
  BY <1>2, RunTaskAssumption DEF PlannerFails, TypeOK, PhaseInv, Phases, Goto,
     Planned, pred_vars, table_vars, run_vars
<1>27. CASE InsertBranch
  BY <1>27, ConstantFacts DEF InsertBranch, TypeOK, PhaseInv, Phases, Planned, Branch, pred_vars,
     run_vars
<1>28. CASE InsertEnds
  BY <1>28, ConstantFacts DEF InsertEnds, TypeOK, PhaseInv, Phases, Start, Planned, pred_vars,
     table_vars, run_vars
<1>3. CASE BudgetStops
  BY <1>3 DEF BudgetStops, TypeOK, PhaseInv, Phases, Goto, Planned, pred_vars,
     table_vars, run_vars
<1>4. CASE Raises
  BY <1>4 DEF Raises, TypeOK, PhaseInv, Phases, Goto, Planned, pred_vars,
     table_vars, run_vars
<1>5. CASE ScreenGateFails
  <2>1. PICK why \in {"UNSAFE_PATCH", "SYMBOLIC_FAIL"}, m \in Screens :
          Screened(cursor, [NoSignal EXCEPT !.c_planner = m.c_planner],
                   [score |-> NoScore, routing |-> "PRUNE", reason |-> why], NoCtx)
    BY <1>5 DEF ScreenGateFails
  <2>2. [NoSignal EXCEPT !.c_planner = m.c_planner] \in Signals
    BY NoSignalType, RunTaskAssumption DEF NoSignal, Signals, ScreenType
  <2>3. [score |-> NoScore, routing |-> "PRUNE", reason |-> why] \in Decision
    BY DEF Decision, Routing, Reasons
  <2>4. NoCtx \in [coverage_u : Nat, edits_function : BOOLEAN] /\ Screening
    BY <1>5 DEF NoCtx, ScreenGateFails
  <2>5. QED
    BY <2>1, <2>2, <2>3, <2>4, ScreenedType
<1>6. CASE ScreenBranch
  <2>1. PICK m \in Screens :
          LET optimistic == Measured(m, ScreenSim)
              d == decide(optimistic, Recal, m.coverage_u, Conformal, FALSE)
              s == IF d.routing = "PRUNE" THEN Measured(m, 0) ELSE optimistic
          IN  Screened(cursor, s, decide(s, Recal, m.coverage_u, Conformal, FALSE),
                       [coverage_u |-> m.coverage_u,
                        edits_function |-> m.edits_function])
    BY <1>6 DEF ScreenBranch
  <2>2. PICK sim \in Prob :
          Screened(cursor, Measured(m, sim),
                   decide(Measured(m, sim), Recal, m.coverage_u, Conformal, FALSE),
                   [coverage_u |-> m.coverage_u, edits_function |-> m.edits_function])
    BY <2>1, ConstantFacts
  <2>3. /\ [coverage_u |-> m.coverage_u, edits_function |-> m.edits_function]
             \in [coverage_u : Nat, edits_function : BOOLEAN]
        /\ Screening
    BY <1>6, RunTaskAssumption DEF ScreenBranch, ScreenType
  <2>4. /\ Measured(m, sim) \in Signals
        /\ decide(Measured(m, sim), Recal, m.coverage_u, Conformal, FALSE) \in Decision
    BY MeasuredType, ScreenWrites
  <2>5. QED
    BY <2>2, <2>3, <2>4, ScreenedType
<1>7. CASE ScreenEnds
  BY <1>7, ConstantFacts DEF ScreenEnds, TypeOK, PhaseInv, Phases, Start, Planned,
     pred_vars, table_vars, run_vars
<1>8. CASE CallAgents
  <2>1. tokens' \in Nat
    BY <1>8, RunTaskAssumption DEF CallAgents, TypeOK
  <2>2. QED
    BY <1>8, <2>1, ConstantFacts DEF CallAgents, TypeOK, PhaseInv, Phases, Start,
       Planned, Survivors, table_vars, run_vars
<1>9. CASE SkipPruned
  BY <1>9, ConstantFacts DEF SkipPruned, Judging, TypeOK, PhaseInv, Phases, Planned, pred_vars,
     table_vars, run_vars
<1>10. CASE JudgeBranch
  <2>1. cursor \in Branch
    BY <1>10, ConstantFacts DEF JudgeBranch, Judging, TypeOK, Branch
  <2>2. oracle_runs' \in Nat
    BY <1>10 DEF JudgeBranch, TypeOK
  <2>3. QED
    BY <1>10, <2>1, <2>2, JudgeWrites, JudgedType DEF JudgeBranch
<1>11. CASE JudgeWithOracle
  <2>1. cursor \in Branch
    BY <1>11, ConstantFacts DEF JudgeWithOracle, Judging, TypeOK, Branch
  <2>2. oracle_runs' \in Nat
    BY <1>11 DEF JudgeWithOracle, TypeOK
  <2>3. \A d \in Decision :
          [d EXCEPT !.routing = "PRUNE", !.reason = "ORACLE_CRASH"] \in Decision
    BY DEF Decision, Routing, Reasons
  <2>4. PICK s \in Signals, d \in Decision : Judged(cursor, s, d)
    BY <1>11, <2>1, <2>3, JudgeWrites DEF JudgeWithOracle
  <2>5. QED
    BY <1>11, <2>2, <2>4, JudgedType DEF JudgeWithOracle
<1>12. CASE OracleRaises
  BY <1>12 DEF OracleRaises, TypeOK, PhaseInv, Phases, Goto, Planned, pred_vars,
     table_vars
<1>13. CASE JudgeEnds
  BY <1>13, ConstantFacts DEF JudgeEnds, TypeOK, PhaseInv, Phases, Start, Planned,
     pred_vars, table_vars, run_vars
<1>14. CASE LogPrediction
  BY <1>14, ConstantFacts DEF LogPrediction, TypeOK, PhaseInv, Phases, Goto, Planned, Branch,
     pred_vars, run_vars
<1>15. CASE LogPruned
  BY <1>15, ConstantFacts DEF LogPruned, TypeOK, PhaseInv, Phases, Goto, Planned, Branch,
     pred_vars, run_vars
<1>16. CASE LogEnds
  BY <1>16 DEF LogEnds, TypeOK, PhaseInv, Phases, Goto, Planned, pred_vars,
     table_vars, run_vars
<1>17. CASE RunFinalist
  <2>1. PICK b \in Planned, passed \in BOOLEAN :
          Sandboxed(b, passed) /\ report' = [best |-> b, tests_passed |-> passed]
    BY <1>17 DEF RunFinalist
  <2>2. b \in Branch /\ b \in 0 .. K
    BY ConstantFacts DEF Planned, Branch, TypeOK
  <2>3. QED
    BY <1>17, <2>1, <2>2 DEF RunFinalist, Sandboxed, TypeOK, PhaseInv, Phases, Goto,
       Planned, pred_vars
<1>18. CASE NoFinalist
  BY <1>18 DEF NoFinalist, TypeOK, PhaseInv, Phases, Goto, Planned, pred_vars,
     table_vars, run_vars
<1>19. CASE Acquire
  <2>1. PICK b \in Planned, passed \in BOOLEAN :
          Sandboxed(b, passed) /\ Resolve(b, passed)
    BY <1>19 DEF Acquire
  <2>2. b \in Branch /\ b \in 0 .. K
    BY ConstantFacts DEF Planned, Branch, TypeOK
  <2>3. pc' \in {"acquire", "finalize"} /\ report' \in [best : 0 .. K, tests_passed : BOOLEAN]
    <3>1. pc = "acquire" /\ report \in [best : 0 .. K, tests_passed : BOOLEAN]
      BY <1>19 DEF Acquire, TypeOK
    <3>2. CASE passed
      <4>1. Resolve(b, passed)
        BY <2>1
      <4>2. report' = [best |-> b, tests_passed |-> TRUE] /\ pc' = "finalize"
        BY <3>2, <4>1, Zenon DEF Resolve, Goto
      <4>3. QED
        BY <2>2, <4>2
    <3>3. CASE ~passed
      BY <2>1, <3>1, <3>3 DEF Resolve
    <3>4. QED
      BY <3>2, <3>3
  <2>4. /\ outcomes' \subseteq [branch : Branch, tests_passed : BOOLEAN]
        /\ runs' \in Nat
    BY <2>1, <2>2 DEF Sandboxed, TypeOK
  <2>5. UNCHANGED <<n, cursor, tokens, late, sig, dec, ctx, tier, asked, branches,
                    predictions, pruned, oracle_runs>>
    BY <2>1 DEF Sandboxed, pred_vars
  <2>6. PhaseInv'
    BY <2>3 DEF PhaseInv
  <2>7. QED
    BY <2>3, <2>4, <2>5, <2>6 DEF TypeOK, Phases, Planned
<1>20. CASE AcquireEnds
  BY <1>20 DEF AcquireEnds, TypeOK, PhaseInv, Phases, Goto, Planned, pred_vars,
     table_vars, run_vars
<1>21. CASE SandboxRaises
  BY <1>21 DEF SandboxRaises, TypeOK, PhaseInv, Phases, Goto, Planned, pred_vars,
     table_vars
<1>22. CASE Finalize
  BY <1>22 DEF Finalize, TypeOK, PhaseInv, Phases, Goto, Planned, pred_vars,
     table_vars, run_vars
<1>23. CASE ClockExpires
  BY <1>23 DEF ClockExpires, TypeOK, PhaseInv, Planned, pred_vars, table_vars, run_vars
<1>24. CASE Kill
  BY <1>24 DEF Kill, TypeOK, PhaseInv, Phases, Goto, Planned, pred_vars, table_vars,
     run_vars
<1>25. CASE UNCHANGED vars
  BY <1>25 DEF vars, TypeOK, PhaseInv, Planned, pred_vars, table_vars, run_vars
<1>26. QED
  BY <1>1, <1>2, <1>3, <1>4, <1>5, <1>6, <1>7, <1>8, <1>9, <1>10, <1>11, <1>12,
     <1>13, <1>14, <1>15, <1>16, <1>17, <1>18, <1>19, <1>20, <1>21, <1>22, <1>23,
     <1>24, <1>25, <1>27, <1>28 DEF Next, Step

(* Every variable keeps its type: no branch outside the planner's list is    *)
(* ever screened, judged, logged or run.                                     *)
THEOREM TypeCorrect == Spec => []TypeOK
<1>1. Init => TypeInv
  BY InitTypeInv
<1>2. TypeInv /\ [Next]_vars => TypeInv'
  BY NextTypeInv
<1>3. TypeInv => TypeOK
  BY DEF TypeInv
<1>4. QED
  BY <1>1, <1>2, <1>3, PTL DEF Spec

-----------------------------------------------------------------------------
(* Only the two deciding tiers touch the predictions. *)
LEMMA OnlyTiersDecide ==
  ASSUME [Next]_vars
  PROVE  \/ UNCHANGED <<sig, dec, ctx, tier>>
         \/ ScreenGateFails \/ ScreenBranch \/ JudgeBranch \/ JudgeWithOracle
<1>1. CASE Plan
  BY <1>1 DEF Plan, pred_vars
<1>2. CASE PlannerFails
  BY <1>2 DEF PlannerFails, pred_vars
<1>23. CASE InsertBranch
  BY <1>23 DEF InsertBranch, pred_vars
<1>24. CASE InsertEnds
  BY <1>24 DEF InsertEnds, pred_vars
<1>3. CASE BudgetStops
  BY <1>3 DEF BudgetStops, pred_vars
<1>4. CASE Raises
  BY <1>4 DEF Raises, pred_vars
<1>5. CASE ScreenEnds
  BY <1>5 DEF ScreenEnds, pred_vars
<1>6. CASE CallAgents
  BY <1>6 DEF CallAgents, pred_vars
<1>7. CASE SkipPruned
  BY <1>7 DEF SkipPruned, pred_vars
<1>8. CASE OracleRaises
  BY <1>8 DEF OracleRaises, pred_vars
<1>9. CASE JudgeEnds
  BY <1>9 DEF JudgeEnds, pred_vars
<1>10. CASE LogPrediction
  BY <1>10 DEF LogPrediction, pred_vars
<1>11. CASE LogPruned
  BY <1>11 DEF LogPruned, pred_vars
<1>12. CASE LogEnds
  BY <1>12 DEF LogEnds, pred_vars
<1>13. CASE RunFinalist
  BY <1>13 DEF RunFinalist, pred_vars, Sandboxed
<1>14. CASE NoFinalist
  BY <1>14 DEF NoFinalist, pred_vars
<1>15. CASE Acquire
  BY <1>15 DEF Acquire, pred_vars, Sandboxed
<1>16. CASE AcquireEnds
  BY <1>16 DEF AcquireEnds, pred_vars
<1>17. CASE SandboxRaises
  BY <1>17 DEF SandboxRaises, pred_vars
<1>18. CASE Finalize
  BY <1>18 DEF Finalize, pred_vars
<1>19. CASE ClockExpires
  BY <1>19 DEF ClockExpires, pred_vars
<1>20. CASE Kill
  BY <1>20 DEF Kill, pred_vars
<1>21. CASE UNCHANGED vars
  BY <1>21 DEF vars, pred_vars
<1>22. QED
  BY <1>1, <1>2, <1>3, <1>4, <1>5, <1>6, <1>7, <1>8, <1>9, <1>10, <1>11, <1>12, <1>13,
     <1>14, <1>15, <1>16, <1>17, <1>18, <1>19, <1>20, <1>21, <1>23, <1>24 DEF Next, Step

(* A branch pruned for its score: it compiled, no uncertainty was above      *)
(* u_max and, when it was the screen that pruned it, the best judgment would *)
(* have pruned it too.                                                       *)
PrunedForScore(s, d, cov, t) ==
  d.reason = "LOW_SCORE" =>
    /\ ~(EffectiveU(s.u, cov) > UMax)
    /\ t = 1 => decide(WithJudgment(s, One, 0), Recal, cov, Conformal, FALSE).reason
                  = "LOW_SCORE"

PruneInv == \A b \in Branch : PrunedForScore(sig[b], dec[b], ctx[b].coverage_u, tier[b])

(* LowScoreMeans and ScreenSound for the calibration the orchestrator holds. *)
LEMMA LowScoreIsCertain ==
  ASSUME NEW s \in Signals, NEW cov \in Nat, NEW e \in BOOLEAN,
         decide(s, Recal, cov, Conformal, e).reason = "LOW_SCORE"
  PROVE  s.p_c # 0 /\ ~(EffectiveU(s.u, cov) > UMax)
  BY ConstantFacts, LowScoreMeans

LEMMA BestJudgmentIsBest ==
  ASSUME NEW s \in Signals, NEW cov \in Nat, NEW sim \in Prob, NEW crit \in Prob,
         NEW e1 \in BOOLEAN, NEW e2 \in BOOLEAN,
         decide(WithJudgment(s, One, 0), Recal, cov, Conformal, e1).reason = "LOW_SCORE"
  PROVE  decide(WithJudgment(s, sim, crit), Recal, cov, Conformal, e2).reason = "LOW_SCORE"
  BY ConstantFacts, ScreenSound

(* Recording the prune at no-sim forgets nothing: filling the best judgment  *)
(* back in gives the optimistic signals again.                               *)
LEMMA RescreenIsOptimistic ==
  ASSUME NEW m \in Screens
  PROVE  WithJudgment(Measured(m, 0), One, 0) = Measured(m, One)
<1>1. Measured(m, 0) \in Signals /\ Measured(m, One) \in Signals
  BY MeasuredType, ConstantFacts
<1>2. m.latent \in Prob
  BY RunTaskAssumption DEF ScreenType
<1> DEFINE t == WithJudgment(Measured(m, 0), One, 0)
<1>3. /\ t \in Signals /\ t.p_t = aggregate_p_t(Measured(m, 0).p_t_latent, One)
      /\ t.r_critic = 0 /\ t.p_t_sim = One
      /\ t.p_c = Measured(m, 0).p_c /\ t.u = Measured(m, 0).u
      /\ t.u_aleatoric = Measured(m, 0).u_aleatoric
      /\ t.r_long = Measured(m, 0).r_long /\ t.c_planner = Measured(m, 0).c_planner
      /\ t.p_t_latent = Measured(m, 0).p_t_latent
  BY <1>1, ConstantFacts, WithJudgmentFacts
<1> HIDE DEF t
<1>4. /\ t.p_c = Measured(m, One).p_c /\ t.p_t_sim = Measured(m, One).p_t_sim
      /\ t.p_t_latent = Measured(m, One).p_t_latent /\ t.p_t = Measured(m, One).p_t
      /\ t.u = Measured(m, One).u /\ t.u_aleatoric = Measured(m, One).u_aleatoric
      /\ t.r_critic = Measured(m, One).r_critic /\ t.r_long = Measured(m, One).r_long
      /\ t.c_planner = Measured(m, One).c_planner
  BY <1>3 DEF Measured
<1>5. t = Measured(m, One)
  BY <1>1, <1>3, <1>4 DEF Signals
<1>6. QED
  BY <1>5 DEF t

LEMMA ScreenPrunes ==
  ASSUME NEW m \in Screens,
         NEW s, s = IF decide(Measured(m, ScreenSim), Recal, m.coverage_u, Conformal,
                              FALSE).routing = "PRUNE"
                      THEN Measured(m, 0) ELSE Measured(m, ScreenSim)
  PROVE  PrunedForScore(s, decide(s, Recal, m.coverage_u, Conformal, FALSE),
                        m.coverage_u, 1)
<1> DEFINE D(x) == decide(x, Recal, m.coverage_u, Conformal, FALSE)
           d == D(Measured(m, ScreenSim))
<1>1. /\ Measured(m, 0) \in Signals /\ Measured(m, One) \in Signals
      /\ m.coverage_u \in Nat
  BY MeasuredType, ConstantFacts, RunTaskAssumption DEF ScreenType
<1>2. s \in Signals
  BY <1>1 DEF ScreenSim
<1>3. SUFFICES ASSUME D(s).reason = "LOW_SCORE"
               PROVE  /\ ~(EffectiveU(s.u, m.coverage_u) > UMax)
                      /\ D(WithJudgment(s, One, 0)).reason = "LOW_SCORE"
  BY DEF PrunedForScore
<1>4. s.p_c # 0 /\ ~(EffectiveU(s.u, m.coverage_u) > UMax)
  BY <1>1, <1>2, <1>3, ConstantFacts, LowScoreIsCertain, Zenon
<1>5. CASE d.routing = "PRUNE"
  <2>1. s = Measured(m, 0) /\ d = D(Measured(m, One))
    BY <1>5 DEF ScreenSim
  <2>2. Measured(m, One).p_c # 0
    BY <1>4, <2>1 DEF Measured
  <2>3. d.reason = "LOW_SCORE"
    BY <1>5, <2>1, <2>2 DEF decide
  <2>4. WithJudgment(s, One, 0) = Measured(m, One)
    BY <2>1, RescreenIsOptimistic
  <2>5. QED
    BY <1>4, <2>1, <2>3, <2>4
<1>6. CASE d.routing # "PRUNE"
  <2>1. s = Measured(m, ScreenSim) /\ D(s) = d
    BY <1>6
  <2>2. d.reason # "LOW_SCORE"
    BY <1>6, <2>1 DEF decide
  <2>3. QED
    BY <1>3, <2>1, <2>2
<1>7. QED
  BY <1>5, <1>6

LEMMA InitPruneInv == Init => PruneInv
  BY DEF Init, PruneInv, PrunedForScore, Unrouted

LEMMA NextPruneInv == TypeInv /\ PruneInv /\ [Next]_vars => PruneInv'
<1> SUFFICES ASSUME TypeInv, PruneInv, [Next]_vars
             PROVE  PruneInv'
  OBVIOUS
<1>1. CASE UNCHANGED <<sig, dec, ctx, tier>>
  BY <1>1 DEF PruneInv
<1>2. ASSUME NEW s, NEW d, NEW x, NEW t, cursor \in Branch,
             sig' = [sig EXCEPT ![cursor] = s], dec' = [dec EXCEPT ![cursor] = d],
             ctx' = [ctx EXCEPT ![cursor] = x], tier' = [tier EXCEPT ![cursor] = t],
             PrunedForScore(s, d, x.coverage_u, t)
      PROVE  PruneInv'
  <2>1. /\ sig'[cursor] = s /\ dec'[cursor] = d /\ ctx'[cursor] = x /\ tier'[cursor] = t
        /\ \A b \in Branch \ {cursor} : /\ sig'[b] = sig[b] /\ dec'[b] = dec[b]
                                        /\ ctx'[b] = ctx[b] /\ tier'[b] = tier[b]
    BY <1>2 DEF TypeInv, TypeOK
  <2>2. \A b \in Branch :
          PrunedForScore(sig'[b], dec'[b], ctx'[b].coverage_u, tier'[b])
    BY <1>2, <2>1 DEF PruneInv
  <2>3. QED
    BY <2>2 DEF PruneInv
<1>3. CASE ScreenGateFails
  <2>1. PICK why \in {"UNSAFE_PATCH", "SYMBOLIC_FAIL"}, m \in Screens :
          Screened(cursor, [NoSignal EXCEPT !.c_planner = m.c_planner],
                   [score |-> NoScore, routing |-> "PRUNE", reason |-> why], NoCtx)
    BY <1>3 DEF ScreenGateFails
  <2>2. cursor \in Branch
    BY <1>3, ConstantFacts DEF ScreenGateFails, Screening, TypeInv, TypeOK, Branch
  <2>3. \A s, c : PrunedForScore(s, [score |-> NoScore, routing |-> "PRUNE", reason |-> why], c, 1)
    BY DEF PrunedForScore
  <2> DEFINE s == [NoSignal EXCEPT !.c_planner = m.c_planner]
             d == [score |-> NoScore, routing |-> "PRUNE", reason |-> why]
  <2>4. /\ sig' = [sig EXCEPT ![cursor] = s] /\ dec' = [dec EXCEPT ![cursor] = d]
        /\ ctx' = [ctx EXCEPT ![cursor] = NoCtx] /\ tier' = [tier EXCEPT ![cursor] = 1]
        /\ PrunedForScore(s, d, NoCtx.coverage_u, 1)
    BY <2>1, <2>3, Zenon DEF Screened
  <2> HIDE DEF s, d
  <2>5. QED
    BY <1>2, <2>2, <2>4, Zenon
<1>4. CASE ScreenBranch
  <2>1. PICK m \in Screens :
          LET optimistic == Measured(m, ScreenSim)
              d == decide(optimistic, Recal, m.coverage_u, Conformal, FALSE)
              s == IF d.routing = "PRUNE" THEN Measured(m, 0) ELSE optimistic
          IN  Screened(cursor, s, decide(s, Recal, m.coverage_u, Conformal, FALSE),
                       [coverage_u |-> m.coverage_u,
                        edits_function |-> m.edits_function])
    BY <1>4 DEF ScreenBranch
  <2> DEFINE first == decide(Measured(m, ScreenSim), Recal, m.coverage_u, Conformal, FALSE)
             s == IF first.routing = "PRUNE" THEN Measured(m, 0) ELSE Measured(m, ScreenSim)
             d == decide(s, Recal, m.coverage_u, Conformal, FALSE)
             x == [coverage_u |-> m.coverage_u, edits_function |-> m.edits_function]
  <2>2. Screened(cursor, s, d, x)
    BY <2>1
  <2>3. PrunedForScore(s, d, m.coverage_u, 1) /\ x.coverage_u = m.coverage_u
    BY ScreenPrunes
  <2>4. cursor \in Branch
    BY <1>4, ConstantFacts DEF ScreenBranch, Screening, TypeInv, TypeOK, Branch
  <2> HIDE DEF first, s, d
  <2>5. /\ sig' = [sig EXCEPT ![cursor] = s] /\ dec' = [dec EXCEPT ![cursor] = d]
        /\ ctx' = [ctx EXCEPT ![cursor] = x] /\ tier' = [tier EXCEPT ![cursor] = 1]
    BY <2>2, Zenon DEF Screened
  <2>6. PrunedForScore(s, d, x.coverage_u, 1)
    BY <2>3
  <2> HIDE DEF x
  <2>7. QED
    BY <1>2, <2>4, <2>5, <2>6, Zenon
<1>5. ASSUME NEW j \in Answers, NEW d, cursor \in Branch,
             NEW s, s = WithJudgment(sig[cursor], j.sim, j.crit),
             d = Verdict(cursor, s) \/ d.reason = "ORACLE_CRASH",
             Judged(cursor, s, d)
      PROVE  PruneInv'
  <2>1. s \in Signals /\ ctx[cursor].coverage_u \in Nat
    BY <1>5, JudgeWrites DEF TypeInv, TypeOK
  <2>2. PrunedForScore(s, d, ctx[cursor].coverage_u, 2)
    <3>1. SUFFICES ASSUME d.reason = "LOW_SCORE"
                   PROVE  ~(EffectiveU(s.u, ctx[cursor].coverage_u) > UMax)
      BY DEF PrunedForScore
    <3>2. decide(s, Recal, ctx[cursor].coverage_u, Conformal, TRUE).reason = "LOW_SCORE"
      BY <1>5, <3>1 DEF Verdict
    <3>3. QED
      BY <2>1, <3>2, LowScoreIsCertain, ConstantFacts, Zenon
  <2>3. ctx' = [ctx EXCEPT ![cursor] = ctx[cursor]]
    BY <1>5 DEF Judged, TypeInv, TypeOK
  <2>4. /\ sig' = [sig EXCEPT ![cursor] = s] /\ dec' = [dec EXCEPT ![cursor] = d]
        /\ tier' = [tier EXCEPT ![cursor] = 2]
    BY <1>5, Zenon DEF Judged
  <2>5. QED
    BY <1>2, <1>5, <2>2, <2>3, <2>4, Zenon
<1>6. CASE JudgeBranch
  <2>1. cursor \in Branch
    BY <1>6, ConstantFacts DEF JudgeBranch, Judging, TypeInv, TypeOK, Branch
  <2>2. QED
    BY <1>5, <1>6, <2>1 DEF JudgeBranch
<1>7. CASE JudgeWithOracle
  <2>1. cursor \in Branch
    BY <1>7, ConstantFacts DEF JudgeWithOracle, Judging, TypeInv, TypeOK, Branch
  <2>2. PICK j \in Answers, crash \in BOOLEAN :
          Judged(cursor, WithJudgment(sig[cursor], j.sim, j.crit),
            IF crash THEN [Verdict(cursor, WithJudgment(sig[cursor], j.sim, j.crit))
                             EXCEPT !.routing = "PRUNE", !.reason = "ORACLE_CRASH"]
            ELSE Verdict(cursor, WithJudgment(sig[cursor], j.sim, j.crit)))
    BY <1>7 DEF JudgeWithOracle
  <2>3. \A v \in Decision : [v EXCEPT !.routing = "PRUNE", !.reason = "ORACLE_CRASH"].reason
                             = "ORACLE_CRASH"
    BY DEF Decision
  <2>4. Verdict(cursor, WithJudgment(sig[cursor], j.sim, j.crit)) \in Decision
    BY <2>1, JudgeWrites DEF TypeInv
  <2>5. CASE crash
    BY <1>5, <2>1, <2>2, <2>3, <2>4, <2>5
  <2>6. CASE ~crash
    BY <1>5, <2>1, <2>2, <2>6
  <2>7. QED
    BY <2>5, <2>6
<1>8. QED
  BY <1>1, <1>3, <1>4, <1>6, <1>7, OnlyTiersDecide

LEMMA PruneInvariant == Spec => [](TypeInv /\ PruneInv)
<1>1. Init => TypeInv /\ PruneInv
  BY InitTypeInv, InitPruneInv
<1>2. TypeInv /\ PruneInv /\ [Next]_vars => TypeInv' /\ PruneInv'
  BY NextTypeInv, NextPruneInv
<1>3. QED
  BY <1>1, <1>2, PTL DEF Spec

(* Tier 1 costs no recall, whatever the model, the calibration and the       *)
(* weights: no judgment could have saved a branch the screen dropped for its *)
(* score.                                                                    *)
THEOREM ScreenCostsNoRecall == Spec => []ScreenLosesNothing
<1>1. TypeInv /\ PruneInv => ScreenLosesNothing
  <2> SUFFICES ASSUME TypeInv, PruneInv, NEW b \in Planned, NEW j \in Answers,
                      tier[b] = 1, dec[b].reason = "LOW_SCORE"
               PROVE  Verdict(b, WithJudgment(sig[b], j.sim, j.crit)).reason = "LOW_SCORE"
    BY DEF ScreenLosesNothing
  <2>1. b \in Branch
    BY ConstantFacts DEF Planned, Branch, TypeInv, TypeOK
  <2>2. /\ sig[b] \in Signals /\ ctx[b].coverage_u \in Nat
        /\ j.sim \in Prob /\ j.crit \in Prob
    BY <2>1, AnswersType DEF TypeInv, TypeOK
  <2>3. decide(WithJudgment(sig[b], One, 0), Recal, ctx[b].coverage_u, Conformal,
               FALSE).reason = "LOW_SCORE"
    BY <2>1 DEF PruneInv, PrunedForScore
  <2>4. decide(WithJudgment(sig[b], j.sim, j.crit), Recal, ctx[b].coverage_u, Conformal,
               TRUE).reason = "LOW_SCORE"
    <3>1. \A e \in BOOLEAN :
            decide(WithJudgment(sig[b], j.sim, j.crit), Recal, ctx[b].coverage_u,
                   Conformal, e).reason = "LOW_SCORE"
      <4>1. FALSE \in BOOLEAN
        OBVIOUS
      <4> TAKE e \in BOOLEAN
      <4>2. QED
        BY <2>2, <2>3, <4>1, BestJudgmentIsBest, Zenon
    <3>2. QED
      BY <3>1
  <2>5. QED
    BY <2>4 DEF Verdict
<1>2. QED
  BY <1>1, PruneInvariant, PTL

(* A row of the pruned reservoir that was pruned for its score was certain:  *)
(* neither the model's uncertainty nor the coverage's was above u_max.       *)
THEOREM UncertaintyIsNeverPruned == Spec => []NeverPrunedOnUncertainty
<1>1. TypeInv /\ PruneInv => NeverPrunedOnUncertainty
  <2> SUFFICES ASSUME TypeInv, PruneInv, NEW b \in pruned, dec[b].reason = "LOW_SCORE"
               PROVE  sig[b].u <= UMax /\ ctx[b].coverage_u <= UMax
    BY DEF NeverPrunedOnUncertainty
  <2>1. b \in Branch
    BY DEF TypeInv, TypeOK
  <2>2. sig[b].u \in Nat /\ ctx[b].coverage_u \in Nat /\ UMax \in Nat
    BY <2>1, ConstantsAssumption DEF TypeInv, TypeOK, Signals
  <2>3. ~(EffectiveU(sig[b].u, ctx[b].coverage_u) > UMax)
    BY <2>1 DEF PruneInv, PrunedForScore
  <2>4. /\ EffectiveU(sig[b].u, ctx[b].coverage_u) \in Nat
        /\ EffectiveU(sig[b].u, ctx[b].coverage_u) >= sig[b].u
        /\ EffectiveU(sig[b].u, ctx[b].coverage_u) >= ctx[b].coverage_u
    BY <2>2, EffectiveUType
  <2>5. QED
    BY <2>2, <2>3, <2>4
<1>2. QED
  BY <1>1, PruneInvariant, PTL

-----------------------------------------------------------------------------
(* The branches are finitely many, and one of the list is a branch. *)
LEMMA PlannedFacts ==
  ASSUME TypeOK
  PROVE  /\ n \in 0 .. K /\ Planned \subseteq Branch
         /\ IsFiniteSet(Branch) /\ Ran \subseteq Branch /\ IsFiniteSet(Ran)
         /\ \A b \in Planned : b \in 1 .. n /\ b \in Int
<1>1. n \in 0 .. K /\ Planned \subseteq Branch
  BY ConstantFacts DEF TypeOK, Planned, Branch
<1>2. IsFiniteSet(Branch)
  BY ConstantFacts, FS_Interval DEF Branch
<1>3. Ran \subseteq Branch
  BY DEF TypeOK, Ran
<1>4. IsFiniteSet(Ran)
  BY <1>2, <1>3, FS_Subset
<1>5. QED
  BY <1>1, <1>2, <1>3, <1>4 DEF Planned

(* What the two deciding tiers write, whichever way they come to it. *)
LEMMA ScreenDecides ==
  ASSUME TypeInv, ScreenGateFails \/ ScreenBranch
  PROVE  Screening /\ \E s, x : \E d \in Decision : Screened(cursor, s, d, x)
<1>1. CASE ScreenGateFails
  <2>1. PICK why \in {"UNSAFE_PATCH", "SYMBOLIC_FAIL"}, m \in Screens :
          Screened(cursor, [NoSignal EXCEPT !.c_planner = m.c_planner],
                   [score |-> NoScore, routing |-> "PRUNE", reason |-> why], NoCtx)
    BY <1>1 DEF ScreenGateFails
  <2>2. [score |-> NoScore, routing |-> "PRUNE", reason |-> why] \in Decision
    BY DEF Decision, Routing, Reasons
  <2>3. Screening
    BY <1>1 DEF ScreenGateFails
  <2>4. QED
    BY <2>1, <2>2, <2>3
<1>2. CASE ScreenBranch
  <2>1. PICK m \in Screens :
          LET optimistic == Measured(m, ScreenSim)
              d == decide(optimistic, Recal, m.coverage_u, Conformal, FALSE)
              s == IF d.routing = "PRUNE" THEN Measured(m, 0) ELSE optimistic
          IN  Screened(cursor, s, decide(s, Recal, m.coverage_u, Conformal, FALSE),
                       [coverage_u |-> m.coverage_u,
                        edits_function |-> m.edits_function])
    BY <1>2 DEF ScreenBranch
  <2>2. PICK sim \in Prob :
          Screened(cursor, Measured(m, sim),
                   decide(Measured(m, sim), Recal, m.coverage_u, Conformal, FALSE),
                   [coverage_u |-> m.coverage_u, edits_function |-> m.edits_function])
    BY <2>1, ConstantFacts
  <2>3. decide(Measured(m, sim), Recal, m.coverage_u, Conformal, FALSE) \in Decision
    BY ScreenWrites
  <2>4. Screening
    BY <1>2 DEF ScreenBranch
  <2>5. QED
    BY <2>2, <2>3, <2>4
<1>3. QED
  BY <1>1, <1>2

(* And of the judging tier, with the oracle or without it. *)
LEMMA JudgeDecides ==
  ASSUME TypeInv, JudgeBranch \/ JudgeWithOracle
  PROVE  Judging /\ cursor \in asked /\ \E s : \E d \in Decision : Judged(cursor, s, d)
<1>1. Judging /\ cursor \in asked
  BY DEF JudgeBranch, JudgeWithOracle
<1>2. cursor \in Branch
  BY <1>1, ConstantFacts DEF Judging, TypeInv, TypeOK, Branch
<1>3. CASE JudgeBranch
  BY <1>1, <1>2, <1>3, JudgeWrites DEF JudgeBranch, TypeInv
<1>4. CASE JudgeWithOracle
  <2>1. \A d \in Decision :
          [d EXCEPT !.routing = "PRUNE", !.reason = "ORACLE_CRASH"] \in Decision
    BY DEF Decision, Routing, Reasons
  <2>2. PICK j \in Answers, crash \in BOOLEAN :
          Judged(cursor, WithJudgment(sig[cursor], j.sim, j.crit),
            IF crash THEN [Verdict(cursor, WithJudgment(sig[cursor], j.sim, j.crit))
                             EXCEPT !.routing = "PRUNE", !.reason = "ORACLE_CRASH"]
            ELSE Verdict(cursor, WithJudgment(sig[cursor], j.sim, j.crit)))
    BY <1>4 DEF JudgeWithOracle
  <2>3. Verdict(cursor, WithJudgment(sig[cursor], j.sim, j.crit)) \in Decision
    BY <1>2, JudgeWrites DEF TypeInv
  <2>4. QED
    BY <1>1, <2>1, <2>2, <2>3
<1>5. QED
  BY <1>3, <1>4

(* The branch of an outcome that is written has been run. *)
LEMMA OneOutcome ==
  ASSUME NEW b, NEW passed, Sandboxed(b, passed)
  PROVE  Ran' = Ran \cup {b}
<1> DEFINE r == [branch |-> b, tests_passed |-> passed]
<1>1. outcomes' = outcomes \cup {r} /\ r.branch = b
  BY DEF Sandboxed
<1> HIDE DEF r
<1>2. \A x : x \in Ran' <=> x \in Ran \/ x = b
  BY <1>1 DEF Ran
<1>3. QED
  BY <1>2

-----------------------------------------------------------------------------
(* Before anything is run; before anything is logged. *)
Unspent == {"plan", "insert", "screen", "llm", "judge", "log", "log_pruned", "finalist"}
Unlogged == {"plan", "insert", "screen", "llm", "judge"}

(* The tables, phase by phase.  Nothing is logged while branches are decided,*)
(* the loop of the log has logged what is below its cursor, and the          *)
(* reservoir lacks no prune but the one whose row is being written.          *)
Dropped  == {b \in predictions : dec[b].routing = "PRUNE"}

TableInv ==
  /\ predictions \subseteq branches /\ Ran \subseteq predictions
  /\ pc \notin {"insert", "crashed", "killed"} => branches = Planned
  /\ pc = "insert" => branches = {b \in Planned : b < cursor}
  /\ pc \in Unlogged => predictions = {} /\ pruned = {}
  /\ pc = "log" => predictions = {b \in Planned : b < cursor} /\ pruned = Dropped
  /\ pc = "log_pruned" =>
       /\ predictions = {b \in Planned : b <= cursor} /\ Reservoired(cursor)
       /\ pruned = Dropped \ {cursor}
  /\ pc \in Logged \cup {"aborted", "crashed"} =>
       predictions \in {{}, Planned} /\ pruned = Dropped
  /\ pc \in {"finalist", "acquire"} => predictions = Planned
  /\ predictions \subseteq Planned /\ pruned \subseteq Dropped
  /\ Dropped \ pruned \subseteq {cursor}

(* The report, against the outcomes.  As long as evidence is bought no branch *)
(* is named, hence none has passed.                                          *)
ReportInv ==
  /\ report.best # 0 =>
       [branch |-> report.best, tests_passed |-> report.tests_passed] \in outcomes
  /\ (\E o \in outcomes : o.tests_passed) <=> report.best # 0 /\ report.tests_passed
  /\ pc \in Unspent \cup {"acquire"} => report.best = 0

(* The tables after a step that writes none of them. *)
LEMMA QuietTables ==
  ASSUME TypeOK, TableInv, UNCHANGED <<n, dec, table_vars>>,
         \/ cursor' = cursor /\ (pc' = pc \/ pc' = "killed")
         \/ /\ pc \in Unlogged /\ pc' \in {"screen", "llm", "judge", "aborted", "crashed", "finalize"}
            /\ pc = "insert" => pc' = "crashed" \/ cursor > n
         \/ pc \in Unlogged \ {"insert"} /\ pc' = "log" /\ cursor' = 1
         \/ pc \in Logged /\ pc' \in {"aborted", "crashed", "finalize", "done"}
         \/ pc = "finalist" /\ pc' = "acquire"
         \/ pc = "log" /\ pc' = "finalist" /\ cursor > n
  PROVE  TableInv'
<1>1. Planned' = Planned /\ Dropped' = Dropped /\ Ran' = Ran
  BY DEF Planned, Dropped, Ran, table_vars
<1>2. UNCHANGED <<branches, predictions, pruned>>
  BY DEF table_vars
<1>3. pc \in Unlogged => Dropped = {} /\ predictions = {} /\ pruned = {}
  BY DEF TableInv, Dropped
<1>4. \A b \in Planned : b \in 1 .. n
  BY DEF Planned
<1>5. CASE cursor' = cursor /\ (pc' = pc \/ pc' = "killed")
  BY <1>1, <1>2, <1>5 DEF TableInv, Logged, Unlogged, Reservoired
<1>6. CASE /\ pc \in Unlogged /\ pc' \in {"screen", "llm", "judge", "aborted", "crashed", "finalize"}
           /\ pc = "insert" => pc' = "crashed" \/ cursor > n
  <2>1. CASE pc = "insert" /\ cursor > n
    <3>1. {b \in Planned : b < cursor} = Planned
      BY <1>4, <2>1 DEF TypeOK
    <3>2. branches' = Planned'
      BY <1>1, <1>2, <2>1, <3>1 DEF TableInv
    <3>3. QED
      BY <1>1, <1>2, <1>3, <1>6, <3>2 DEF TableInv, Logged, Unlogged
  <2>2. CASE pc = "insert" /\ pc' = "crashed"
    BY <1>1, <1>2, <1>3, <1>6, <2>2 DEF TableInv, Logged, Unlogged
  <2>3. CASE pc # "insert"
    BY <1>1, <1>2, <1>3, <1>6, <2>3 DEF TableInv, Logged, Unlogged
  <2>4. QED
    BY <1>6, <2>1, <2>2, <2>3
<1>7. CASE pc \in Unlogged \ {"insert"} /\ pc' = "log" /\ cursor' = 1
  <2>1. {b \in Planned : b < 1} = {}
    BY <1>4
  <2>2. QED
    BY <1>1, <1>2, <1>3, <1>7, <2>1 DEF TableInv, Logged, Unlogged
<1>8. CASE \/ pc \in Logged /\ pc' \in {"aborted", "crashed", "finalize", "done"}
           \/ pc = "finalist" /\ pc' = "acquire"
  BY <1>1, <1>2, <1>8 DEF TableInv, Logged, Unlogged
<1>9. CASE pc = "log" /\ pc' = "finalist" /\ cursor > n
  <2>1. {b \in Planned : b < cursor} = Planned
    BY <1>4, <1>9 DEF TypeOK
  <2>2. QED
    BY <1>1, <1>2, <1>9, <2>1 DEF TableInv, Logged, Unlogged
<1>10. QED
  BY <1>5, <1>6, <1>7, <1>8, <1>9

(* A tier decides before anything is logged. *)
LEMMA TiersTables ==
  ASSUME TableInv, UNCHANGED <<n, table_vars>>, pc \in {"screen", "judge"},
         pc' \in {"screen", "judge", "crashed"}
  PROVE  TableInv'
<1>1. Planned' = Planned /\ Ran' = Ran
  BY DEF Planned, Ran, table_vars
<1>2. /\ predictions' = {} /\ pruned' = {} /\ branches' = branches
      /\ predictions = {}
  BY DEF table_vars, TableInv, Unlogged
<1>3. Dropped' = {}
  BY <1>2 DEF Dropped
<1>4. QED
  BY <1>1, <1>2, <1>3 DEF TableInv, Logged, Unlogged

LEMMA LogPredictionTables ==
  ASSUME TypeInv, TableInv, LogPrediction
  PROVE  TableInv'
<1>1. /\ cursor \in Planned /\ pc = "log" /\ UNCHANGED <<n, dec, branches, pruned, outcomes>>
      /\ predictions' = predictions \cup {cursor}
  BY DEF LogPrediction, TypeInv, TypeOK, Planned, pred_vars
<1>2. Planned' = Planned /\ Ran' = Ran
  BY <1>1 DEF Planned, Ran
<1>3. predictions = {b \in Planned : b < cursor} /\ pruned = Dropped
  BY <1>1 DEF TableInv
<1>4. predictions' = {b \in Planned : b <= cursor}
  BY <1>1, <1>3 DEF TypeInv, TypeOK, Planned
<1>5. cursor \notin Dropped
  BY <1>1, <1>3 DEF Dropped, TypeInv, TypeOK
<1>6. CASE Reservoired(cursor)
  <2>1. pc' = "log_pruned" /\ cursor' = cursor
    BY <1>6 DEF LogPrediction, Goto
  <2>2. Dropped' = Dropped \cup {cursor} /\ Reservoired(cursor)'
    BY <1>1, <1>6, <2>1 DEF Dropped, Reservoired
  <2>3. QED
    BY <1>1, <1>2, <1>3, <1>4, <1>5, <2>1, <2>2 DEF TableInv, Logged, Unlogged
<1>7. CASE ~Reservoired(cursor)
  <2>1. pc' = "log" /\ cursor' = cursor + 1
    BY <1>1, <1>7 DEF LogPrediction
  <2>2. Dropped' = Dropped
    BY <1>1, <1>7 DEF Dropped, Reservoired
  <2>3. predictions' = {b \in Planned' : b < cursor'}
    <3>1. \A b \in Planned : b <= cursor <=> b < cursor + 1
      BY DEF TypeInv, TypeOK, Planned
    <3>2. QED
      BY <1>2, <1>4, <2>1, <3>1
  <2>4. QED
    BY <1>1, <1>2, <1>3, <2>1, <2>2, <2>3 DEF TableInv, Logged, Unlogged
<1>8. QED
  BY <1>6, <1>7

LEMMA LogPrunedTables ==
  ASSUME TypeInv, TableInv, LogPruned
  PROVE  TableInv'
<1>1. /\ pc = "log_pruned" /\ pc' = "log" /\ cursor' = cursor + 1
      /\ UNCHANGED <<n, dec, branches, predictions, outcomes>>
      /\ pruned' = pruned \cup {cursor}
  BY DEF LogPruned, Goto, pred_vars
<1>2. cursor \in Planned
  BY <1>1 DEF TypeInv, TypeOK, PhaseInv, Planned
<1>3. Planned' = Planned /\ Ran' = Ran /\ Dropped' = Dropped
  BY <1>1 DEF Planned, Ran, Dropped
<1>4. cursor \in Dropped
  BY <1>1, <1>2 DEF TableInv, Dropped, Reservoired, TypeInv, TypeOK
<1>5. pruned' = Dropped
  BY <1>1, <1>4 DEF TableInv
<1>6. predictions' = {b \in Planned' : b < cursor'}
  BY <1>1, <1>3 DEF TableInv, TypeInv, TypeOK, Planned
<1>7. QED
  BY <1>1, <1>3, <1>5, <1>6 DEF TableInv, Logged, Unlogged

(* An outcome is written of a branch whose prediction is logged. *)
LEMMA SandboxedTables ==
  ASSUME TableInv, NEW b \in Planned, NEW passed, Sandboxed(b, passed),
         pc \in {"finalist", "acquire"}, pc' \in {"acquire", "finalize"}
  PROVE  TableInv'
<1>1. UNCHANGED <<n, cursor, dec, branches, predictions, pruned>>
  BY DEF Sandboxed, pred_vars
<1>2. Planned' = Planned /\ Dropped' = Dropped
  BY <1>1 DEF Planned, Dropped
<1>3. Ran' = Ran \cup {b} /\ b \in predictions
  BY OneOutcome DEF TableInv
<1>4. QED
  BY <1>1, <1>2, <1>3 DEF TableInv, Logged, Unlogged

LEMMA TablesNext ==
  ASSUME TypeInv, TableInv, [Next]_vars
  PROVE  TableInv'
<1> USE DEF TypeInv
<1>1. CASE Plan
  <2>1. /\ pc = "plan" /\ pc' = "insert" /\ cursor' = 1
        /\ UNCHANGED <<branches, predictions, pruned, outcomes>>
    BY <1>1 DEF Plan, Start, table_vars
  <2>2. predictions' = {} /\ pruned' = {} /\ Ran' = Ran /\ Ran = {}
    BY <2>1 DEF TableInv, Unlogged, Ran
  <2>3. Dropped' = {}
    BY <2>2 DEF Dropped
  <2>4. branches = {} /\ {b \in Planned' : b < 1} = {}
    BY <2>1 DEF TableInv, PhaseInv, Planned
  <2>5. QED
    BY <2>1, <2>2, <2>3, <2>4 DEF TableInv, Logged, Unlogged
<1>13. CASE InsertBranch
  <2>1. /\ pc = "insert" /\ pc' = pc /\ cursor <= n /\ cursor' = cursor + 1
        /\ branches' = branches \cup {cursor} /\ UNCHANGED <<n, predictions, pruned, outcomes>>
    BY <1>13 DEF InsertBranch
  <2>2. Planned' = Planned /\ Ran' = Ran /\ predictions = {} /\ pruned = {}
    BY <2>1 DEF Planned, Ran, TableInv, Unlogged
  <2>3. branches' = {b \in Planned : b < cursor + 1}
    <3>1. cursor \in Planned /\ \A b \in Planned : b < cursor + 1 <=> b < cursor \/ b = cursor
      BY <2>1 DEF TypeOK, Planned
    <3>2. QED
      BY <2>1, <3>1 DEF TableInv
  <2>4. Dropped' = {}
    BY <2>1, <2>2 DEF Dropped
  <2>5. QED
    BY <2>1, <2>2, <2>3, <2>4 DEF TableInv, Logged, Unlogged
<1>2. CASE ScreenGateFails \/ ScreenBranch
  <2>1. pc = "screen" /\ pc' = pc /\ UNCHANGED <<n, table_vars>>
    BY <1>2, ScreenDecides DEF Screening, Screened
  <2>2. QED
    BY <2>1, TiersTables DEF Unlogged
<1>3. CASE JudgeBranch \/ JudgeWithOracle
  <2>1. pc = "judge" /\ pc' \in {"judge", "crashed"} /\ UNCHANGED <<n, table_vars>>
    BY <1>3, JudgeDecides DEF Judging, Judged, Goto
  <2>2. QED
    BY <2>1, TiersTables DEF Unlogged
<1>4. CASE PlannerFails \/ BudgetStops \/ Raises \/ OracleRaises
  BY <1>4, QuietTables DEF PlannerFails, BudgetStops, BudgetPoint, Raises, OracleRaises,
     Judging, Goto, Unlogged, Logged, pred_vars
<1>5. CASE InsertEnds \/ ScreenEnds \/ CallAgents \/ SkipPruned \/ JudgeEnds
  BY <1>5, QuietTables DEF InsertEnds, ScreenEnds, CallAgents, SkipPruned, JudgeEnds, Judging,
     Start, Unlogged, pred_vars
<1>6. CASE LogEnds
  BY <1>6, QuietTables DEF LogEnds, Goto, pred_vars
<1>7. CASE NoFinalist \/ AcquireEnds \/ Finalize
  BY <1>7, QuietTables DEF NoFinalist, AcquireEnds, Finalize, Goto, Logged, pred_vars
<1>8. CASE SandboxRaises
  BY <1>8, QuietTables DEF SandboxRaises, Goto, Logged, pred_vars
<1>9. CASE ClockExpires \/ Kill \/ UNCHANGED vars
  BY <1>9, QuietTables DEF ClockExpires, Kill, Goto, vars, pred_vars
<1>10. CASE RunFinalist
  BY <1>10, SandboxedTables DEF RunFinalist, Goto
<1>11. CASE Acquire
  <2>1. PICK b \in Planned, passed \in BOOLEAN : Sandboxed(b, passed) /\ Resolve(b, passed)
    BY <1>11 DEF Acquire
  <2>2. pc = "acquire" /\ pc' \in {"acquire", "finalize"}
    BY <1>11, <2>1 DEF Acquire, Resolve, Goto
  <2>3. QED
    BY <2>1, <2>2, SandboxedTables
<1>12. QED
  BY <1>1, <1>2, <1>3, <1>4, <1>5, <1>6, <1>7, <1>8, <1>9, <1>10, <1>11, <1>13,
     LogPredictionTables, LogPrunedTables DEF Next, Step

-----------------------------------------------------------------------------
(* The report after a step that runs no sandbox. *)
LEMMA QuietReport ==
  ASSUME ReportInv, UNCHANGED <<outcomes, report>>,
         pc' \in Unspent \cup {"acquire"} => pc \in Unspent \cup {"acquire"}
  PROVE  ReportInv'
BY DEF ReportInv

LEMMA SandboxedOutcomes ==
  ASSUME NEW b, NEW passed \in BOOLEAN, Sandboxed(b, passed)
  PROVE  /\ [branch |-> b, tests_passed |-> passed] \in outcomes'
         /\ (\E o \in outcomes' : o.tests_passed) <=>
              (\E o \in outcomes : o.tests_passed) \/ passed
<1> DEFINE r == [branch |-> b, tests_passed |-> passed]
<1>1. outcomes' = outcomes \cup {r} /\ (r.tests_passed <=> passed)
  BY DEF Sandboxed
<1> HIDE DEF r
<1>2. /\ r \in outcomes'
      /\ (\E o \in outcomes' : o.tests_passed) <=>
           (\E o \in outcomes : o.tests_passed) \/ passed
  BY <1>1
<1>3. QED
  BY <1>2 DEF r

LEMMA ReportNext ==
  ASSUME TypeInv, ReportInv, [Next]_vars
  PROVE  ReportInv'
<1> USE DEF TypeInv
<1>1. CASE RunFinalist
  <2>1. PICK b \in Planned, passed \in BOOLEAN :
          Sandboxed(b, passed) /\ report' = [best |-> b, tests_passed |-> passed]
    BY <1>1 DEF RunFinalist
  <2>2. pc = "finalist" /\ pc' = "finalize" /\ b \in Int /\ b >= 1
    BY <1>1 DEF RunFinalist, Goto, Planned
  <2>3. ~\E o \in outcomes : o.tests_passed
    BY <2>2 DEF ReportInv, Unspent
  <2>4. report'.best = b /\ report'.tests_passed = passed
    BY <2>1
  <2>5. /\ [branch |-> b, tests_passed |-> passed] \in outcomes'
        /\ (\E o \in outcomes' : o.tests_passed) <=> passed
    BY <2>1, <2>3, SandboxedOutcomes
  <2>6. QED
    BY <2>2, <2>4, <2>5 DEF ReportInv, Unspent
<1>2. CASE Acquire
  <2>1. PICK b \in Planned, passed \in BOOLEAN : Sandboxed(b, passed) /\ Resolve(b, passed)
    BY <1>2 DEF Acquire
  <2>2. pc = "acquire" /\ b \in Int /\ b >= 1
    BY <1>2 DEF Acquire, Planned
  <2>3. report.best = 0 /\ ~\E o \in outcomes : o.tests_passed
    BY <2>2 DEF ReportInv
  <2>4. /\ [branch |-> b, tests_passed |-> passed] \in outcomes'
        /\ (\E o \in outcomes' : o.tests_passed) <=> passed
    BY <2>1, <2>3, SandboxedOutcomes
  <2>5. CASE passed
    <3>1. report' = [best |-> b, tests_passed |-> TRUE] /\ pc' = "finalize"
      BY <2>1, <2>5, Zenon DEF Resolve, Goto
    <3>2. passed = TRUE /\ report'.best = b /\ report'.tests_passed = TRUE
      BY <2>5, <3>1
    <3>3. QED
      BY <2>2, <2>4, <3>1, <3>2 DEF ReportInv, Unspent
  <2>6. CASE ~passed
    <3>1. UNCHANGED <<report, pc>>
      BY <2>1, <2>6 DEF Resolve
    <3>2. QED
      BY <2>3, <2>4, <2>6, <3>1 DEF ReportInv
  <2>7. QED
    BY <2>5, <2>6
<1>3. CASE Plan \/ InsertBranch \/ InsertEnds \/ ScreenEnds \/ CallAgents \/ SkipPruned \/ JudgeEnds
  BY <1>3, QuietReport DEF Plan, InsertBranch, InsertEnds, ScreenEnds, CallAgents, SkipPruned, Judging, JudgeEnds,
     Start, Unspent, table_vars, run_vars
<1>4. CASE ScreenGateFails \/ ScreenBranch
  BY <1>4, ScreenDecides, QuietReport DEF Screening, Screened, Unspent, table_vars, run_vars
<1>5. CASE JudgeBranch \/ JudgeWithOracle
  BY <1>5, JudgeDecides, QuietReport DEF Judging, Judged, Unspent, table_vars
<1>6. CASE LogPrediction \/ LogPruned \/ LogEnds \/ NoFinalist
  BY <1>6, QuietReport DEF LogPrediction, LogPruned, LogEnds, NoFinalist, Goto, Unspent,
     run_vars, table_vars
<1>7. CASE \/ PlannerFails \/ BudgetStops \/ Raises \/ OracleRaises \/ AcquireEnds
           \/ SandboxRaises \/ Finalize \/ Kill
  BY <1>7, QuietReport DEF PlannerFails, BudgetStops, Raises, OracleRaises, AcquireEnds,
     SandboxRaises, Finalize, Kill, Goto, Unspent, table_vars, run_vars
<1>8. CASE ClockExpires \/ UNCHANGED vars
  BY <1>8, QuietReport DEF ClockExpires, vars, pred_vars, table_vars, run_vars
<1>9. QED
  BY <1>1, <1>2, <1>3, <1>4, <1>5, <1>6, <1>7, <1>8 DEF Next, Step

LEMMA RecordInvariant == Spec => [](TypeInv /\ TableInv /\ ReportInv)
<1>1. Init => TypeInv /\ TableInv /\ ReportInv
  <2> SUFFICES ASSUME Init PROVE TypeInv /\ TableInv /\ ReportInv
    OBVIOUS
  <2>1. /\ pc = "plan" /\ n = 0 /\ branches = {} /\ predictions = {} /\ pruned = {}
        /\ outcomes = {} /\ report.best = 0
    BY DEF Init
  <2>2. Planned = {} /\ Dropped = {} /\ Ran = {}
    BY <2>1 DEF Planned, Dropped, Ran
  <2>3. QED
    BY <2>1, <2>2, InitTypeInv DEF TableInv, ReportInv, Logged, Unlogged
<1>2. (TypeInv /\ TableInv /\ ReportInv) /\ [Next]_vars
        => (TypeInv /\ TableInv /\ ReportInv)'
  BY NextTypeInv, TablesNext, ReportNext
<1>3. QED
  BY <1>1, <1>2, PTL DEF Spec

(* The four tables agree, and the report says what the sandbox said, however *)
(* a task ends (orchestrator.py:367, 369, 384, 417).                         *)
THEOREM TheRecordIsTrue == Spec => []RecordIsTrue
<1>1. TypeInv /\ TableInv => TablesAgree
  <2> SUFFICES ASSUME TypeOK, TableInv PROVE TablesAgree
    BY DEF TypeInv
  <2>1. pc \in Logged \/ pc = "log" => pruned = Dropped
    BY DEF TableInv
  <2>2. Cardinality(Dropped \ pruned) <= 1
    <3>1. CASE Dropped \ pruned = {}
      <4>1. Cardinality({}) = 0
        BY FS_EmptySet
      <4>2. QED
        BY <3>1, <4>1
    <3>2. CASE Dropped \ pruned # {}
      <4>1. Dropped \ pruned = {cursor}
        BY <3>2 DEF TableInv
      <4>2. Cardinality({cursor}) = 1
        BY FS_Singleton
      <4>3. QED
        BY <4>1, <4>2
    <3>3. QED
      BY <3>1, <3>2
  <2>3. ReservoirIsComplete
    BY <2>1, <2>2 DEF ReservoirIsComplete, Dropped, TableInv
  <2>4. LoggedAllOrNone
    BY DEF LoggedAllOrNone, TableInv, Terminal, Logged
  <2>5. QED
    BY <2>3, <2>4 DEF TablesAgree
<1>2. ReportInv => ReportIsHonest
  BY DEF ReportInv, ReportIsHonest
<1>3. QED
  BY <1>1, <1>2, RecordInvariant, PTL DEF RecordIsTrue

(***************************************************************************)
(* The tiers.  Every step of run_task that decides a branch or spends the  *)
(* sandbox is a step of the tiers, and every other one, failures and       *)
(* deaths included, leaves them alone.                                     *)
(***************************************************************************)
Decided == {"log", "log_pruned", "finalist", "acquire"}

(* How far the tiers have come in each phase.  A loop has decided what is    *)
(* below its cursor; a branch that the agents were not asked about is pruned. *)
Tiers ==
  /\ \A b \in Branch : tier[b] > 0 => dec[b] \in Decision
  /\ pc \in {"plan", "insert"} => \A b \in Branch : tier[b] = 0
  /\ pc = "screen" => \A b \in Planned : tier[b] = IF b < cursor THEN 1 ELSE 0
  /\ pc = "llm" => \A b \in Planned : tier[b] = 1
  /\ pc = "judge" => \A b \in Planned :
       /\ tier[b] > 0
       /\ b < cursor => tier[b] = 2 \/ dec[b].routing = "PRUNE"
       /\ b >= cursor => tier[b] = 1 /\ (b \in asked <=> dec[b].routing # "PRUNE")
  /\ pc \in Decided => \A b \in Planned :
       tier[b] > 0 /\ (tier[b] = 2 \/ dec[b].routing = "PRUNE")

(* What was spent so far.  Evidence is bought when nothing is selected.      *)
Spending ==
  /\ pc \in Unspent => outcomes = {}
  /\ pc = "acquire" => ~HasFinalist
  /\ Cardinality(Ran) <= runs

TierInv == TypeInv /\ Tiers /\ Spending

(* Initially nothing is decided and nothing is spent. *)
LEMMA TierInit ==
  ASSUME Init
  PROVE  TierInv
<1>1. TypeInv
  BY InitTypeInv
<1>2. n = 0 /\ pc = "plan" /\ outcomes = {} /\ runs = 0 /\ tier = [b \in Branch |-> 0]
  BY DEF Init
<1>3. Ran = {}
  BY <1>2 DEF Ran
<1>4. QED
  BY <1>1, <1>2, <1>3, FS_EmptySet DEF TierInv, Tiers, Spending, Decided

-----------------------------------------------------------------------------
(* The stage of a branch, by its tier and its routing. *)
LEMMA Stages ==
  ASSUME NEW b, tier[b] \in 0 .. 2, tier[b] > 0 => dec[b] \in Decision
  PROVE  /\ b \notin Planned <=> StageOf(b) = "absent"
         /\ b \in Planned /\ tier[b] = 0 <=> StageOf(b) = "new"
         /\ b \in Planned /\ tier[b] > 0 /\ dec[b].routing = "PRUNE"
              <=> StageOf(b) = "dropped"
         /\ b \in Planned /\ tier[b] = 1 /\ dec[b].routing # "PRUNE"
              <=> StageOf(b) = "survivor"
         /\ b \in Planned /\ tier[b] = 2 /\ dec[b].routing = "INCREMENTAL"
              <=> StageOf(b) = "held"
         /\ b \in Planned /\ tier[b] = 2 /\ dec[b].routing = "HUMAN_REVIEW"
              <=> StageOf(b) = "human"
         /\ b \in Planned /\ tier[b] = 2 /\ dec[b].routing = "EXECUTE"
              <=> StageOf(b) = "ready"
<1>1. CASE b \notin Planned
  BY <1>1 DEF StageOf
<1>2. CASE b \in Planned /\ tier[b] = 0
  BY <1>2 DEF StageOf
<1>3. CASE b \in Planned /\ tier[b] > 0
  <2>1. dec[b].routing \in {"PRUNE", "INCREMENTAL", "HUMAN_REVIEW", "EXECUTE"}
    BY <1>3 DEF Decision, Routing
  <2>2. tier[b] = 1 \/ tier[b] = 2
    BY <1>3
  <2>3. QED
    BY <1>3, <2>1, <2>2 DEF StageOf
<1>4. QED
  BY <1>1, <1>2, <1>3

-----------------------------------------------------------------------------
(* A write to the branch at the cursor, seen from each branch. *)
LEMMA WriteAt ==
  ASSUME TypeOK, NEW c \in Branch, NEW d, NEW t,
         dec' = [dec EXCEPT ![c] = d], tier' = [tier EXCEPT ![c] = t]
  PROVE  /\ dec'[c] = d /\ tier'[c] = t
         /\ \A b \in Branch : b # c => dec'[b] = dec[b] /\ tier'[b] = tier[b]
BY DEF TypeOK

-----------------------------------------------------------------------------
(* The tiers move on as the phases say. *)
LEMMA TiersNext ==
  ASSUME TierInv, [Next]_vars
  PROVE  Tiers'
<1> USE DEF TierInv, TypeInv, Tiers, Decided
<1>0. /\ n \in 0 .. K /\ Planned \subseteq Branch /\ cursor \in Nat
      /\ \A b \in Planned : b \in 1 .. n /\ b \in Int
  BY PlannedFacts DEF TypeOK
<1>1. CASE Plan
  <2>1. tier' = tier /\ dec' = dec /\ cursor' = 1 /\ pc' = "insert" /\ pc = "plan"
    BY <1>1 DEF Plan, Start, pred_vars
  <2>2. /\ n' \in 0 .. K /\ Planned' \subseteq Branch
        /\ \A b \in Planned' : b \in Int /\ b >= 1
    BY <1>1, ConstantFacts DEF Plan, Proposals, Planned, Branch
  <2>3. QED
    BY <2>1, <2>2
<1>2. CASE ScreenGateFails \/ ScreenBranch
  <2>1. PICK s, x : \E d \in Decision : Screening /\ Screened(cursor, s, d, x)
    BY <1>2, ScreenDecides
  <2>2. PICK d \in Decision : Screening /\ Screened(cursor, s, d, x)
    BY <2>1
  <2>3. cursor \in Planned /\ pc = "screen"
    BY <1>0, <2>2 DEF Screening, Planned, TypeOK
  <2>4. dec' = [dec EXCEPT ![cursor] = d] /\ tier' = [tier EXCEPT ![cursor] = 1]
    BY <2>2 DEF Screened
  <2>5. /\ dec'[cursor] = d /\ tier'[cursor] = 1
        /\ \A b \in Branch : b # cursor => dec'[b] = dec[b] /\ tier'[b] = tier[b]
    BY <1>0, <2>3, <2>4, WriteAt
  <2>6. pc' = pc /\ cursor' = cursor + 1 /\ Planned' = Planned
    BY <2>2 DEF Screened, Planned
  <2>7. QED
    BY <1>0, <2>3, <2>5, <2>6
<1>3. CASE JudgeBranch \/ JudgeWithOracle
  <2>1. PICK s : \E d \in Decision : Judging /\ cursor \in asked /\ Judged(cursor, s, d)
    BY <1>3, JudgeDecides
  <2>2. PICK d \in Decision : Judging /\ cursor \in asked /\ Judged(cursor, s, d)
    BY <2>1
  <2>3. cursor \in Planned /\ pc = "judge"
    BY <1>0, <2>2 DEF Judging, Planned, TypeOK
  <2>4. dec' = [dec EXCEPT ![cursor] = d] /\ tier' = [tier EXCEPT ![cursor] = 2]
    BY <2>2 DEF Judged
  <2>5. /\ dec'[cursor] = d /\ tier'[cursor] = 2
        /\ \A b \in Branch : b # cursor => dec'[b] = dec[b] /\ tier'[b] = tier[b]
    BY <1>0, <2>3, <2>4, WriteAt
  <2>6. /\ Planned' = Planned /\ asked' = asked
        /\ \/ pc' = pc /\ cursor' = cursor + 1
           \/ pc' = "crashed"
    BY <2>2 DEF Judged, Planned, Goto
  <2>7. QED
    BY <1>0, <2>3, <2>5, <2>6
<1>4. CASE UNCHANGED <<sig, dec, ctx, tier>>
  <2> USE <1>4
  <2>1. CASE PlannerFails
    BY <2>1 DEF PlannerFails, Goto, Planned
  <2>2. CASE BudgetStops \/ Raises \/ OracleRaises \/ SandboxRaises
    BY <2>2 DEF BudgetStops, Raises, OracleRaises, SandboxRaises, Goto
  <2>14. CASE InsertBranch
    BY <2>14 DEF InsertBranch, Planned, pred_vars
  <2>15. CASE InsertEnds
    <3>1. Planned' = Planned /\ pc = "insert" /\ pc' = "screen" /\ cursor' = 1
      BY <2>15 DEF InsertEnds, Planned, Start
    <3>2. QED
      BY <1>0, <3>1
  <2>3. CASE ScreenEnds
    <3>1. Planned' = Planned /\ pc = "screen" /\ cursor > n
      BY <2>3 DEF ScreenEnds, Planned
    <3>2. \A b \in Planned : tier[b] = 1
      BY <1>0, <3>1
    <3>3. CASE Survivors = {}
      BY <2>3, <3>1, <3>2, <3>3 DEF ScreenEnds, Start, Survivors
    <3>4. CASE Survivors # {}
      BY <2>3, <3>1, <3>2, <3>4 DEF ScreenEnds, Start
    <3>5. QED
      BY <3>3, <3>4
  <2>4. CASE CallAgents
    <3>1. /\ Planned' = Planned /\ pc = "llm" /\ pc' = "judge" /\ cursor' = 1
          /\ asked' = Survivors
      BY <2>4 DEF CallAgents, Planned, Start
    <3>2. QED
      BY <1>0, <3>1 DEF Survivors
  <2>5. CASE SkipPruned
    BY <1>0, <2>5 DEF SkipPruned, Judging, Planned, pred_vars
  <2>6. CASE JudgeEnds
    <3>1. Planned' = Planned /\ pc = "judge" /\ cursor > n /\ pc' = "log"
      BY <2>6 DEF JudgeEnds, Planned, Start
    <3>2. QED
      BY <1>0, <3>1
  <2>7. CASE LogPrediction \/ LogPruned \/ LogEnds
    BY <2>7 DEF LogPrediction, LogPruned, LogEnds, Goto, Planned
  <2>8. CASE NoFinalist
    BY <2>8 DEF NoFinalist, Goto, Planned
  <2>9. CASE RunFinalist \/ AcquireEnds \/ Finalize \/ Kill
    BY <2>9 DEF RunFinalist, AcquireEnds, Finalize, Kill, Goto
  <2>10. CASE Acquire
    <3>1. pc = "acquire" /\ Planned' = Planned
      BY <2>10 DEF Acquire, Sandboxed, Planned
    <3>2. pc' \in {"acquire", "finalize"}
      BY <2>10, <3>1 DEF Acquire, Resolve, Goto
    <3>3. QED
      BY <3>1, <3>2
  <2>11. CASE ClockExpires
    BY <2>11 DEF ClockExpires, Planned, pred_vars
  <2>12. CASE UNCHANGED vars
    BY <2>12 DEF vars, Planned, pred_vars
  <2>13. QED
    BY <1>1, <1>2, <1>3, <2>1, <2>2, <2>3, <2>4, <2>5, <2>6, <2>7, <2>8, <2>9, <2>10,
       <2>11, <2>12, <2>14, <2>15 DEF Next, Step
<1>5. QED
  BY <1>2, <1>3, <1>4, OnlyTiersDecide

(* One run more is at most one branch more that has been run. *)
LEMMA OneMore ==
  ASSUME TypeOK, NEW b \in Branch, NEW passed, Sandboxed(b, passed),
         Cardinality(Ran) <= runs
  PROVE  Ran' = Ran \cup {b} /\ Cardinality(Ran') <= runs'
<1>1. Ran' = Ran \cup {b} /\ runs' = runs + 1
  BY OneOutcome DEF Sandboxed
<1>2. IsFiniteSet(Ran) /\ Cardinality(Ran) \in Nat /\ runs \in Nat
  BY PlannedFacts, FS_CardinalityType DEF TypeOK
<1>3. Cardinality(Ran \cup {b}) \in {Cardinality(Ran), Cardinality(Ran) + 1}
  BY <1>2, FS_AddElement
<1>4. Cardinality(Ran') = Cardinality(Ran \cup {b})
  BY <1>1
<1>5. QED
  BY <1>1, <1>2, <1>3, <1>4

(* The sandbox is left alone up to the finalist, and a finalist that there   *)
(* is ends the task.                                                         *)
LEMMA SpendingNext ==
  ASSUME TierInv, [Next]_vars
  PROVE  Spending'
<1> USE DEF TierInv, TypeInv, Spending, Unspent
<1>1. CASE UNCHANGED <<outcomes, runs>> /\ pc' \in Unspent /\ pc \in Unspent
  BY <1>1 DEF Ran
<1>2. CASE UNCHANGED <<outcomes, runs>> /\ pc' \notin Unspent \cup {"acquire"}
  BY <1>2 DEF Ran
<1>3. CASE UNCHANGED <<outcomes, runs, pc, n, dec>>
  BY <1>3 DEF Ran, HasFinalist, Planned
<1>4. CASE NoFinalist
  BY <1>4 DEF NoFinalist, Ran, HasFinalist, Planned, Goto, pred_vars, table_vars, run_vars
<1>5. CASE RunFinalist
  <2>1. PICK b \in Planned, passed \in BOOLEAN : Sandboxed(b, passed)
    BY <1>5 DEF RunFinalist
  <2>2. b \in Branch /\ pc' = "finalize"
    BY <1>5, PlannedFacts DEF RunFinalist, Goto
  <2>3. QED
    BY <2>1, <2>2, OneMore
<1>6. CASE Acquire
  <2>1. PICK b \in Planned, passed \in BOOLEAN : Sandboxed(b, passed) /\ Resolve(b, passed)
    BY <1>6 DEF Acquire
  <2>2. b \in Branch /\ pc = "acquire"
    BY <1>6, PlannedFacts DEF Acquire
  <2>3. pc' \in {"acquire", "finalize"} /\ (HasFinalist' <=> HasFinalist)
    BY <2>1, <2>2 DEF Resolve, Goto, Sandboxed, HasFinalist, Planned, pred_vars
  <2>4. QED
    BY <2>1, <2>2, <2>3, OneMore
<1>7. CASE SandboxRaises
  <2>1. Ran' = Ran /\ runs' = runs + 1 /\ pc' = "crashed"
    BY <1>7 DEF SandboxRaises, Ran, table_vars, Goto
  <2>2. Cardinality(Ran) \in Nat /\ runs \in Nat
    BY PlannedFacts, FS_CardinalityType DEF TypeOK
  <2>3. QED
    BY <2>1, <2>2
<1>8. CASE \/ Plan \/ InsertBranch \/ InsertEnds \/ ScreenEnds \/ CallAgents
           \/ SkipPruned \/ JudgeEnds
  BY <1>1, <1>8 DEF Plan, InsertBranch, InsertEnds, ScreenEnds, CallAgents, SkipPruned, Judging, JudgeEnds, Start,
     table_vars, run_vars
<1>9. CASE ScreenGateFails \/ ScreenBranch
  BY <1>1, <1>9, ScreenDecides DEF Screening, Screened, table_vars, run_vars
<1>10. CASE JudgeBranch \/ JudgeWithOracle
  <2>1. PICK s : \E d \in Decision : Judging /\ Judged(cursor, s, d)
    BY <1>10, JudgeDecides
  <2>2. UNCHANGED <<outcomes, runs>> /\ pc = "judge" /\ pc' \in {"judge", "crashed"}
    BY <2>1 DEF Judging, Judged, Goto, table_vars
  <2>3. QED
    BY <1>1, <1>2, <2>2
<1>11. CASE LogPrediction \/ LogPruned \/ LogEnds
  BY <1>1, <1>11 DEF LogPrediction, LogPruned, LogEnds, Goto, run_vars, table_vars
<1>12. CASE \/ PlannerFails \/ BudgetStops \/ Raises \/ OracleRaises \/ AcquireEnds
            \/ Finalize \/ Kill
  BY <1>2, <1>12 DEF PlannerFails, BudgetStops, Raises, OracleRaises, AcquireEnds, Finalize,
     Kill, Goto, table_vars, run_vars
<1>13. CASE ClockExpires \/ UNCHANGED vars
  BY <1>3, <1>13 DEF ClockExpires, vars, pred_vars, table_vars, run_vars
<1>14. QED
  BY <1>4, <1>5, <1>6, <1>7, <1>8, <1>9, <1>10, <1>11, <1>12, <1>13 DEF Next, Step

(* The invariant holds in every reachable state. *)
LEMMA TierInvariant == Spec => []TierInv
<1>1. Init => TierInv
  BY TierInit
<1>2. TierInv /\ [Next]_vars => TierInv'
  BY NextTypeInv, TiersNext, SpendingNext DEF TierInv
<1>3. QED
  BY <1>1, <1>2, PTL DEF Spec

-----------------------------------------------------------------------------
(* The steps of the tiers. *)
stage == [b \in Branch |-> StageOf(b)]

(* A step that decides nothing and spends nothing is none of the tiers'. *)
LEMMA Stutters ==
  ASSUME UNCHANGED <<n, tier, dec, outcomes>>
  PROVE  UNCHANGED Gate!vars
<1>1. \A b \in Branch : StageOf(b)' = StageOf(b)
  BY DEF StageOf, Planned
<1>2. stage' = stage
  BY <1>1 DEF stage
<1>3. Ran' = Ran
  BY DEF Ran
<1>4. QED
  BY <1>2, <1>3 DEF stage, Gate!vars

(* Writing one branch moves that one from stage to stage. *)
LEMMA Moves ==
  ASSUME TierInv, Tiers', NEW c \in Branch, NEW d \in Decision, NEW t \in {1, 2},
         dec' = [dec EXCEPT ![c] = d], tier' = [tier EXCEPT ![c] = t],
         UNCHANGED <<n, outcomes>>
  PROVE  Gate!Move(c, StageOf(c), StageOf(c)') /\ UNCHANGED Ran
<1>1. \A b \in Branch : b # c => dec'[b] = dec[b] /\ tier'[b] = tier[b]
  BY WriteAt DEF TierInv, TypeInv
<1>2. \A b \in Branch : b # c => StageOf(b)' = StageOf(b)
  BY <1>1 DEF StageOf, Planned
<1>3. stage' = [stage EXCEPT ![c] = StageOf(c)']
  BY <1>2 DEF stage
<1>4. stage[c] = StageOf(c)
  BY DEF stage
<1>5. Ran' = Ran
  BY DEF Ran
<1>6. QED
  BY <1>3, <1>4, <1>5 DEF stage, Gate!Move

(* The stages that the screen may write. *)
LEMMA StageScreened ==
  ASSUME NEW c \in Planned, dec'[c] \in Decision, tier'[c] = 1, n' = n
  PROVE  StageOf(c)' \in {"dropped", "survivor"}
BY DEF StageOf, Planned

(* The stages that a judgment may write. *)
LEMMA StageJudged ==
  ASSUME NEW c \in Planned, dec'[c] \in Decision, tier'[c] = 2, n' = n
  PROVE  StageOf(c)' \in {"dropped", "held", "human", "ready"}
<1>1. dec'[c].routing \in {"PRUNE", "INCREMENTAL", "HUMAN_REVIEW", "EXECUTE"}
  BY DEF Decision, Routing
<1>2. QED
  BY <1>1 DEF StageOf, Planned

(* The branches at a stage, as StageOf tells them apart. *)
LEMMA StagesOf ==
  ASSUME TierInv, NEW s
  PROVE  Gate!At(s) = {b \in Branch : StageOf(b) = s}
BY DEF Gate!At

(* Once every branch is screened, none is new. *)
LEMMA NoneNew ==
  ASSUME TierInv, \A b \in Planned : tier[b] > 0
  PROVE  Gate!At("new") = {}
<1>1. \A b \in Branch : StageOf(b) # "new"
  BY Stages DEF TierInv, TypeInv, TypeOK, Tiers
<1>2. QED
  BY <1>1, StagesOf

(* Once every survivor is judged, none survives undecided. *)
LEMMA NoneSurviving ==
  ASSUME TierInv, \A b \in Planned : tier[b] = 2 \/ dec[b].routing = "PRUNE"
  PROVE  Gate!At("survivor") = {}
<1>1. \A b \in Branch : StageOf(b) # "survivor"
  BY Stages DEF TierInv, TypeInv, TypeOK, Tiers
<1>2. QED
  BY <1>1, StagesOf

(* run_task proposes what the planner answered, all at once. *)
LEMMA PlanProposes ==
  ASSUME TierInv, Plan
  PROVE  \E C \in SUBSET Branch : Gate!Propose(C)
<1>1. n = 0 /\ \A b \in Branch : tier[b] = 0
  BY DEF Plan, TierInv, TypeInv, PhaseInv, Tiers
<1>2. \A b \in Branch : StageOf(b) = "absent"
  BY <1>1 DEF StageOf, Planned
<1>3. Gate!At("absent") = Branch
  BY <1>2, StagesOf
<1>4. n' \in 0 .. K /\ tier' = tier /\ dec' = dec /\ outcomes' = outcomes
  BY DEF Plan, Proposals, pred_vars, table_vars
<1>5. 1 .. n' \in SUBSET Branch
  BY <1>4, ConstantFacts DEF Branch
<1>6. \A b \in Branch : StageOf(b)' = IF b \in 1 .. n' THEN "new" ELSE "absent"
  BY <1>1, <1>4 DEF StageOf, Planned
<1>7. stage' = [b \in Branch |-> IF b \in 1 .. n' THEN "new" ELSE "absent"]
  BY <1>6 DEF stage
<1>8. Ran' = Ran
  BY <1>4 DEF Ran
<1>9. Gate!Propose(1 .. n')
  BY <1>3, <1>7, <1>8 DEF Gate!Propose, stage
<1>10. QED
  BY <1>5, <1>9

(* Tier 1: the branch at the cursor is dropped or survives. *)
LEMMA ScreenRefines ==
  ASSUME TierInv, Tiers', ScreenGateFails \/ ScreenBranch
  PROVE  \E c \in Branch : Gate!Screen(c)
<1>1. PICK s, x : \E d \in Decision : Screening /\ Screened(cursor, s, d, x)
  BY ScreenDecides DEF TierInv
<1>2. PICK d \in Decision : Screening /\ Screened(cursor, s, d, x)
  BY <1>1
<1>3. PICK c \in Planned : c = cursor
  BY <1>2, PlannedFacts DEF Screening, Planned, TierInv, TypeInv, TypeOK
<1>4. c \in Branch
  BY <1>3, PlannedFacts DEF TierInv, TypeInv
<1>5. /\ dec' = [dec EXCEPT ![c] = d] /\ tier' = [tier EXCEPT ![c] = 1]
      /\ n' = n /\ outcomes' = outcomes
  BY <1>2, <1>3 DEF Screened, table_vars
<1>6. Gate!Move(c, StageOf(c), StageOf(c)') /\ UNCHANGED Ran
  BY <1>4, <1>5, Moves
<1>7. tier[c] = 0
  BY <1>2, <1>3, <1>4 DEF Screening, TierInv, TypeInv, TypeOK, Tiers
<1>8. StageOf(c) = "new"
  BY <1>3, <1>7 DEF StageOf
<1>9. dec'[c] = d /\ tier'[c] = 1
  BY <1>4, <1>5 DEF TierInv, TypeInv, TypeOK
<1>10. StageOf(c)' \in {"dropped", "survivor"}
  BY <1>5, <1>9, StageScreened
<1>11. QED
  BY <1>4, <1>6, <1>8, <1>10 DEF Gate!Screen

(* Tier 2: all are screened, and a survivor is dropped, held, left to a human *)
(* or selected.                                                              *)
LEMMA JudgeRefines ==
  ASSUME TierInv, Tiers', JudgeBranch \/ JudgeWithOracle
  PROVE  \E c \in Branch : Gate!Judge(c)
<1>1. PICK s : \E d \in Decision : Judging /\ cursor \in asked /\ Judged(cursor, s, d)
  BY JudgeDecides DEF TierInv
<1>2. PICK d \in Decision : Judging /\ cursor \in asked /\ Judged(cursor, s, d)
  BY <1>1
<1>3. PICK c \in Planned : c = cursor
  BY <1>2, PlannedFacts DEF Judging, Planned, TierInv, TypeInv, TypeOK
<1>4. c \in Branch
  BY <1>3, PlannedFacts DEF TierInv, TypeInv
<1>5. /\ dec' = [dec EXCEPT ![c] = d] /\ tier' = [tier EXCEPT ![c] = 2]
      /\ n' = n /\ outcomes' = outcomes
  BY <1>2, <1>3 DEF Judged, table_vars
<1>6. Gate!Move(c, StageOf(c), StageOf(c)') /\ UNCHANGED Ran
  BY <1>4, <1>5, Moves
<1>7. tier[c] = 1 /\ dec[c].routing # "PRUNE" /\ \A b \in Planned : tier[b] > 0
  BY <1>2, <1>3, <1>4 DEF Judging, TierInv, TypeInv, TypeOK, Tiers
<1>8. StageOf(c) = "survivor" /\ Gate!At("new") = {}
  BY <1>3, <1>7, NoneNew DEF StageOf
<1>9. dec'[c] = d /\ tier'[c] = 2
  BY <1>4, <1>5 DEF TierInv, TypeInv, TypeOK
<1>10. StageOf(c)' \in {"dropped", "held", "human", "ready"}
  BY <1>5, <1>9, StageJudged
<1>11. QED
  BY <1>4, <1>6, <1>8, <1>10 DEF Gate!Judge

(* Tier 3: the sandbox is spent on a selected branch, once. *)
LEMMA FinalistRefines ==
  ASSUME TierInv, RunFinalist
  PROVE  \E c \in Branch : Gate!Verify(c)
<1>1. PICK b \in Planned, passed \in BOOLEAN :
        IsBest(b, Planned, dec) /\ Sandboxed(b, passed)
  BY DEF RunFinalist
<1>2. b \in Branch /\ pc = "finalist"
  BY PlannedFacts DEF RunFinalist, TierInv, TypeInv
<1>3. Gate!At("new") = {} /\ Gate!At("survivor") = {}
  BY <1>2, NoneNew, NoneSurviving DEF TierInv, Tiers, Decided
<1>4. dec[b].routing = "EXECUTE" /\ tier[b] = 2
  BY <1>1, <1>2 DEF IsBest, TierInv, Tiers, Decided
<1>5. StageOf(b) = "ready"
  BY <1>4 DEF StageOf
<1>6. outcomes = {} /\ Ran = {} /\ Ran' = {b}
  <2>1. outcomes = {}
    BY <1>2 DEF TierInv, Spending, Unspent
  <2>2. Ran = {}
    BY <2>1 DEF Ran
  <2>3. QED
    BY <1>1, <2>1, <2>2, OneOutcome
<1>7. UNCHANGED <<n, tier, dec>>
  BY <1>1 DEF Sandboxed, pred_vars
<1>8. stage' = stage
  BY <1>7 DEF stage, StageOf, Planned
<1>9. QED
  BY <1>2, <1>3, <1>5, <1>6, <1>8 DEF Gate!Verify, stage

(* The cardinality that TieredGate counts with is the same one. *)
LEMMA SameCardinality ==
  \A S : Gate!Cardinality(S) = Cardinality(S)
BY DEF Gate!Cardinality, Cardinality

(* Tier 3: or on held ones, each once, while there are runs left. *)
LEMMA EvidenceRefines ==
  ASSUME TierInv, Acquire
  PROVE  \E c \in Branch : Gate!Probe(c)
<1>1. PICK b \in Planned, passed \in BOOLEAN : NextRanked(b) /\ Sandboxed(b, passed)
  BY DEF Acquire
<1>2. b \in Branch /\ pc = "acquire" /\ runs < MaxRuns
  BY PlannedFacts DEF Acquire, RunsLeft, TierInv, TypeInv
<1>3. Gate!At("new") = {} /\ Gate!At("survivor") = {}
  BY <1>2, NoneNew, NoneSurviving DEF TierInv, Tiers, Decided
<1>4. \A c \in Branch : StageOf(c) # "ready"
  BY <1>2, Stages DEF TierInv, TypeInv, TypeOK, Tiers, Spending, HasFinalist
<1>5. Gate!At("ready") = {}
  BY <1>4, StagesOf
<1>6. b \notin Ran /\ dec[b].routing = "INCREMENTAL" /\ tier[b] = 2
  BY <1>1, <1>2 DEF NextRanked, Uncertain, TierInv, Tiers, Decided
<1>7. StageOf(b) = "held"
  BY <1>6 DEF StageOf
<1>8. Gate!Cardinality(Ran) < MaxRuns
  <2>1. Cardinality(Ran) \in Nat /\ Cardinality(Ran) <= runs /\ runs \in Nat
    BY PlannedFacts, FS_CardinalityType DEF TierInv, TypeInv, TypeOK, Spending
  <2>2. QED
    BY <1>2, <2>1, ConstantFacts, SameCardinality
<1>9. Ran' = Ran \cup {b}
  BY <1>1, OneOutcome
<1>10. UNCHANGED <<n, tier, dec>>
  BY <1>1 DEF Sandboxed, pred_vars
<1>11. stage' = stage
  BY <1>10 DEF stage, StageOf, Planned
<1>12. QED
  BY <1>2, <1>3, <1>5, <1>6, <1>7, <1>8, <1>9, <1>11 DEF Gate!Probe, stage

(* Every step of run_task is one of the tiers' or none of theirs. *)
LEMMA StepRefines ==
  ASSUME TierInv, Tiers', [Next]_vars
  PROVE  [Gate!Next]_(Gate!vars)
<1>1. CASE Plan
  BY <1>1, PlanProposes DEF Gate!Next
<1>2. CASE ScreenGateFails \/ ScreenBranch
  BY <1>2, ScreenRefines DEF Gate!Next
<1>3. CASE JudgeBranch \/ JudgeWithOracle
  BY <1>3, JudgeRefines DEF Gate!Next
<1>4. CASE RunFinalist
  BY <1>4, FinalistRefines DEF Gate!Next
<1>5. CASE Acquire
  BY <1>5, EvidenceRefines DEF Gate!Next
<1>6. CASE \/ PlannerFails \/ InsertBranch \/ InsertEnds \/ BudgetStops \/ Raises
           \/ ScreenEnds \/ CallAgents
           \/ SkipPruned \/ OracleRaises \/ JudgeEnds \/ LogPrediction \/ LogPruned
           \/ LogEnds \/ NoFinalist \/ AcquireEnds \/ SandboxRaises \/ Finalize
           \/ ClockExpires \/ Kill \/ UNCHANGED vars
  <2>1. UNCHANGED <<n, tier, dec, outcomes>>
    BY <1>6 DEF PlannerFails, InsertBranch, InsertEnds, BudgetStops, Raises, ScreenEnds, CallAgents, SkipPruned,
       OracleRaises, JudgeEnds, LogPrediction, LogPruned, LogEnds, NoFinalist, AcquireEnds,
       SandboxRaises, Finalize, ClockExpires, Kill, vars, pred_vars, table_vars
  <2>2. QED
    BY <2>1, Stutters
<1>7. QED
  BY <1>1, <1>2, <1>3, <1>4, <1>5, <1>6 DEF Next, Step

(* run_task is a tiered cascade (cascade.py:21), whatever fails in it and    *)
(* wherever it ends.                                                         *)
THEOREM RunTaskIsACascade == Spec => FollowsTheCascade
<1>1. Init => Gate!Init
  <2> SUFFICES ASSUME Init PROVE Gate!Init
    OBVIOUS
  <2>1. n = 0 /\ outcomes = {}
    BY DEF Init
  <2>2. \A b \in Branch : StageOf(b) = "absent"
    BY <2>1 DEF StageOf, Planned
  <2>3. Ran = {}
    BY <2>1 DEF Ran
  <2>4. QED
    BY <2>2, <2>3 DEF Gate!Init
<1>2. TierInv /\ TierInv' /\ [Next]_vars => [Gate!Next]_(Gate!vars)
  BY StepRefines DEF TierInv
<1>3. QED
  BY <1>1, <1>2, TierInvariant, PTL DEF Spec, FollowsTheCascade, Gate!Spec

(* What a cascade keeps, whoever it is: once the sandbox was used no          *)
(* candidate is left to screen or to judge, so that the stages stay as they    *)
(* were.                                                                       *)
TiersAreOver == Ran # {} => Gate!At("new") = {} /\ Gate!At("survivor") = {}

GateInv == Gate!TypeOK /\ IsFiniteSet(Ran) /\ TiersAreOver /\ Gate!SpendIsSelective

(* As long as nothing is spent, nothing but the type can go wrong. *)
LEMMA NothingSpent ==
  ASSUME MaxRuns \in Nat, Gate!TypeOK, Ran = {}
  PROVE  GateInv
<1>1. IsFiniteSet(Ran) /\ Cardinality(Ran) = 0
  BY FS_EmptySet
<1>2. TiersAreOver
  BY DEF TiersAreOver
<1>3. Gate!SpendIsSelective
  BY <1>1, SameCardinality DEF Gate!SpendIsSelective
<1>4. QED
  BY <1>1, <1>2, <1>3 DEF GateInv

(* And after a step. *)
LEMMA NothingSpentNext ==
  ASSUME MaxRuns \in Nat, Gate!TypeOK', Ran' = {}
  PROVE  GateInv'
<1>1. IsFiniteSet(Ran') /\ Cardinality(Ran') = 0
  BY FS_EmptySet
<1>2. TiersAreOver'
  BY DEF TiersAreOver
<1>3. Gate!SpendIsSelective'
  BY <1>1, SameCardinality DEF Gate!SpendIsSelective
<1>4. QED
  BY <1>1, <1>2, <1>3 DEF GateInv

(* A cascade starts with nothing. *)
LEMMA GateInit ==
  ASSUME MaxRuns \in Nat, Gate!Init
  PROVE  GateInv
<1>1. Gate!TypeOK /\ Ran = {}
  BY DEF Gate!Init, Gate!TypeOK, Gate!Stages
<1>2. QED
  BY <1>1, NothingSpent

(* Proposals, screening and judging come before any spending. *)
LEMMA TierStep ==
  ASSUME GateInv,
         \/ \E C \in SUBSET Branch : Gate!Propose(C)
         \/ \E c \in Branch : Gate!Screen(c) \/ Gate!Judge(c)
  PROVE  Gate!TypeOK' /\ Ran' = Ran /\ (Ran # {} => stage' = stage)
<1>1. CASE \E C \in SUBSET Branch : Gate!Propose(C)
  <2>1. Gate!TypeOK' /\ Ran' = Ran
    BY <1>1 DEF GateInv, Gate!TypeOK, Gate!Propose, Gate!Stages
  <2>2. Ran = {}
    BY <1>1 DEF GateInv, Gate!TypeOK, Gate!SpendIsSelective, Gate!Propose, Gate!At
  <2>3. QED
    BY <2>1, <2>2
<1>2. CASE \E c \in Branch : Gate!Screen(c)
  <2>1. Gate!TypeOK' /\ Ran' = Ran
    BY <1>2 DEF GateInv, Gate!TypeOK, Gate!Screen, Gate!Move, Gate!Stages
  <2>2. Gate!At("new") # {}
    BY <1>2 DEF Gate!Screen, Gate!Move, Gate!At
  <2>3. QED
    BY <2>1, <2>2 DEF GateInv, TiersAreOver
<1>3. CASE \E c \in Branch : Gate!Judge(c)
  <2>1. Gate!TypeOK' /\ Ran' = Ran
    BY <1>3 DEF GateInv, Gate!TypeOK, Gate!Judge, Gate!Move, Gate!Stages
  <2>2. Gate!At("survivor") # {}
    BY <1>3 DEF Gate!Judge, Gate!Move, Gate!At
  <2>3. QED
    BY <2>1, <2>2 DEF GateInv, TiersAreOver
<1>4. QED
  BY <1>1, <1>2, <1>3

(* What a spend preserves depends only on where it goes. *)
LEMMA SpendStep ==
  ASSUME MaxRuns \in Nat \ {0}, GateInv,
         \E c \in Branch : Gate!Verify(c) \/ Gate!Probe(c)
  PROVE  GateInv' /\ stage' = stage
<1>1. PICK c \in Branch : Gate!Verify(c) \/ Gate!Probe(c)
  OBVIOUS
<1>2. stage' = stage /\ Gate!At("new") = {} /\ Gate!At("survivor") = {}
  BY <1>1 DEF Gate!Verify, Gate!Probe, stage
<1>3. Gate!TypeOK' /\ TiersAreOver'
  BY <1>1, <1>2
     DEF GateInv, Gate!TypeOK, TiersAreOver, Gate!At, Gate!Verify, Gate!Probe
<1>4. CASE Gate!Verify(c)
  <2>1. Ran' = {c} /\ c \in Gate!At("ready")'
    BY <1>4 DEF Gate!Verify, Gate!At
  <2>2. IsFiniteSet(Ran') /\ Cardinality(Ran') = 1
    BY <2>1, FS_Singleton
  <2>3. Gate!SpendIsSelective'
    BY <2>1, <2>2, SameCardinality DEF Gate!SpendIsSelective
  <2>4. QED
    BY <1>2, <1>3, <2>2, <2>3 DEF GateInv
<1>5. CASE Gate!Probe(c)
  <2>1. Ran' = Ran \cup {c} /\ c \notin Ran /\ Cardinality(Ran) < MaxRuns
    BY <1>5, SameCardinality DEF Gate!Probe
  <2>2. IsFiniteSet(Ran') /\ Cardinality(Ran') = Cardinality(Ran) + 1
    BY <2>1, FS_AddElement DEF GateInv
  <2>3. Cardinality(Ran) \in Nat
    BY FS_CardinalityType DEF GateInv
  <2>4. Cardinality(Ran') <= MaxRuns
    BY <2>1, <2>2, <2>3
  <2>5. Gate!At("ready")' = {} /\ Ran' \subseteq Gate!At("held")' \cup Gate!At("ready")'
    BY <1>2, <1>5, <2>1 DEF Gate!Probe, Gate!At, GateInv, Gate!SpendIsSelective
  <2>6. Gate!SpendIsSelective'
    BY <2>4, <2>5, SameCardinality DEF Gate!SpendIsSelective
  <2>7. QED
    BY <1>2, <1>3, <2>2, <2>6 DEF GateInv
<1>6. QED
  BY <1>1, <1>4, <1>5

(* Nothing is said but of the stages and of the spending. *)
LEMMA SameStages ==
  ASSUME GateInv, Gate!TypeOK', stage' = stage, Ran' = Ran
  PROVE  GateInv'
<1>1. \A s : Gate!At(s)' = Gate!At(s)
  BY DEF Gate!At, stage
<1>2. TiersAreOver'
  BY <1>1 DEF GateInv, TiersAreOver
<1>3. Gate!SpendIsSelective'
  BY <1>1 DEF GateInv, Gate!SpendIsSelective
<1>4. QED
  BY <1>2, <1>3 DEF GateInv

(* Every step keeps the cascade's invariant, and after a spend the stages. *)
LEMMA GateStep ==
  ASSUME MaxRuns \in Nat \ {0}, GateInv, [Gate!Next]_(Gate!vars)
  PROVE  GateInv' /\ (Ran # {} => stage' = stage)
<1>1. CASE \/ \E C \in SUBSET Branch : Gate!Propose(C)
           \/ \E c \in Branch : Gate!Screen(c) \/ Gate!Judge(c)
  <2>1. Gate!TypeOK' /\ Ran' = Ran /\ (Ran # {} => stage' = stage)
    BY <1>1, TierStep
  <2>2. CASE Ran = {}
    BY <2>1, <2>2, NothingSpentNext
  <2>3. CASE Ran # {}
    BY <2>1, <2>3, SameStages
  <2>4. QED
    BY <2>1, <2>2, <2>3
<1>2. CASE \E c \in Branch : Gate!Verify(c) \/ Gate!Probe(c)
  BY <1>2, SpendStep
<1>3. CASE UNCHANGED Gate!vars
  <2>1. UNCHANGED <<stage, Ran>>
    BY <1>3 DEF Gate!vars, stage
  <2>2. Gate!TypeOK'
    BY <2>1 DEF GateInv, Gate!TypeOK, stage
  <2>3. QED
    BY <2>1, <2>2, SameStages
<1>4. QED
  BY <1>1, <1>2, <1>3 DEF Gate!Next

(* What every cascade keeps, run_task keeps: the sandbox is never spent on a  *)
(* branch that was pruned or left to a human, never on evidence while one is  *)
(* selected, and never beyond the cap.                                        *)
THEOREM SandboxIsSpentSelectively == Spec => []Gate!SpendIsSelective
<1>1. MaxRuns \in Nat \ {0}
  BY RunTaskAssumption
<1>2. Gate!Init => GateInv
  BY <1>1, GateInit
<1>3. GateInv /\ [Gate!Next]_(Gate!vars) => GateInv'
  BY <1>1, GateStep
<1>4. GateInv => Gate!SpendIsSelective
  BY DEF GateInv
<1>5. QED
  BY <1>2, <1>3, <1>4, RunTaskIsACascade, PTL DEF FollowsTheCascade, Gate!Spec

(* The outcome of one branch never reaches the verdict on another one: no     *)
(* branch changes its stage after the first sandbox run of its task           *)
(* (cascade.py:124-139, orchestrator.py:376-415).                             *)
THEOREM SpendingEndsJudging == Spec => Gate!NoJudgingAfterASpend
<1>1. MaxRuns \in Nat \ {0}
  BY RunTaskAssumption
<1>2. Gate!Init => GateInv
  BY <1>1, GateInit
<1>3. GateInv /\ [Gate!Next]_(Gate!vars) => GateInv'
  BY <1>1, GateStep
<1>4. GateInv /\ [Gate!Next]_(Gate!vars) =>
        [Ran # {} => [b \in Branch |-> StageOf(b)]' = [b \in Branch |-> StageOf(b)]]_(Gate!vars)
  BY <1>1, GateStep DEF stage
<1>5. QED
  BY <1>2, <1>3, <1>4, RunTaskIsACascade, PTL
     DEF FollowsTheCascade, Gate!Spec, Gate!NoJudgingAfterASpend

-----------------------------------------------------------------------------
(* What a decided row says: the aggregate of its two opinions and, unless    *)
(* the oracle overruled it, the decision on its own signals; a branch that   *)
(* was not pruned compiled and has a score.                                  *)
Row(s, d, cov, t) ==
  /\ s.p_c = 1 =>
       /\ s.p_t = aggregate_p_t(s.p_t_latent, s.p_t_sim)
       /\ d.reason = "ORACLE_CRASH" \/ d = decide(s, Recal, cov, Conformal, t = 2)
  /\ d.reason = "ORACLE_CRASH" => d.routing = "PRUNE"
  /\ d.routing # "PRUNE" => s.p_c = 1 /\ d.score \in Int

Rows == \A b \in Branch : tier[b] > 0 => Row(sig[b], dec[b], ctx[b].coverage_u, tier[b])

(* What is logged was decided, and what was run to execute was the best.     *)
Earned ==
  /\ \A b \in predictions : tier[b] > 0
  /\ \A b \in Ran : dec[b].routing = "EXECUTE" =>
       /\ tier[b] = 2
       /\ \A c \in Planned : dec[c].routing = "EXECUTE" =>
            /\ tier[c] > 0
            /\ dec[b].score > dec[c].score \/ dec[b].score = dec[c].score

(* A decision of decide says what a row has to say. *)
LEMMA DecidedRow ==
  ASSUME NEW s \in Signals, NEW cov \in Nat, NEW t \in {1, 2},
         s.p_t = aggregate_p_t(s.p_t_latent, s.p_t_sim)
  PROVE  Row(s, decide(s, Recal, cov, Conformal, t = 2), cov, t)
<1> DEFINE d == decide(s, Recal, cov, Conformal, t = 2)
<1>1. s.p_c \in {0, 1} /\ s.p_t \in PT /\ s.u \in Nat
  BY DEF Signals
<1>2. Recal[s.p_t] \in PT /\ EffectiveU(s.u, cov) \in Nat
  BY <1>1, ConstantFacts, EffectiveUType DEF Recalibrators
<1>3. score(s, Recal[s.p_t], EffectiveU(s.u, cov)) \in Int
  BY <1>2, ScoreType
<1>4. d.reason # "ORACLE_CRASH" /\ (d.routing # "PRUNE" => s.p_c # 0 /\ d.score \in Int)
  BY <1>3 DEF decide
<1> HIDE DEF d
<1>5. Row(s, d, cov, t) <=> (s.p_c = 1 => d = decide(s, Recal, cov, Conformal, t = 2))
  BY <1>1, <1>4 DEF Row
<1>6. QED
  BY <1>5 DEF d

(* What the screen measures on a branch. *)
LEMMA MeasuredRow ==
  ASSUME NEW m \in Screens, NEW sim \in Prob
  PROVE  Row(Measured(m, sim),
             decide(Measured(m, sim), Recal, m.coverage_u, Conformal, FALSE),
             m.coverage_u, 1)
<1> DEFINE s == Measured(m, sim)
<1>1. s \in Signals /\ m.coverage_u \in Nat
  BY MeasuredType, RunTaskAssumption DEF ScreenType
<1>2. s.p_t = aggregate_p_t(s.p_t_latent, s.p_t_sim)
  BY DEF Measured
<1> HIDE DEF s
<1>3. Row(s, decide(s, Recal, m.coverage_u, Conformal, 1 = 2), m.coverage_u, 1)
  BY <1>1, <1>2, DecidedRow
<1>4. (1 = 2) = FALSE
  OBVIOUS
<1>5. Row(s, decide(s, Recal, m.coverage_u, Conformal, FALSE), m.coverage_u, 1)
  BY <1>3, <1>4
<1>6. QED
  BY <1>5 DEF s

(* A branch that failed the gate did not compile, as far as its row says. *)
LEMMA GateRow ==
  ASSUME NEW why \in {"UNSAFE_PATCH", "SYMBOLIC_FAIL"}, NEW p, NEW cov
  PROVE  Row([NoSignal EXCEPT !.c_planner = p],
             [score |-> NoScore, routing |-> "PRUNE", reason |-> why], cov, 1)
<1>1. [NoSignal EXCEPT !.c_planner = p].p_c = 0
  BY DEF NoSignal
<1>2. QED
  BY <1>1 DEF Row

(* A judgment, and a prune by the oracle. *)
LEMMA JudgedRow ==
  ASSUME TypeInv, NEW b \in Branch, NEW j \in Answers,
         NEW s, s = WithJudgment(sig[b], j.sim, j.crit)
  PROVE  /\ Row(s, Verdict(b, s), ctx[b].coverage_u, 2)
         /\ Row(s, [Verdict(b, s) EXCEPT !.routing = "PRUNE", !.reason = "ORACLE_CRASH"],
                ctx[b].coverage_u, 2)
<1>1. /\ sig[b] \in Signals /\ ctx[b].coverage_u \in Nat /\ j.sim \in Prob /\ j.crit \in Prob
      /\ s \in Signals /\ Verdict(b, s) \in Decision
  BY AnswersType, JudgeWrites DEF TypeInv, TypeOK
<1>2. s.p_t = aggregate_p_t(s.p_t_latent, s.p_t_sim)
  BY <1>1, WithJudgmentFacts
<1>3. Row(s, decide(s, Recal, ctx[b].coverage_u, Conformal, 2 = 2), ctx[b].coverage_u, 2)
  BY <1>1, <1>2, DecidedRow
<1>4. (2 = 2) = TRUE
  OBVIOUS
<1>5. Row(s, Verdict(b, s), ctx[b].coverage_u, 2)
  BY <1>3, <1>4 DEF Verdict
<1>6. \A v \in Decision :
        LET w == [v EXCEPT !.routing = "PRUNE", !.reason = "ORACLE_CRASH"]
        IN  w.routing = "PRUNE" /\ w.reason = "ORACLE_CRASH"
  BY DEF Decision
<1>7. QED
  BY <1>1, <1>2, <1>5, <1>6 DEF Row

(* A write that says what it has to say leaves all rows doing so. *)
LEMMA WriteRow ==
  ASSUME TypeOK, Rows, NEW c \in Branch, NEW s, NEW d, NEW x, NEW t, Row(s, d, x.coverage_u, t),
         sig' = [sig EXCEPT ![c] = s], dec' = [dec EXCEPT ![c] = d],
         ctx' = [ctx EXCEPT ![c] = x], tier' = [tier EXCEPT ![c] = t]
  PROVE  Rows'
<1>1. /\ sig'[c] = s /\ dec'[c] = d /\ ctx'[c] = x /\ tier'[c] = t
      /\ \A b \in Branch \ {c} : /\ sig'[b] = sig[b] /\ dec'[b] = dec[b]
                                 /\ ctx'[b] = ctx[b] /\ tier'[b] = tier[b]
  BY DEF TypeOK
<1>2. \A b \in Branch : tier'[b] > 0 => Row(sig'[b], dec'[b], ctx'[b].coverage_u, tier'[b])
  BY <1>1 DEF Rows
<1>3. QED
  BY <1>2 DEF Rows

(* The screen keeps the rows. *)
LEMMA ScreenKeepsRows ==
  ASSUME TypeInv, Rows, ScreenGateFails \/ ScreenBranch
  PROVE  Rows'
<1>1. Screening
  BY DEF ScreenGateFails, ScreenBranch
<1>2. PICK c \in Branch : c = cursor
  BY <1>1, ConstantFacts DEF Screening, TypeInv, TypeOK, Branch
<1>3. \A s, d, x : Screened(c, s, d, x) /\ Row(s, d, x.coverage_u, 1) => Rows'
  <2> SUFFICES ASSUME NEW s, NEW d, NEW x, Screened(c, s, d, x), Row(s, d, x.coverage_u, 1)
               PROVE  Rows'
    OBVIOUS
  <2>1. /\ sig' = [sig EXCEPT ![c] = s] /\ dec' = [dec EXCEPT ![c] = d]
        /\ ctx' = [ctx EXCEPT ![c] = x] /\ tier' = [tier EXCEPT ![c] = 1]
    BY DEF Screened
  <2>2. QED
    BY <2>1, WriteRow DEF TypeInv
<1>4. CASE ScreenGateFails
  <2>1. PICK why \in {"UNSAFE_PATCH", "SYMBOLIC_FAIL"}, m \in Screens :
          Screened(c, [NoSignal EXCEPT !.c_planner = m.c_planner],
                   [score |-> NoScore, routing |-> "PRUNE", reason |-> why], NoCtx)
    BY <1>2, <1>4 DEF ScreenGateFails
  <2>2. Row([NoSignal EXCEPT !.c_planner = m.c_planner],
            [score |-> NoScore, routing |-> "PRUNE", reason |-> why], NoCtx.coverage_u, 1)
    BY GateRow
  <2>3. QED
    BY <1>3, <2>1, <2>2
<1>5. CASE ScreenBranch
  <2>1. PICK m \in Screens :
          LET optimistic == Measured(m, ScreenSim)
              d == decide(optimistic, Recal, m.coverage_u, Conformal, FALSE)
              s == IF d.routing = "PRUNE" THEN Measured(m, 0) ELSE optimistic
          IN  Screened(c, s, decide(s, Recal, m.coverage_u, Conformal, FALSE),
                       [coverage_u |-> m.coverage_u,
                        edits_function |-> m.edits_function])
    BY <1>2, <1>5 DEF ScreenBranch
  <2>2. PICK sim \in Prob :
          Screened(c, Measured(m, sim),
                   decide(Measured(m, sim), Recal, m.coverage_u, Conformal, FALSE),
                   [coverage_u |-> m.coverage_u, edits_function |-> m.edits_function])
    BY <2>1, ConstantFacts
  <2> DEFINE x == [coverage_u |-> m.coverage_u, edits_function |-> m.edits_function]
  <2>3. Row(Measured(m, sim),
            decide(Measured(m, sim), Recal, m.coverage_u, Conformal, FALSE),
            x.coverage_u, 1)
    BY MeasuredRow
  <2>4. QED
    BY <1>3, <2>2, <2>3
<1>6. QED
  BY <1>4, <1>5

(* And so do the judgments, whether the oracle overrules them or not. *)
LEMMA JudgeKeepsRows ==
  ASSUME TypeInv, Rows, JudgeBranch \/ JudgeWithOracle
  PROVE  Rows'
<1>1. Judging
  BY DEF JudgeBranch, JudgeWithOracle
<1>2. PICK c \in Branch : c = cursor
  BY <1>1, ConstantFacts DEF Judging, TypeInv, TypeOK, Branch
<1>3. \A s, d : Judged(c, s, d) /\ Row(s, d, ctx[c].coverage_u, 2) => Rows'
  <2> SUFFICES ASSUME NEW s, NEW d, Judged(c, s, d), Row(s, d, ctx[c].coverage_u, 2)
               PROVE  Rows'
    OBVIOUS
  <2>1. ctx' = [ctx EXCEPT ![c] = ctx[c]]
    BY DEF Judged, TypeInv, TypeOK
  <2>2. /\ sig' = [sig EXCEPT ![c] = s] /\ dec' = [dec EXCEPT ![c] = d]
        /\ tier' = [tier EXCEPT ![c] = 2]
    BY DEF Judged
  <2>3. QED
    BY <2>1, <2>2, WriteRow DEF TypeInv
<1>4. PICK j \in Answers :
        LET s == WithJudgment(sig[c], j.sim, j.crit) IN
        \/ Judged(c, s, Verdict(c, s))
        \/ Judged(c, s, [Verdict(c, s) EXCEPT !.routing = "PRUNE", !.reason = "ORACLE_CRASH"])
  BY <1>2 DEF JudgeBranch, JudgeWithOracle
<1>5. QED
  BY <1>3, <1>4, JudgedRow

(* The list of branches is set, and rows of outcomes and predictions are      *)
(* written, at these points only.                                            *)
LEMMA OnlySpending ==
  ASSUME [Next]_vars
  PROVE  /\ Plan \/ RunFinalist \/ Acquire \/ UNCHANGED <<n, outcomes>>
         /\ LogPrediction \/ UNCHANGED predictions
<1>1. CASE Step
  BY <1>1 DEF Step, Plan, InsertBranch, InsertEnds, PlannerFails, BudgetStops, Raises,
     ScreenGateFails, ScreenBranch, Screened, ScreenEnds, CallAgents, SkipPruned, JudgeBranch,
     JudgeWithOracle, Judged, OracleRaises, JudgeEnds, LogPrediction, LogPruned, LogEnds, RunFinalist, NoFinalist,
     Acquire, Sandboxed, AcquireEnds, SandboxRaises, Finalize, table_vars
<1>2. CASE ClockExpires \/ Kill \/ UNCHANGED vars
  BY <1>2 DEF ClockExpires, Kill, vars, table_vars
<1>3. QED
  BY <1>1, <1>2 DEF Next

(* What the tables hold of decisions that are made, stays. *)
LEMMA EarnedNext ==
  ASSUME TierInv, Earned, [Next]_vars
  PROVE  Earned'
<1> USE DEF TierInv, TypeInv
<1>1. CASE ScreenGateFails \/ ScreenBranch \/ JudgeBranch \/ JudgeWithOracle
  <2>1. /\ pc \in Unspent /\ UNCHANGED <<outcomes, predictions>>
        /\ \E c \in Branch, t \in {1, 2} : tier' = [tier EXCEPT ![c] = t]
    <3>1. CASE ScreenGateFails \/ ScreenBranch
      BY <3>1, ScreenDecides, ConstantFacts
         DEF Screening, Screened, Unspent, table_vars, TypeOK, Branch
    <3>2. CASE JudgeBranch \/ JudgeWithOracle
      BY <3>2, JudgeDecides, ConstantFacts
         DEF Judging, Judged, Unspent, table_vars, TypeOK, Branch
    <3>3. QED
      BY <1>1, <3>1, <3>2
  <2>2. Ran' = {}
    BY <2>1 DEF Spending, Ran
  <2>3. \A b \in Branch : tier[b] > 0 => tier'[b] > 0
    BY <2>1 DEF TypeOK
  <2>4. \A b \in predictions' : tier'[b] > 0
    BY <2>1, <2>3 DEF Earned, TypeOK
  <2>5. QED
    BY <2>2, <2>4 DEF Earned
<1>2. CASE UNCHANGED <<sig, dec, ctx, tier>>
  <2> USE <1>2
  <2>1. \A b \in predictions' : tier'[b] > 0
    <3>1. CASE LogPrediction
      <4>1. cursor \in Planned /\ pc = "log" /\ predictions' = predictions \cup {cursor}
        BY <3>1 DEF LogPrediction, Planned, TypeOK
      <4>2. tier[cursor] > 0
        BY <4>1 DEF Tiers, Decided
      <4>3. QED
        BY <4>1, <4>2 DEF Earned
    <3>2. CASE predictions' = predictions
      BY <3>2 DEF Earned
    <3>3. QED
      BY <3>1, <3>2, OnlySpending
  <2>2. CASE Plan
    BY <2>1, <2>2 DEF Plan, Spending, Unspent, Ran, Earned, table_vars
  <2>3. CASE RunFinalist
    <3>1. PICK b \in Planned, passed \in BOOLEAN :
            IsBest(b, Planned, dec) /\ Sandboxed(b, passed)
      BY <2>3 DEF RunFinalist
    <3>2. Ran' = Ran \cup {b} /\ Planned' = Planned /\ pc = "finalist"
      BY <2>3, <3>1, OneOutcome DEF RunFinalist, Sandboxed, Planned
    <3>3. dec[b].routing = "EXECUTE" /\ tier[b] = 2 /\ \A c \in Planned : tier[c] > 0
      BY <3>1, <3>2 DEF IsBest, Tiers, Decided
    <3>4. QED
      BY <2>1, <3>1, <3>2, <3>3 DEF Earned, IsBest
  <2>4. CASE Acquire
    <3>1. PICK b \in Planned, passed \in BOOLEAN : NextRanked(b) /\ Sandboxed(b, passed)
      BY <2>4 DEF Acquire
    <3>2. Ran' = Ran \cup {b} /\ Planned' = Planned
      BY <3>1, OneOutcome DEF Sandboxed, Planned
    <3>3. dec[b].routing # "EXECUTE"
      BY <3>1 DEF NextRanked, Uncertain
    <3>4. QED
      BY <2>1, <3>2, <3>3 DEF Earned
  <2>5. CASE UNCHANGED <<n, outcomes>>
    BY <2>1, <2>5 DEF Earned, Ran, Planned
  <2>6. QED
    BY <2>2, <2>3, <2>4, <2>5, OnlySpending
<1>3. QED
  BY <1>1, <1>2, OnlyTiersDecide

(* The invariant of the decisions holds in every reachable state. *)
LEMMA GroundedInvariant == Spec => [](TierInv /\ Rows /\ Earned)
<1>1. Init => Rows /\ Earned
  <2> SUFFICES ASSUME Init PROVE Rows /\ Earned
    OBVIOUS
  <2>1. predictions = {} /\ outcomes = {} /\ \A b \in Branch : tier[b] = 0
    BY DEF Init
  <2>2. Ran = {}
    BY <2>1 DEF Ran
  <2>3. QED
    BY <2>1, <2>2 DEF Rows, Earned
<1>2. TypeInv /\ Rows /\ [Next]_vars => Rows'
  <2> SUFFICES ASSUME TypeInv, Rows, [Next]_vars PROVE Rows'
    OBVIOUS
  <2>1. CASE UNCHANGED <<sig, dec, ctx, tier>>
    BY <2>1 DEF Rows
  <2>2. QED
    BY <2>1, OnlyTiersDecide, ScreenKeepsRows, JudgeKeepsRows
<1>3. TierInv /\ Earned /\ [Next]_vars => Earned'
  BY EarnedNext
<1>4. TierInv => TypeInv
  BY DEF TierInv
<1>5. QED
  BY <1>1, <1>2, <1>3, <1>4, TierInvariant, PTL DEF Spec

(* A decision to execute means what FinalistEarnedExecute asks of it. *)
LEMMA ExecuteMeans ==
  ASSUME NEW s \in Signals, NEW cov \in Nat,
         decide(s, Recal, cov, Conformal, TRUE).routing = "EXECUTE"
  PROVE  /\ s.u <= UMax /\ cov <= UMax /\ Recal[s.p_t] >= Conformal
         /\ s.u_aleatoric > AleatoricMax =>
              \/ 2 * Recal[s.p_t] > One * (One + 2 * CoinFlipBand)
              \/ 2 * Recal[s.p_t] < One * (One - 2 * CoinFlipBand)
<1>1. /\ s.u \in Nat /\ s.p_t \in PT /\ Recal[s.p_t] \in Nat /\ Recal[s.p_t] \in PT
      /\ UMax \in Nat /\ Conformal \in Nat /\ One \in Nat /\ CoinFlipBand \in Nat
  BY ConstantFacts, ConstantsAssumption, OneFacts DEF Signals, Recalibrators, PT
<1>2. EffectiveU(s.u, cov) \in Nat /\ EffectiveU(s.u, cov) >= s.u /\ EffectiveU(s.u, cov) >= cov
  BY <1>1, EffectiveUType
<1>3. /\ ~(EffectiveU(s.u, cov) > UMax) /\ ~(Recal[s.p_t] < Conformal)
      /\ s.u_aleatoric > AleatoricMax => ~NearCoinFlip(Recal[s.p_t])
  BY DEF decide
<1>4. /\ One * (One + 2 * CoinFlipBand) = One * One + 2 * CoinFlipBand * One
      /\ One * (One - 2 * CoinFlipBand) = One * One - 2 * CoinFlipBand * One
  BY <1>1
<1>5. \A p \in Nat : ~NearCoinFlip(p) =>
        \/ 2 * p > One * One + 2 * CoinFlipBand * One
        \/ 2 * p < One * One - 2 * CoinFlipBand * One
  <2>1. One * One \in Int /\ 2 * CoinFlipBand * One \in Int
    BY <1>1
  <2>2. QED
    BY <2>1 DEF NearCoinFlip
<1>6. QED
  BY <1>1, <1>2, <1>3, <1>4, <1>5

(* What the arbiter said of a branch is what the row's own signals say, and  *)
(* the branch the sandbox is spent on first had earned it and was the best,  *)
(* for any constants, measurements and judgments (orchestrator.py:204, 376). *)
THEOREM DecisionsFollowSignals == Spec => []DecisionsAreGrounded
<1>1. TierInv /\ Rows /\ Earned => RowsAreConsistent
  <2> SUFFICES ASSUME TierInv, Rows, Earned, NEW b \in predictions, sig[b].p_c = 1
               PROVE  /\ sig[b].p_t = Alpha * sig[b].p_t_latent
                                        + (One - Alpha) * sig[b].p_t_sim
                      /\ dec[b].reason = "ORACLE_CRASH"
                           \/ dec[b] = decide(sig[b], Recal, ctx[b].coverage_u, Conformal,
                                              tier[b] = 2)
    BY DEF RowsAreConsistent
  <2>1. Row(sig[b], dec[b], ctx[b].coverage_u, tier[b])
    BY DEF TierInv, TypeInv, TypeOK, Rows, Earned
  <2>2. QED
    BY <2>1 DEF Row, aggregate_p_t
<1>2. TierInv /\ Rows /\ Earned => FinalistIsJustified
  <2> SUFFICES ASSUME TierInv, Rows, Earned, NEW b \in Ran, dec[b].routing = "EXECUTE"
               PROVE  /\ LET p_t == Recal[Alpha * sig[b].p_t_latent
                                            + (One - Alpha) * sig[b].p_t_sim]
                         IN  /\ tier[b] = 2
                             /\ sig[b].u <= UMax /\ ctx[b].coverage_u <= UMax
                             /\ p_t >= Conformal
                             /\ sig[b].u_aleatoric > AleatoricMax =>
                                  \/ 2 * p_t > One * (One + 2 * CoinFlipBand)
                                  \/ 2 * p_t < One * (One - 2 * CoinFlipBand)
                      /\ \A c \in Planned : dec[c].routing = "EXECUTE" =>
                           dec[b].score >= dec[c].score
    BY DEF FinalistIsJustified, FinalistEarnedExecute, FinalistIsBest
  <2>1. b \in Branch /\ tier[b] = 2 /\ sig[b] \in Signals /\ ctx[b].coverage_u \in Nat
    BY PlannedFacts DEF TierInv, TypeInv, TypeOK, Earned
  <2>2. Row(sig[b], dec[b], ctx[b].coverage_u, 2)
    BY <2>1 DEF Rows
  <2>3. /\ sig[b].p_t = Alpha * sig[b].p_t_latent + (One - Alpha) * sig[b].p_t_sim
        /\ dec[b] = decide(sig[b], Recal, ctx[b].coverage_u, Conformal, 2 = 2)
        /\ dec[b].score \in Int
    BY <2>2 DEF Row, aggregate_p_t
  <2>4. (2 = 2) = TRUE
    OBVIOUS
  <2>5. decide(sig[b], Recal, ctx[b].coverage_u, Conformal, TRUE).routing = "EXECUTE"
    BY <2>3, <2>4
  <2>6. /\ sig[b].u <= UMax /\ ctx[b].coverage_u <= UMax /\ Recal[sig[b].p_t] >= Conformal
        /\ sig[b].u_aleatoric > AleatoricMax =>
             \/ 2 * Recal[sig[b].p_t] > One * (One + 2 * CoinFlipBand)
             \/ 2 * Recal[sig[b].p_t] < One * (One - 2 * CoinFlipBand)
    BY <2>1, <2>5, ExecuteMeans
  <2>7. \A c \in Planned : dec[c].routing = "EXECUTE" => dec[b].score >= dec[c].score
    <3> SUFFICES ASSUME NEW c \in Planned, dec[c].routing = "EXECUTE"
                 PROVE  dec[b].score >= dec[c].score
      OBVIOUS
    <3>1. tier[c] > 0 /\ (dec[b].score > dec[c].score \/ dec[b].score = dec[c].score)
      BY DEF Earned
    <3>2. c \in Branch
      BY PlannedFacts DEF TierInv, TypeInv
    <3>3. dec[c].score \in Int
      BY <3>1, <3>2 DEF Rows, Row
    <3>4. QED
      BY <2>3, <3>1, <3>3
  <2>8. QED
    BY <2>1, <2>3, <2>6, <2>7
<1>3. TierInv /\ Rows /\ Earned => DecisionsAreGrounded
  BY <1>1, <1>2 DEF DecisionsAreGrounded
<1>4. QED
  BY <1>3, GroundedInvariant, PTL

-----------------------------------------------------------------------------
(* The evidence.  Nothing is spent before the finalist; while the agents'    *)
(* answers are read, the oracle had one run at most for each branch read; a  *)
(* task that goes on to its end without a branch had nothing left to run, or *)
(* no run left.                                                              *)
Read == {b \in asked : b < cursor}

EvidenceInv ==
  /\ pc \in Unspent => runs = 0
  /\ runs <= MaxRuns
  /\ MostInformativeFirst
  /\ pc \in {"plan", "insert", "screen", "llm"} => oracle_runs = 0
  /\ pc = "judge" => oracle_runs <= Cardinality(Read)
  /\ oracle_runs <= Cardinality(asked)
  /\ pc \in {"finalize", "done"} /\ n > 0 /\ report.best = 0 =>
       runs = MaxRuns \/ Uncertain \subseteq Ran

(* What a run would tell is a number. *)
LEMMA InfoGainType ==
  ASSUME NEW s \in Signals
  PROVE  info_gain(s) \in Int
<1>1. s.p_t \in PT /\ s.u \in Nat /\ One \in Nat
  BY OneFacts DEF Signals
<1>2. normalize_uncertainty(s.u) \in Int
  BY <1>1 DEF normalize_uncertainty
<1>3. QED
  BY <1>1, <1>2, EntropyAssumption DEF info_gain

LEMMA AskedFacts ==
  ASSUME TypeOK
  PROVE  /\ IsFiniteSet(asked) /\ IsFiniteSet(Read) /\ Read \subseteq asked
         /\ Cardinality(asked) \in Nat /\ Cardinality(Read) \in Nat
         /\ Cardinality(Read) <= Cardinality(asked)
<1>1. asked \subseteq Branch /\ IsFiniteSet(Branch) /\ Read \subseteq asked
  BY PlannedFacts DEF TypeOK, Read
<1>2. IsFiniteSet(asked) /\ IsFiniteSet(Read)
  BY <1>1, FS_Subset
<1>3. QED
  BY <1>1, <1>2, FS_Subset, FS_CardinalityType

(* The order of the evidence, after a step that runs nothing. *)
LEMMA OrderStays ==
  ASSUME UNCHANGED <<n, sig, dec, outcomes>>, MostInformativeFirst
  PROVE  MostInformativeFirst'
BY DEF MostInformativeFirst, Ran, Planned

LEMMA NothingRanNext ==
  ASSUME outcomes' = {}
  PROVE  MostInformativeFirst'
BY DEF MostInformativeFirst, Ran

(* The order, after a run of the next branch of the ranking. *)
LEMMA AcquireInOrder ==
  ASSUME TypeOK, MostInformativeFirst, NEW b, NEW passed, NextRanked(b), Sandboxed(b, passed)
  PROVE  MostInformativeFirst'
<1>1. Ran' = Ran \cup {b} /\ UNCHANGED <<n, sig, dec>> /\ Planned' = Planned
  BY OneOutcome DEF Sandboxed, pred_vars, Planned
<1>2. SUFFICES ASSUME NEW a \in Ran \cup {b}, NEW c \in Planned \ (Ran \cup {b}),
                      dec[a].routing = "INCREMENTAL", dec[c].routing = "INCREMENTAL"
               PROVE  info_gain(sig[a]) >= info_gain(sig[c])
  BY <1>1 DEF MostInformativeFirst
<1>3. CASE a \in Ran
  BY <1>2, <1>3 DEF MostInformativeFirst
<1>4. CASE a = b
  <2>1. c \in Uncertain \ Ran /\ c # b
    BY <1>2 DEF Uncertain
  <2>2. RankedBefore(b, c, sig)
    BY <2>1 DEF NextRanked
  <2>3. sig[b] \in Signals /\ sig[c] \in Signals
    BY <2>1, PlannedFacts DEF NextRanked, Uncertain, TypeOK
  <2>4. info_gain(sig[b]) \in Int /\ info_gain(sig[c]) \in Int
    BY <2>3, InfoGainType
  <2>5. QED
    BY <1>4, <2>2, <2>4 DEF RankedBefore
<1>5. QED
  BY <1>3, <1>4

(* The oracle's runs, after an answer was read. *)
LEMMA OneMoreRead ==
  ASSUME TypeOK, EvidenceInv, pc = "judge", cursor \in asked, asked' = asked,
         oracle_runs' \in {oracle_runs, oracle_runs + 1},
         \/ cursor' = cursor + 1 /\ pc' = "judge"
         \/ pc' = "crashed"
  PROVE  /\ pc' = "judge" => oracle_runs' <= Cardinality(Read')
         /\ oracle_runs' <= Cardinality(asked')
<1> DEFINE With == Read \cup {cursor}
<1>1. /\ IsFiniteSet(asked) /\ IsFiniteSet(Read) /\ Cardinality(Read) \in Nat
      /\ Cardinality(asked) \in Nat /\ oracle_runs \in Nat /\ cursor \in Nat
      /\ oracle_runs <= Cardinality(Read)
  BY AskedFacts DEF TypeOK, EvidenceInv
<1>2. cursor \notin Read /\ With \subseteq asked
  BY <1>1 DEF Read
<1>3. Cardinality(With) = Cardinality(Read) + 1
  BY <1>1, <1>2, FS_AddElement
<1>4. Cardinality(With) <= Cardinality(asked)
  BY <1>1, <1>2, FS_Subset
<1>5. cursor' = cursor + 1 => Read' = With
  <2>1. \A b \in asked : b < cursor + 1 <=> b < cursor \/ b = cursor
    BY <1>1 DEF TypeOK, Planned
  <2>2. \A b : b \in asked /\ b < cursor + 1 <=> b \in With
    BY <1>2, <2>1 DEF Read
  <2>3. cursor' = cursor + 1 => Read' = {b \in asked : b < cursor + 1}
    BY DEF Read
  <2>4. QED
    BY <2>2, <2>3
<1> HIDE DEF With
<1>6. Cardinality(With) \in Nat
  BY <1>1, <1>3
<1>7. oracle_runs' <= Cardinality(With) /\ oracle_runs' \in Nat
  BY <1>1, <1>3
<1>8. QED
  BY <1>1, <1>4, <1>5, <1>6, <1>7

LEMMA EvidenceNext ==
  ASSUME TierInv, EvidenceInv, [Next]_vars
  PROVE  EvidenceInv'
<1> USE DEF TierInv, TypeInv
<1>0. MaxRuns \in Nat \ {0} /\ runs \in Nat /\ oracle_runs \in Nat
  BY RunTaskAssumption DEF TypeOK
<1>1. CASE Plan
  <2>1. /\ pc = "plan" /\ pc' = "insert" /\ UNCHANGED <<asked, outcomes, runs, oracle_runs>>
    BY <1>1 DEF Plan, Start, pred_vars, table_vars, run_vars
  <2>2. outcomes' = {}
    BY <2>1 DEF Spending, Unspent
  <2>3. QED
    BY <2>1, <2>2, NothingRanNext DEF EvidenceInv, Unspent
<1>2. CASE ScreenGateFails \/ ScreenBranch
  <2>1. /\ pc = "screen" /\ pc' = pc /\ UNCHANGED <<asked, outcomes, runs, oracle_runs>>
    BY <1>2, ScreenDecides DEF Screening, Screened, table_vars, run_vars
  <2>2. outcomes' = {}
    BY <2>1 DEF Spending, Unspent
  <2>3. QED
    BY <2>1, <2>2, NothingRanNext DEF EvidenceInv, Unspent
<1>3. CASE JudgeBranch \/ JudgeWithOracle
  <2>1. /\ pc = "judge" /\ cursor \in asked /\ UNCHANGED <<asked, outcomes, runs>>
        /\ \/ cursor' = cursor + 1 /\ pc' = "judge"
           \/ pc' = "crashed"
    BY <1>3, JudgeDecides DEF Judging, Judged, Goto, table_vars
  <2>2. oracle_runs' \in {oracle_runs, oracle_runs + 1}
    BY <1>3 DEF JudgeBranch, JudgeWithOracle
  <2>3. outcomes' = {}
    BY <2>1 DEF Spending, Unspent
  <2>4. /\ pc' = "judge" => oracle_runs' <= Cardinality(Read')
        /\ oracle_runs' <= Cardinality(asked')
    BY <2>1, <2>2, OneMoreRead
  <2>5. QED
    BY <2>1, <2>3, <2>4, NothingRanNext DEF EvidenceInv, Unspent
<1>4. CASE OracleRaises
  <2>1. /\ pc = "judge" /\ cursor \in asked /\ UNCHANGED <<asked, n, sig, dec, outcomes, runs>>
        /\ oracle_runs' = oracle_runs + 1 /\ pc' = "crashed"
    BY <1>4 DEF OracleRaises, Judging, Goto, pred_vars, table_vars
  <2>2. oracle_runs' <= Cardinality(asked')
    BY <2>1, OneMoreRead
  <2>3. QED
    BY <2>1, <2>2, OrderStays DEF EvidenceInv, Unspent
<1>5. CASE CallAgents
  <2>1. /\ pc = "llm" /\ pc' = "judge" /\ cursor' = 1
        /\ UNCHANGED <<n, sig, dec, outcomes, runs, oracle_runs>>
    BY <1>5 DEF CallAgents, Start, table_vars, run_vars
  <2>2. asked' \subseteq Branch /\ IsFiniteSet(Branch)
    BY <1>5, PlannedFacts DEF CallAgents, Survivors
  <2>3. Read' \subseteq asked'
    BY DEF Read
  <2>4. Cardinality(asked') \in Nat /\ Cardinality(Read') \in Nat
    BY <2>2, <2>3, FS_Subset, FS_CardinalityType
  <2>5. oracle_runs' = 0
    BY <2>1 DEF EvidenceInv
  <2>6. QED
    BY <2>1, <2>4, <2>5, OrderStays DEF EvidenceInv, Unspent
<1>6. CASE SkipPruned
  <2>1. /\ pc = "judge" /\ pc' = pc /\ cursor \notin asked /\ cursor' = cursor + 1
        /\ UNCHANGED <<n, sig, dec, asked, outcomes, runs, oracle_runs>>
    BY <1>6 DEF SkipPruned, Judging, pred_vars, table_vars, run_vars
  <2>2. \A b \in asked : b \in Int
    BY DEF TypeOK, Planned
  <2>3. Read' = Read
    BY <2>1, <2>2 DEF Read, TypeOK
  <2>4. QED
    BY <2>1, <2>3, OrderStays DEF EvidenceInv, Unspent
<1>7. CASE InsertBranch \/ InsertEnds \/ ScreenEnds \/ JudgeEnds
  BY <1>7, OrderStays DEF InsertBranch, InsertEnds, ScreenEnds, JudgeEnds, Start, EvidenceInv, Unspent,
     pred_vars, table_vars, run_vars
<1>8. CASE LogPrediction \/ LogPruned \/ LogEnds \/ NoFinalist
  BY <1>8, OrderStays DEF LogPrediction, LogPruned, LogEnds, NoFinalist, Goto, EvidenceInv,
     Unspent, pred_vars, table_vars, run_vars
<1>9. CASE PlannerFails
  <2>1. n' = 0
    BY <1>9 DEF PlannerFails, PhaseInv
  <2>2. QED
    BY <1>9, <2>1, OrderStays DEF PlannerFails, Goto, EvidenceInv, Unspent,
       pred_vars, table_vars, run_vars
<1>10. CASE BudgetStops \/ Raises \/ Kill
  BY <1>10, OrderStays DEF BudgetStops, Raises, Kill, Goto, EvidenceInv, Unspent,
     pred_vars, table_vars, run_vars
<1>11. CASE Finalize
  <2>1. /\ pc = "finalize" /\ pc' = "done" /\ Uncertain' = Uncertain /\ Ran' = Ran
        /\ UNCHANGED <<n, sig, dec, asked, outcomes, runs, oracle_runs, report>>
    BY <1>11 DEF Finalize, Goto, Uncertain, Planned, Ran, pred_vars, table_vars, run_vars
  <2>2. QED
    BY <2>1, OrderStays DEF EvidenceInv, Unspent
<1>12. CASE ClockExpires \/ UNCHANGED vars
  <2>1. /\ Uncertain' = Uncertain /\ Ran' = Ran /\ Read' = Read
        /\ UNCHANGED <<pc, n, sig, dec, asked, outcomes, runs, oracle_runs, report>>
    BY <1>12 DEF ClockExpires, vars, Uncertain, Planned, Ran, Read, pred_vars,
       table_vars, run_vars
  <2>2. QED
    BY <2>1, OrderStays DEF EvidenceInv
<1>13. CASE AcquireEnds
  <2>1. /\ pc = "acquire" /\ pc' = "finalize" /\ Uncertain' = Uncertain /\ Ran' = Ran
        /\ UNCHANGED <<n, sig, dec, asked, outcomes, runs, oracle_runs, report>>
        /\ ~RunsLeft \/ Uncertain \subseteq Ran
    BY <1>13 DEF AcquireEnds, Goto, Uncertain, Planned, Ran, pred_vars, table_vars, run_vars
  <2>2. runs' = MaxRuns \/ Uncertain' \subseteq Ran'
    BY <1>0, <2>1 DEF EvidenceInv, RunsLeft
  <2>3. QED
    BY <2>1, <2>2, OrderStays DEF EvidenceInv, Unspent
<1>14. CASE SandboxRaises
  <2>1. /\ pc \in {"finalist", "acquire"} /\ BudgetPoint /\ pc' = "crashed"
        /\ UNCHANGED <<n, sig, dec, asked, outcomes, oracle_runs>> /\ runs' = runs + 1
    BY <1>14 DEF SandboxRaises, Goto, pred_vars, table_vars
  <2>2. runs < MaxRuns
    BY <1>0, <2>1 DEF BudgetPoint, RunsLeft, EvidenceInv, Unspent
  <2>3. QED
    BY <1>0, <2>1, <2>2, OrderStays DEF EvidenceInv, Unspent
<1>15. CASE RunFinalist
  <2>1. PICK b \in Planned, passed \in BOOLEAN :
          /\ IsBest(b, Planned, dec) /\ Sandboxed(b, passed)
          /\ report' = [best |-> b, tests_passed |-> passed]
    BY <1>15 DEF RunFinalist
  <2>2. /\ pc = "finalist" /\ pc' = "finalize" /\ report'.best # 0 /\ runs' = runs + 1
        /\ UNCHANGED <<n, sig, dec, asked, oracle_runs>>
    BY <1>15, <2>1 DEF RunFinalist, Goto, Planned, Sandboxed, pred_vars
  <2>3. Ran' = {b} /\ dec'[b].routing = "EXECUTE"
    BY <2>1, <2>2, OneOutcome DEF IsBest, Spending, Unspent, Ran
  <2>4. MostInformativeFirst'
    BY <2>3 DEF MostInformativeFirst
  <2>5. QED
    BY <1>0, <2>2, <2>4 DEF EvidenceInv, Unspent
<1>16. CASE Acquire
  <2>1. PICK b \in Planned, passed \in BOOLEAN :
          NextRanked(b) /\ Sandboxed(b, passed) /\ Resolve(b, passed)
    BY <1>16 DEF Acquire
  <2>2. /\ pc = "acquire" /\ runs < MaxRuns /\ runs' = runs + 1 /\ b # 0
        /\ UNCHANGED <<n, asked, oracle_runs>>
    BY <1>16, <2>1 DEF Acquire, RunsLeft, Planned, Sandboxed, pred_vars
  <2>3. MostInformativeFirst'
    BY <2>1, AcquireInOrder DEF EvidenceInv
  <2>4. \/ pc' = "acquire"
        \/ pc' = "finalize" /\ report'.best # 0
    <3>1. CASE passed
      <4>1. report' = [best |-> b, tests_passed |-> TRUE] /\ pc' = "finalize"
        BY <2>1, <3>1, Zenon DEF Resolve, Goto
      <4>2. QED
        BY <2>2, <4>1
    <3>2. CASE ~passed
      BY <2>1, <2>2, <3>2 DEF Resolve
    <3>3. QED
      BY <3>1, <3>2
  <2>5. QED
    BY <1>0, <2>2, <2>3, <2>4 DEF EvidenceInv, Unspent
<1>17. QED
  BY <1>1, <1>2, <1>3, <1>4, <1>5, <1>6, <1>7, <1>8, <1>9, <1>10, <1>11, <1>12, <1>13,
     <1>14, <1>15, <1>16 DEF Next, Step

(* The runs for evidence go where they say most, none beyond the cap, and    *)
(* none is left over while a branch is uncertain (cost.py:105,               *)
(* orchestrator.py:397).                                                     *)
THEOREM EvidenceIsWellSpent == Spec => []EvidenceBudgetIsWellSpent
<1>1. Init => TierInv /\ EvidenceInv
  <2> SUFFICES ASSUME Init PROVE TierInv /\ EvidenceInv
    OBVIOUS
  <2>1. pc = "plan" /\ runs = 0 /\ oracle_runs = 0 /\ outcomes = {} /\ asked = {}
    BY DEF Init
  <2>2. Cardinality(asked) = 0 /\ Ran = {} /\ MaxRuns \in Nat
    BY <2>1, FS_EmptySet, ConstantFacts DEF Ran
  <2>3. MostInformativeFirst
    BY <2>2 DEF MostInformativeFirst
  <2>4. QED
    BY <2>1, <2>2, <2>3, TierInit DEF EvidenceInv
<1>2. (TierInv /\ EvidenceInv) /\ [Next]_vars => (TierInv /\ EvidenceInv)'
  BY NextTypeInv, TiersNext, SpendingNext, EvidenceNext DEF TierInv
<1>3. TierInv /\ EvidenceInv => EvidenceBudgetIsWellSpent
  BY DEF TierInv, Spending, EvidenceInv, EvidenceBudgetIsWellSpent, SandboxBudgetSpentInFull
<1>4. QED
  BY <1>1, <1>2, <1>3, PTL DEF Spec
=============================================================================
