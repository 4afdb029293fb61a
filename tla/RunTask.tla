------------------------------ MODULE RunTask ------------------------------
(***************************************************************************)
(* One call of Orchestrator.run_task (nse/orchestrator/orchestrator.py):   *)
(* plan, screen every branch, let the LLM judge the survivors, log, then   *)
(* sandbox the finalist or the most informative uncertain branches.        *)
(*                                                                         *)
(* Branches are positions 1 .. n of the planner's list (uuids in the code).*)
(* The phase pc names the point of run_task that is next; exceptions that  *)
(* leave run_task are the phases "aborted" (BudgetExceeded) and "crashed"  *)
(* (anything else), and "killed" is the death of the process: the four     *)
(* tables, which each insert commits at once, survive all three.           *)
(***************************************************************************)
EXTENDS Arbiter, FiniteSets

CONSTANTS
  K,           \* branches the planner client keeps (hp.k)
  MaxRuns,     \* budgets.max_sandbox_executions_per_task
  MaxTokens,   \* budgets.max_total_llm_tokens_per_task
  TokenUse,    \* tokens one agent call may cost
  Recal,       \* the recalibrator the orchestrator holds
  Conformal,   \* the conformal threshold it holds, 0 for none
  Screens,     \* what tier 1 may measure on a branch that applies
  Judgments    \* what the simulator and the critic may answer for a branch

Branch == 1 .. K

ScreenType == [p_c : {0, 1}, latent : Prob, u : Nat, u_aleatoric : Nat,
               r_long : Prob, c_planner : Prob, coverage_u : Nat,
               edits_function : BOOLEAN]

ASSUME RunTaskAssumption ==
  /\ K \in Nat /\ MaxRuns \in Nat \ {0} /\ MaxTokens \in Nat
  /\ TokenUse \subseteq Nat
  /\ Recal \in Recalibrators
  /\ Conformal \in Nat
  /\ Screens \subseteq ScreenType
  /\ Judgments \subseteq [sim : Prob, crit : Prob]

VARIABLES
  pc,           \* the phase of run_task
  n,            \* number of branches planned
  cursor,       \* the branch a loop of the current phase is at
  sig,          \* the signals of each branch's BranchPrediction
  dec,          \* its score, routing and prune reason
  ctx,          \* its _ScreenCtx: coverage_u and whether edited_fns is non-empty
  tier,         \* last tier that decided the branch: 0 none, 1 screen, 2 LLM
  asked,        \* the branches handed to the simulator and the critic
  tokens,       \* what the three token meters add up to
  late,         \* whether the wall-clock budget is spent
  branches,     \* table branches: the positions with a row
  predictions,  \* table predictions
  pruned,       \* table pruned_branches
  outcomes,     \* table outcomes: rows of branch and tests_passed
  runs,         \* sandbox runs of tier 3 (sandbox_runs)
  oracle_runs,  \* sandbox runs of the property oracle
  report        \* TaskReport: best_branch_id (0 for None), outcome_tests_passed

table_vars == <<branches, predictions, pruned, outcomes>>
pred_vars  == <<sig, dec, ctx, tier, asked>>
run_vars   == <<runs, oracle_runs, report>>
vars == <<pc, n, cursor, tokens, late, pred_vars, table_vars, run_vars>>

Phases   == {"plan", "insert", "screen", "llm", "judge", "log", "log_pruned", "finalist",
             "acquire", "finalize", "done", "aborted", "crashed", "killed"}
Terminal == {"done", "aborted", "crashed", "killed"}

Unrouted == [score |-> NoScore, routing |-> "UNROUTED", reason |-> "NONE"]
NoSignal == [p_c |-> 0, p_t_sim |-> 0, p_t_latent |-> 0, p_t |-> 0, u |-> 0,
             u_aleatoric |-> 0, r_critic |-> 0, r_long |-> 0, c_planner |-> 0]
NoCtx    == [coverage_u |-> 0, edits_function |-> FALSE]

Planned   == 1 .. n
Survivors == {b \in Planned : dec[b].routing # "PRUNE"}
NotExecuted == {b \in Planned : dec[b].routing # "EXECUTE"}   \* mutant of Uncertain
Uncertain == {b \in Planned : dec[b].routing = "INCREMENTAL"}
Ran       == {o.branch : o \in outcomes}

WithinBudget == ~late /\ tokens <= MaxTokens
RunsLeft     == runs < MaxRuns
HasFinalist  == \E b \in Planned : dec[b].routing = "EXECUTE"

Init ==
  /\ pc = "plan" /\ n = 0 /\ cursor = 1
  /\ tokens = 0 /\ late = FALSE
  /\ sig = [b \in Branch |-> NoSignal]
  /\ dec = [b \in Branch |-> Unrouted]
  /\ ctx = [b \in Branch |-> NoCtx]
  /\ tier = [b \in Branch |-> 0]
  /\ asked = {}
  /\ branches = {} /\ predictions = {} /\ pruned = {} /\ outcomes = {}
  /\ runs = 0 /\ oracle_runs = 0
  /\ report = [best |-> 0, tests_passed |-> FALSE]

(* SCREEN_OPTIMISTIC_SIM: the screen assumes the best-case simulator. *)
NeutralSim == One \div 2   \* mutant of ScreenSim
ScreenSim == One

Goto(phase) == pc' = phase
Start(phase) == pc' = phase /\ cursor' = 1

-----------------------------------------------------------------------------
(* An exception run_task does not handle: an agent reply that is neither well *)
(* formed nor an AgentError, a table or a copy of the repository that cannot  *)
(* be written, a branch that names a file the repository lacks.               *)
Raises ==
  /\ \/ pc \in {"plan", "insert"}
     \/ pc = "screen" /\ cursor <= n /\ WithinBudget
     \/ pc = "llm" /\ WithinBudget
  /\ Goto("crashed")
  /\ UNCHANGED <<n, cursor, tokens, late, pred_vars, table_vars, run_vars>>

(* The planner client keeps the first k branches of the reply. *)
Untruncated == 0 .. K + 1   \* mutant of Proposals
Proposals == 0 .. K

Plan ==
  /\ pc = "plan"
  /\ \E m \in Proposals, t \in TokenUse : n' = m /\ tokens' = t
  /\ Start("insert")
  /\ UNCHANGED <<late, pred_vars, table_vars, run_vars>>

(* Every branch is inserted before anything is scored, and committed by itself. *)
InsertBranch ==
  /\ pc = "insert" /\ cursor <= n
  /\ branches' = branches \cup {cursor}
  /\ cursor' = cursor + 1
  /\ UNCHANGED <<pc, n, tokens, late, pred_vars, predictions, pruned, outcomes, run_vars>>

(* The snapshots of the repository are taken, and the screen begins. *)
InsertEnds ==
  /\ pc = "insert" /\ cursor > n
  /\ Start("screen")
  /\ UNCHANGED <<n, tokens, late, pred_vars, table_vars, run_vars>>

(* AgentError: "no branches", straight to _finalize. *)
PlannerFails ==
  /\ pc = "plan"
  /\ \E t \in TokenUse : tokens' = t
  /\ Goto("finalize")
  /\ UNCHANGED <<n, cursor, late, pred_vars, table_vars, run_vars>>

CheckWhileLogging ==   \* mutant of BudgetPoint
  \/ pc \in {"screen", "log"} /\ cursor <= n
  \/ pc = "llm"
  \/ pc = "finalist" /\ HasFinalist
  \/ pc = "acquire" /\ RunsLeft /\ Uncertain \ Ran # {}

(* The points at which run_task calls check_budget(), which raises. *)
BudgetPoint ==
  \/ pc = "screen" /\ cursor <= n
  \/ pc = "llm"
  \/ pc = "finalist" /\ HasFinalist
  \/ pc = "acquire" /\ RunsLeft /\ Uncertain \ Ran # {}

BudgetStops ==
  /\ BudgetPoint /\ ~WithinBudget
  /\ Goto("aborted")
  /\ UNCHANGED <<n, cursor, tokens, late, pred_vars, table_vars, run_vars>>

-----------------------------------------------------------------------------
(* Tier 1. *)
Screening == pc = "screen" /\ cursor <= n /\ WithinBudget

Screened(b, s, d, x) ==
  /\ sig' = [sig EXCEPT ![b] = s]
  /\ dec' = [dec EXCEPT ![b] = d]
  /\ ctx' = [ctx EXCEPT ![b] = x]
  /\ tier' = [tier EXCEPT ![b] = 1]
  /\ cursor' = b + 1
  /\ UNCHANGED <<pc, n, asked, tokens, late, table_vars, run_vars>>

(* _gate_fail: a PatchSafetyError or a PatchApplyError. *)
ScreenGateFails ==
  /\ Screening
  /\ \E why \in {"UNSAFE_PATCH", "SYMBOLIC_FAIL"}, m \in Screens :
       Screened(cursor, [NoSignal EXCEPT !.c_planner = m.c_planner],
                [score |-> NoScore, routing |-> "PRUNE", reason |-> why], NoCtx)

(* The signals the screen measures, with the simulator's answer still sim. *)
Measured(m, sim) ==
  [p_c |-> m.p_c, p_t_sim |-> sim, p_t_latent |-> m.latent,
   p_t |-> aggregate_p_t(m.latent, sim), u |-> m.u,
   u_aleatoric |-> m.u_aleatoric, r_critic |-> 0, r_long |-> m.r_long,
   c_planner |-> m.c_planner]

(* _screen_branch: decide with the best-case simulator; a prune is recorded *)
(* again with no simulator at all.                                          *)
ScreenBranch ==
  /\ Screening
  /\ \E m \in Screens :
       LET optimistic == Measured(m, ScreenSim)
           d == decide(optimistic, Recal, m.coverage_u, Conformal, FALSE)
           s == IF d.routing = "PRUNE" THEN Measured(m, 0) ELSE optimistic
       IN  Screened(cursor, s, decide(s, Recal, m.coverage_u, Conformal, FALSE),
                    [coverage_u |-> m.coverage_u,
                     edits_function |-> m.edits_function])

ScreenEnds ==
  /\ pc = "screen" /\ cursor > n
  /\ IF Survivors = {} THEN Start("log") ELSE Start("llm")
  /\ UNCHANGED <<n, tokens, late, pred_vars, table_vars, run_vars>>

-----------------------------------------------------------------------------
(* Tier 2: one simulator call and one critic call for all the survivors. *)
CallAgents ==
  /\ pc = "llm" /\ WithinBudget
  /\ asked' = Survivors
  /\ \E t1, t2 \in TokenUse : tokens' = tokens + t1 + t2
  /\ Start("judge")
  /\ UNCHANGED <<n, late, sig, dec, ctx, tier, table_vars, run_vars>>

(* A branch the simulator did not answer for, or whose call failed, gets 0.5;*)
(* one the critic did not answer for gets 0.                                 *)
Answers == Judgments
             \cup {[j EXCEPT !.sim = One \div 2] : j \in Judgments}
             \cup {[j EXCEPT !.crit = 0] : j \in Judgments}
             \cup {[sim |-> One \div 2, crit |-> 0]}

Judging == pc = "judge" /\ cursor <= n

SkipPruned ==
  /\ Judging /\ cursor \notin asked
  /\ cursor' = cursor + 1
  /\ UNCHANGED <<pc, n, tokens, late, pred_vars, table_vars, run_vars>>

(* Stores the judged branch; assert_safe raises when the decision is unsafe. *)
Judged(b, s, d) ==
  /\ sig' = [sig EXCEPT ![b] = s]
  /\ dec' = [dec EXCEPT ![b] = d]
  /\ tier' = [tier EXCEPT ![b] = 2]
  /\ IF assert_safe(s, d, ctx[b].coverage_u)
       THEN cursor' = b + 1 /\ pc' = pc
       ELSE cursor' = cursor /\ Goto("crashed")
  /\ UNCHANGED <<n, ctx, asked, tokens, late, table_vars, runs, report>>

UngatedVerdict(b, s) ==   \* mutant of Verdict
  decide(s, Recal, ctx[b].coverage_u, 0, TRUE)
Verdict(b, s) == decide(s, Recal, ctx[b].coverage_u, Conformal, TRUE)

(* Whether run_task calls the property oracle on the branch. *)
WantsOracle(b, d) == d.routing = "INCREMENTAL" /\ ctx[b].edits_function

(* Decided without an oracle run: not wanted, or there is no golden source or *)
(* no way to generate inputs.                                                 *)
JudgeBranch ==
  /\ Judging /\ cursor \in asked
  /\ \E j \in Answers :
       LET s == WithJudgment(sig[cursor], j.sim, j.crit)
       IN  Judged(cursor, s, Verdict(cursor, s))
  /\ UNCHANGED oracle_runs

(* The oracle's sandbox run; a failing one prunes the branch. *)
JudgeWithOracle ==
  /\ Judging /\ cursor \in asked
  /\ \E j \in Answers, crash \in BOOLEAN :
       LET s == WithJudgment(sig[cursor], j.sim, j.crit)
           d == Verdict(cursor, s)
       IN  /\ WantsOracle(cursor, d)
           /\ Judged(cursor, s,
                IF crash THEN [d EXCEPT !.routing = "PRUNE", !.reason = "ORACLE_CRASH"]
                ELSE d)
  /\ oracle_runs' = oracle_runs + 1

(* The oracle's sandbox raises, for example on a container timeout. *)
OracleRaises ==
  /\ Judging /\ cursor \in asked
  /\ \E j \in Answers :
       WantsOracle(cursor, Verdict(cursor, WithJudgment(sig[cursor], j.sim, j.crit)))
  /\ oracle_runs' = oracle_runs + 1
  /\ Goto("crashed")
  /\ UNCHANGED <<n, cursor, tokens, late, pred_vars, table_vars, runs, report>>

JudgeEnds ==
  /\ pc = "judge" /\ cursor > n
  /\ Start("log")
  /\ UNCHANGED <<n, tokens, late, pred_vars, table_vars, run_vars>>

-----------------------------------------------------------------------------
Reservoired(b) == dec[b].routing = "PRUNE"

(* Every branch's final prediction, then its row in the pruned reservoir. *)
LogPrediction ==
  /\ pc = "log" /\ cursor <= n
  /\ predictions' = predictions \cup {cursor}
  /\ IF Reservoired(cursor)
       THEN Goto("log_pruned") /\ cursor' = cursor
       ELSE pc' = pc /\ cursor' = cursor + 1
  /\ UNCHANGED <<n, tokens, late, pred_vars, branches, pruned, outcomes, run_vars>>

LogPruned ==
  /\ pc = "log_pruned"
  /\ pruned' = pruned \cup {cursor}
  /\ Goto("log") /\ cursor' = cursor + 1
  /\ UNCHANGED <<n, tokens, late, pred_vars, branches, predictions, outcomes, run_vars>>

LogEnds ==
  /\ pc = "log" /\ cursor > n
  /\ Goto("finalist")
  /\ UNCHANGED <<n, cursor, tokens, late, pred_vars, table_vars, run_vars>>

-----------------------------------------------------------------------------
(* Tier 3. *)
Sandboxed(b, passed) ==
  /\ runs' = runs + 1
  /\ outcomes' = outcomes \cup {[branch |-> b, tests_passed |-> passed]}
  /\ UNCHANGED <<n, cursor, tokens, late, pred_vars, branches, predictions,
                 pruned, oracle_runs>>

RunFinalist ==
  /\ pc = "finalist" /\ WithinBudget
  /\ \E b \in Planned, passed \in BOOLEAN :
       /\ IsBest(b, Planned, dec)
       /\ Sandboxed(b, passed)
       /\ report' = [best |-> b, tests_passed |-> passed]
  /\ Goto("finalize")

NoFinalist ==
  /\ pc = "finalist"
  /\ ~HasFinalist
  /\ Goto("acquire")
  /\ UNCHANGED <<n, cursor, tokens, late, pred_vars, table_vars, run_vars>>

(* The first of the ranked uncertain branches that has not had its run. *)
NextRanked(b) ==
  /\ b \in Uncertain \ Ran
  /\ \A c \in Uncertain \ Ran : b = c \/ RankedBefore(b, c, sig)

ResolveAnyway(b, passed) ==   \* mutant of Resolve
  report' = [best |-> b, tests_passed |-> TRUE] /\ Goto("finalize")

(* The first uncertain branch that passes resolves the task. *)
Resolve(b, passed) ==
  IF passed
    THEN report' = [best |-> b, tests_passed |-> TRUE] /\ Goto("finalize")
    ELSE UNCHANGED <<report, pc>>

Acquire ==
  /\ pc = "acquire" /\ RunsLeft /\ WithinBudget
  /\ \E b \in Planned, passed \in BOOLEAN :
       /\ NextRanked(b)
       /\ Sandboxed(b, passed)
       /\ Resolve(b, passed)

AcquireEnds ==
  /\ pc = "acquire" /\ (~RunsLeft \/ Uncertain \ Ran = {})
  /\ Goto("finalize")
  /\ UNCHANGED <<n, cursor, tokens, late, pred_vars, table_vars, run_vars>>

(* run_sandbox raises: the run is spent, no outcome is written. *)
SandboxRaises ==
  /\ pc \in {"finalist", "acquire"} /\ BudgetPoint /\ WithinBudget
  /\ runs' = runs + 1
  /\ Goto("crashed")
  /\ UNCHANGED <<n, cursor, tokens, late, pred_vars, table_vars, oracle_runs, report>>

(* The control loop behind _finalize is the module ControlLoop. *)
Finalize ==
  /\ pc = "finalize"
  /\ Goto("done")
  /\ UNCHANGED <<n, cursor, tokens, late, pred_vars, table_vars, run_vars>>

-----------------------------------------------------------------------------
(* The environment: the wall clock passes the budget; the process dies. *)
ClockExpires ==
  /\ ~late /\ pc \notin Terminal
  /\ late' = TRUE
  /\ UNCHANGED <<pc, n, cursor, tokens, pred_vars, table_vars, run_vars>>

Kill ==
  /\ pc \notin Terminal
  /\ Goto("killed")
  /\ UNCHANGED <<n, cursor, tokens, late, pred_vars, table_vars, run_vars>>

(* What run_task itself does next. *)
Step ==
  \/ Plan \/ PlannerFails \/ InsertBranch \/ InsertEnds \/ BudgetStops \/ Raises
  \/ ScreenGateFails \/ ScreenBranch \/ ScreenEnds
  \/ CallAgents \/ SkipPruned \/ JudgeBranch \/ JudgeWithOracle \/ OracleRaises
  \/ JudgeEnds
  \/ LogPrediction \/ LogPruned \/ LogEnds
  \/ RunFinalist \/ NoFinalist \/ Acquire \/ AcquireEnds \/ SandboxRaises
  \/ Finalize

Next == Step \/ ClockExpires \/ Kill

Spec == Init /\ [][Next]_vars
=============================================================================
