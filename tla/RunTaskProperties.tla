------------------------- MODULE RunTaskProperties -------------------------
(***************************************************************************)
(* What one run_task call guarantees.  The properties are stated from the  *)
(* recorded signals and the tables, not with the operators they check.     *)
(***************************************************************************)
EXTENDS RunTask

TypeOK ==
  /\ pc \in Phases /\ n \in 0 .. K /\ cursor \in 1 .. K + 1
  /\ sig \in [Branch -> Signals]
  /\ dec \in [Branch -> Decision \cup {Unrouted}]
  /\ ctx \in [Branch -> [coverage_u : Nat, edits_function : BOOLEAN]]
  /\ tier \in [Branch -> 0 .. 2]
  /\ asked \subseteq Planned
  /\ tokens \in Nat /\ late \in BOOLEAN
  /\ branches \subseteq Branch /\ predictions \subseteq Branch
  /\ pruned \subseteq Branch
  /\ outcomes \subseteq [branch : Branch, tests_passed : BOOLEAN]
  /\ runs \in Nat /\ oracle_runs \in Nat
  /\ report \in [best : 0 .. K, tests_passed : BOOLEAN]

Logged == {"finalist", "acquire", "finalize", "done"}

(* The screen costs no recall (orchestrator.py:141, cascade.py:94): a branch *)
(* that tier 1 drops for its score would be dropped whatever the simulator   *)
(* and the critic had said of it.                                            *)
ScreenLosesNothing ==
  \A b \in Planned : tier[b] = 1 /\ dec[b].reason = "LOW_SCORE" =>
    \A j \in Answers :
      Verdict(b, WithJudgment(sig[b], j.sim, j.crit)).reason = "LOW_SCORE"

(* A logged row explains its own routing (orchestrator.py:204): p_t is the   *)
(* aggregate of the two opinions in the row, and the score and the routing   *)
(* are those of the signals in the row, unless the oracle overruled them.    *)
RowsAreConsistent ==
  \A b \in predictions : sig[b].p_c = 1 =>
    LET s == sig[b] IN
    /\ s.p_t = Alpha * s.p_t_latent + (One - Alpha) * s.p_t_sim
    /\ dec[b].reason = "ORACLE_CRASH"
         \/ dec[b] = decide(s, Recal, ctx[b].coverage_u, Conformal, tier[b] = 2)

(* "Never prune on uncertainty" of the reservoir: a branch pruned for its    *)
(* score had both its uncertainties at or below u_max.                       *)
NeverPrunedOnUncertainty ==
  \A b \in pruned : dec[b].reason = "LOW_SCORE" =>
    sig[b].u <= UMax /\ ctx[b].coverage_u <= UMax

(* The finalist earned EXECUTE with the opinions recorded for it: no high    *)
(* uncertainty, a calibrated p_t at or above the conformal threshold and, if *)
(* irreducibly uncertain, not a near-coin-flip.                              *)
FinalistEarnedExecute ==
  \A b \in Ran : dec[b].routing = "EXECUTE" =>
    LET p_t == Recal[Alpha * sig[b].p_t_latent + (One - Alpha) * sig[b].p_t_sim] IN
    /\ tier[b] = 2
    /\ sig[b].u <= UMax /\ ctx[b].coverage_u <= UMax
    /\ p_t >= Conformal
    /\ sig[b].u_aleatoric > AleatoricMax =>
         2 * p_t > One * (One + 2 * CoinFlipBand) \/ 2 * p_t < One * (One - 2 * CoinFlipBand)

(* No branch routed to EXECUTE has a higher score than the one sandboxed.    *)
FinalistIsBest ==
  \A b \in Ran : dec[b].routing = "EXECUTE" =>
    \A c \in Planned : dec[c].routing = "EXECUTE" => dec[b].score >= dec[c].score

(* The branch that is sandboxed as the finalist was entitled to it, and was  *)
(* the best of those that were.                                              *)
FinalistIsJustified == FinalistEarnedExecute /\ FinalistIsBest

(* The audit reservoir misses no prune and holds nothing else, once the      *)
(* predictions are logged; before that it lags by the row being written.     *)
ReservoirIsComplete ==
  LET dropped == {b \in predictions : dec[b].routing = "PRUNE"} IN
  /\ pc \in Logged \/ pc = "log" => pruned = dropped
  /\ pruned \subseteq dropped /\ Cardinality(dropped \ pruned) <= 1

(* However run_task returns or raises, it logged all of its branches or none *)
(* (only the death of the process leaves some of them logged), and an        *)
(* outcome always has the prediction calibration will join it with.          *)
LoggedAllOrNone ==
  /\ pc \in Terminal \ {"killed"} => predictions \in {{}, Planned}
  /\ Ran \subseteq predictions /\ predictions \subseteq branches

(* The three tables that calibration and audit join later agree on the task, *)
(* whichever failure, budget check or death ended it.                        *)
TablesAgree == ReservoirIsComplete /\ LoggedAllOrNone

(* Evidence goes first where it says most (cost.py:105): an uncertain branch *)
(* is not run before one whose outcome is more uncertain.                    *)
MostInformativeFirst ==
  \A b \in Ran, c \in Planned \ Ran :
    dec[b].routing = "INCREMENTAL" /\ dec[c].routing = "INCREMENTAL" =>
      info_gain(sig[b]) >= info_gain(sig[c])

(* The sandbox cap of tier 3 holds, a task that ends unresolved below it has *)
(* given every uncertain branch its run, and the runs of the oracle, which   *)
(* the cap leaves out, are at most one for each judged branch.               *)
SandboxBudgetSpentInFull ==
  /\ runs <= MaxRuns /\ Cardinality(Ran) <= runs
  /\ oracle_runs <= Cardinality(asked)
  /\ pc = "done" /\ n > 0 /\ report.best = 0 => runs = MaxRuns \/ Uncertain \subseteq Ran

(* The runs a task may spend on evidence go where they say most, and no run  *)
(* is left over, or overspent, while a branch is uncertain.                  *)
EvidenceBudgetIsWellSpent == MostInformativeFirst /\ SandboxBudgetSpentInFull

(* The report names a branch exactly when one was verified, with the result  *)
(* the sandbox gave; an unresolved task hides no passing branch.             *)
ReportIsHonest ==
  /\ report.best # 0 =>
       [branch |-> report.best, tests_passed |-> report.tests_passed] \in outcomes
  /\ pc \in Terminal \ {"killed"} =>
       ((\E o \in outcomes : o.tests_passed) <=> report.best # 0 /\ report.tests_passed)

(* The stage of a branch in the cascade that run_task promises to follow. *)
StageOf(b) ==
  CASE b \notin Planned -> "absent"
    [] b \in Planned /\ tier[b] = 0 -> "new"
    [] b \in Planned /\ tier[b] > 0 /\ dec[b].routing = "PRUNE" -> "dropped"
    [] b \in Planned /\ tier[b] = 1 /\ dec[b].routing # "PRUNE" -> "survivor"
    [] b \in Planned /\ tier[b] = 2 /\ dec[b].routing = "INCREMENTAL" -> "held"
    [] b \in Planned /\ tier[b] = 2 /\ dec[b].routing = "HUMAN_REVIEW" -> "human"
    [] OTHER -> "ready"

Gate == INSTANCE TieredGate WITH
  Candidate <- Branch, stage <- [b \in Branch |-> StageOf(b)], ran <- Ran

(* run_task is a cascade: tiers in order, each seeing only what the cheaper  *)
(* one let through (cascade.py:21).  So no sandbox run goes to a branch that *)
(* is pruned or left to a human, and none to an uncertain one while another  *)
(* is ready to execute.                                                      *)
FollowsTheCascade == Gate!Spec

(* What the arbiter said is what its signals say, at whichever tier it said   *)
(* it last, and the branch the sandbox is spent on first had earned it.       *)
DecisionsAreGrounded == RowsAreConsistent /\ FinalistIsJustified

(* The tables and the report tell what happened, however the call ended.      *)
RecordIsTrue == TablesAgree /\ ReportIsHonest
=============================================================================
