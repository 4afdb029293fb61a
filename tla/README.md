# NSE: a TLA+ verification of the orchestrator and what it rests on

NSE decides what becomes of code changes that a language model proposes. Each
task asks a planner for `k` candidate patches ("branches"), screens them with a
symbolic gate and a learned ensemble, lets two more language-model agents judge
the survivors, spends a few sandbox runs, and logs everything; a control loop
recalibrates the model on the log and re-executes a sample of what was pruned;
the log, git history and mutated sources are what the ensemble is trained on.
This directory models that machinery in TLA+, checks it with TLC on small
instances, and proves with TLAPS, for every value of the constants, that it does
what these properties say: the decision core and its tiers, the control loop and its
harvest, the service and its agents, what becomes of a patch, the files of the
calibration, and the making of training data.

Paths below are relative to `src/nse/`. `PROJECT.json` lists, for every
definition that models code, the lines it stands for.

Contents: [Inventory](#1-inventory) - [Modules](#2-modules) -
[Runs](#3-runs-and-what-they-show) - [Bounds](#4-bounds-and-why-they-are-enough) -
[Fairness](#5-fairness) - [Proofs](#6-proofs) - [Where code and text
disagree](#7-where-the-code-and-its-text-disagree) - [Not
modelled](#8-what-is-not-modelled) - [Plan](#9-plan)

## 1. Inventory

| Component | State it keeps | Operations | Talks to | Hard behaviour |
|---|---|---|---|---|
| Decision rule (`orchestrator/arbiter.py`, `invariants.py`, `cost.py`) | none (pure) | `decide`, `score`, `select_best`, three safety checks, `rank_by_acquisition` | called by the task flow and the cascade | order of the guards; a recalibrator between prediction and score; two uncertainties |
| Task flow (`orchestrator/orchestrator.py`) | predictions, screen contexts, run counters, report; rows of four tables | `run_task`: plan, screen, judge, log, execute or acquire evidence | all the others | budget exceptions out of any tier, failing agents, death of the process, order of evidence runs |
| Tiered cascade (`orchestrator/cascade.py`) | survivors, judged, result | `run_cascade` | three callbacks | what a cheap tier may drop; accounting of savings |
| Control loop (`orchestrator/orchestrator.py`, `audit.py`, `db/db_client.py`) | snapshots on disk, reservoir of pruned rows, audit results | retain, trim, cadence, sample, re-execute, mark | database and directory shared between processes | crash between two writes, two processes that count, sample and mark the same rows, reservoir that drains more slowly than it fills |
| Calibration (`models/calibration_loop.py`, `models/calibrate.py`) | two files, a copy of both in each process | fit, save, reload | the log, the decision rule | two files that belong together; in-place writes; bins and ties |
| Autonomy (`orchestrator/autonomy.py`) | none (pure) | `compute_competence`, `level` | the log | shares the calibration error's edge cases |
| Agent clients (`agents/`) | token meter | request, retry, repair | an HTTP host | malformed replies, unread but billed ones |
| HTTP service (`orchestrator/app.py`) | one global orchestrator | `submit_task` on a thread pool | the task flow | threads share meters, mode and an SQLite connection bound to one thread |
| Patch application (`orchestrator/patcher.py`, `tools/static_checks.py`) | a copy of the repository | three tiers of application, safety check, gate | `git` | a tier that fails half-way leaves the copy for the next one; a diff changes files that its safety check does not see; the repository moves on |
| Property oracle (`tools/property_oracle.py`) | generated argument objects | differential check in process and in the sandbox | the functions under test | shared mutable arguments; a candidate that cannot be imported |
| Coverage signal (`tools/coverage_signal.py`) | reader's file, line counter, two line sets | read a diff, rate a change | coverage.py | stateful reading of lines known by their first characters; a rewrite replaces what was read |
| Sandbox (`orchestrator/executor.py`, `memory_graph/graph_db.py` `build_test_map`) | scratch copy, container | select tests, run, time out, clean up | Docker, pytest | map of the old tree used on the new one; timeout means two different things |
| Git mining (`data/git_mining.py`) | two trees per candidate, examples | materialise, revert, run, emit | `git`, sandbox | partial failure loses everything; trees that differ in more than the diff |
| Distillation (`data/distill.py`, `data/mutate.py`) | soft labels | batch, simulate, match | simulator | flaky batches, keys that are not unique |
| Replay flywheel (`data/replay.py`) | rows asked for, examples | read the log, rebuild each row from its snapshot | database and snapshots of the control loop | a snapshot vanishes between test and copy; rows audited twice |
| Memory graph (`memory_graph/`, `models/cpg_features.py`) | a call graph | build, update on patch, bounded subgraph, blast radius, changed functions | planner, features of the ensemble, dataset builder | calls resolved by bare name in scan order; three rules for "the function an edit is in", decorators and all |
| Latent model (`models/latent_model.py`) | a weights file, the ensemble a server loaded | save, load, heuristic, uncertainties | task flow, training | file written in place while servers load it |
| Training (`models/train.py`, `data/dataset.py`) | dataset file, folds, split, weights | build or read, merge, cross-validate, split, batch, fit, judge, save | latent model, flywheel, mining | kill in the middle of a write; rows of one origin on both sides; folds of few rows |
| Facade, evaluation, scripts (`api.py`, `eval/`, `scripts/`) | none | reporting | - | - |

How they interact: `run_task` is sequential; it calls the planner, then for each
branch the patcher, the gate, the ensemble and `decide`; then the simulator and
the critic once for all survivors, `decide` again and possibly the oracle; then
it writes the tables and calls the sandbox. `_finalize` runs the control loop in
the same call. Concurrency comes from outside: threads of the HTTP service that
share one orchestrator, processes that share the database and the audit
directory, training runs that read both and rewrite the weights that servers
load, developers who edit the repository, and the death of any process between
two commits.

What makes each part correct is stated by the properties of its module, in
words above each of them; the hazards they answer to are listed at their lines
in `PROJECT.json`.

## 2. Modules

**Decision core**

- `Arbiter` - the decision rule as constant-level operators. Reals are integers
  over a denominator `One`: a probability is over `One`, an aggregated `p_t`
  over `One^2`, a score over `One^4`; no rounding happens anywhere. With
  `One = 100` every default of `config.py` is exact.
- `RunTask` - one `run_task` call. `pc` is the point of the function that is
  next, `cursor` the branch its loop is at. `sig`, `dec` and `ctx` are the
  `BranchPrediction` and the `_ScreenCtx` of each branch, `branches`,
  `predictions`, `pruned`, `outcomes` the tables. Actions: `Plan`,
  `PlannerFails`, `InsertBranch`, `ScreenGateFails`, `ScreenBranch`, `CallAgents`,
  `JudgeBranch`, `JudgeWithOracle`, `OracleRaises`, `LogPrediction`,
  `LogPruned`, `RunFinalist`, `Acquire`, `SandboxRaises`, `BudgetStops`,
  `Raises`, `Finalize`, with `ClockExpires` and `Kill` as the environment.
- `RunTaskProperties` - what a task guarantees, stated from the recorded signals
  and the tables. `ArbiterProofs`, `RunTaskProofs` - theorems, among them that a task
  follows `TieredGate`.
- `TieredGate` - the abstract promise of a cost-tiered cascade: candidates go
  through tiers in order, a tier sees only what the cheaper one let through, and
  the sandbox goes to the one selected candidate or to held ones.
- `Cascade` - `run_cascade`, the reference implementation. Both `Cascade` and
  `RunTask` implement `TieredGate`, through the mapping `StageOf`
  (`Gate == INSTANCE TieredGate WITH ...`, checked and proved as `IsACascade` and
  `FollowsTheCascade`). `CascadeProofs` - its theorems.

**Around a task**

- `AgentClient` - the HTTP client and the three calls of a task. Its three ways
  to end (a list, `AgentError`, another exception) are the alternatives `Plan` /
  `PlannerFails` / `Raises` and the neutral `Answers` of `RunTask`.
- `PatchApply` - one branch's patch through every use made of it, while the
  repository may be edited. A file's text is what was done to it: old, new,
  merged with markers, truncated, rewritten. A diff names some of the files it
  changes and not others (`silent`: deleted, or renamed away). It grounds
  `ScreenGateFails` and the assumption of `RunTask` that what is sandboxed is what
  was screened.
- `PropertyOracle`, `CoverageSignal` - the two evidence signals: what
  `JudgeWithOracle` and `coverage_u` of `RunTask` stand for.
- `Sandbox` - one `run_sandbox` call with the map of tests: what "the tests
  passed" means in every other module.
- `App` - threads of the HTTP service over one orchestrator.
- `AppProofs`, `PatchProofs` - the theorems of the service and its agents, and of the
  four modules of a patch.

**Around all tasks**

- `ControlLoop` - snapshots, reservoir and audit, with one or more processes. A
  task stands for its branches, at most one of which is pruned. A snapshot is
  begun (`RetainSnapshot`) and copied (`CopySnapshot`); a trim lists the
  directories, reads their `st_mtime` (`SortSnapshots`, or `StatRaises` when
  another process has removed one since) and removes the oldest one by one, each
  in the three steps `shutil.rmtree` makes: the files (the snapshot is `torn`),
  `repo` (a `husk`, which has just become the newest directory), the directory.
  A round counts the reservoir (`CountReservoir`), samples it (`SampleRows`), and
  for each row writes a result (`Replay`) and a mark (`Mark`); `LogPruned` logs the
  row of a task. `TaskRaises`, `ReplayRaises`, `Kill` end them early.
- `Flywheel` EXTENDS `ControlLoop`: a harvest that reads the labelled rows and
  rebuilds them one by one while the processes of the control loop go on.
  `ControlLoopProofs` - the theorems of both.
- `Calibration` - files, copies and deaths of the calibration loop, its data
  abstracted to versions: a recalibrator is the number of outcomes it was fitted
  on, a threshold the recalibrator it belongs to. `CalibrationProofs` - its
  theorems and those of `Calibrate`.
- `Calibrate` - the numbers: calibration error, conformal threshold with the
  exact binomial bound, decision to recalibrate, autonomy level, over a bag of
  rows that grows one at a time.

**Training data**

- `Mining` - `build_real_examples` over a history of commits.
- `Distill` - `attach_soft_labels`, over rows that may bring labels along, with the
  removal of duplicates of `generate_mutations`.
- `MemoryGraph` - a repository as texts of definitions, the graph extracted from
  it in the order the file system lists the files, edits, rebuilds and updates,
  and what is cut out of the graph around an edit, offline and online.
- `LatentModel` - the weights file and who loads it, the heuristic ensemble in
  exact integers, the two uncertainties.
- `Training` EXTENDS `LatentModel`: a run of `train.py` from dataset to weights.
  An example is its file, label, origin and graph size; a fitted model is the set
  of rows it was fitted on. `Kill` may come at any point, and `Serve` loads the
  weights beside it.
- `TrainingProofs` - the theorems of these modules.

**Instances.** `MCRunTask` (with two configurations), `MCCascade` and
`MCControlLoop` (over `Flywheel`) instantiate one system each. The four others
put related components side by side: `MCCalibration` (`Calibration` and
`Calibrate`), `MCService` (`App` and `AgentClient`), `MCPatches` (`PatchApply`,
`CoverageSignal`, `Sandbox` and `PropertyOracle`), `MCTrainingData` (`Mining`,
`Distill`, `MemoryGraph`, `Training`). There a
variable `job` says which of them runs while the others rest in one initial
state, so that their states are added, not multiplied; their properties are
those of the components, and liveness is asked of the one that runs. The proofs
are of the components' own specifications; `ServiceIsSafe`, `PatchesAreSafe` and
`TrainingDataIsSound` carry them over to the instance's.

Related properties are checked together, under a name of their own; each part
has its definition and its comment, and a type invariant is the first conjunct
where it is not checked by name:

| Checked | Parts |
|---|---|
| `DecisionsAreGrounded` | `RowsAreConsistent`, `FinalistIsJustified` |
| `RecordIsTrue` | `TablesAgree`, `ReportIsHonest` |
| `EvidenceBudgetIsWellSpent` | `MostInformativeFirst`, `SandboxBudgetSpentInFull` |
| `SnapshotsAreKept` | `TypeOK`, `RecentTasksAreReplayable`, `SnapshotsAreBounded` |
| `EvidenceIsFair` | `ResultsAreOfPrunedWork`, `ReplaysArePristine` |
| `HarvestIsSound` | `ExamplesAreEarned`, `QuietHarvestIsComplete` |
| `FilesAgree` | `TypeOK`, `BackedByData`, `MismatchNeedsADeath` |
| `NumbersAreRight` | `ThresholdIsRight`, `ErrorsAreNoticed` |
| `TasksRunAsAsked` | `BudgetIsOwnUnlessShared`, `ModeAsAskedUnlessRaced` |
| `AgentsAreAccountable` | `CallsAreAccounted`, `JudgesAreIndependent` |
| `PatchesAreContained` | `SuccessIsClean`, `SensitiveFilesStay` |
| `SignalIsRight` | `DiffsAreReadRight`, `UntestedChangeIsHeld` |
| `CallIsClean` | `ResultIsEarned`, `NothingIsLeftBehind` |
| `OracleIsRight` | `TypeOK`, `PureFunctionsAreJudgedRight`, `CountsAreOfIndependentTrials` |
| `LabelsAreRight` | `EveryMutantIsJudgedOnce`, `LabelsAreWhereTheyBelong` |
| `GraphIsRight` | `NeighbourhoodIsRight`, `GraphIsFresh`, `ScanOrderMattersNot` |
| `HeldOutIsUnseen` | `NothingLeaks`, `BothSidesSeeEveryClass` |
| `EnsembleIsHonest` | `GraphsStayApart`, `AnswersAreHonest` |

The definitions marked `mutant of X` are plausible slips in the code that X
models; with `X` replaced by one of them, the property it is paired with in
`PROJECT.json` fails, which shows that the property depends on the code.

## 3. Runs and what they show

| Run | Question | Distinct states |
|---|---|---|
| `MCRunTask` | Are decisions, rows and the finalist what the signals justify? | 930 k |
| `MCRunTaskControl` | Who gets sandbox runs, what is logged and reported, does a task follow `TieredGate`? | 332 k |
| `MCCascade` | Does screening change the selection? Do savings add up? Does it follow `TieredGate`? | 446 k |
| `MCControlLoop` | Are rows lost or audited twice, snapshots kept and bounded, the cadence kept; does a round find rows to look at; what does a harvest beside them yield? | 1.2 M |
| `MCCalibration` | Do model and gate stay together through deaths? Does the threshold keep its promise, at the boundary too? | 15 k |
| `MCService` | Do threads keep apart? Are requests bounded, tokens metered, judges independent? | 517 k |
| `MCPatches` | Does what was screened run, and nothing half-merged? Does the reader of diffs stay in step, and does its signal hold what is untested? Is a pass earned, is everything cleaned up? Are oracle verdicts right for functions that leave arguments alone? | 2.4 M |
| `MCTrainingData` | Are pairs what the tests saw, mutants judged once and labelled rightly? Is the graph that of the repository, and the same in training as in service? Is what is held out unseen, and what is saved whole? | 1.2 M |

The properties worth reading first:

- `ScreenLosesNothing` and `AsIfAllJudged` (in `ScreeningIsFree`): the screen assumes the best-case
  simulator and no critic, so dropping a branch early never changes the outcome.
  This holds only because the score is monotone in both opinions *and* the
  recalibrator is monotone *and* the conformal gate and the escalation come
  after the score check. It is also proved.
- `FollowsTheCascade` / `IsACascade`: two independently written pieces of code
  implement the same abstract tiers, checked on the instances and proved for all.
- `NoRowLost` with `DuplicatesHaveACause`: the order of `insert_audit_result`
  and `mark_audited` loses nothing and duplicates only where a process died or
  another one audited at the same time.
- `SnapshotsAreKept`: what an audit of a recent task needs is on disk, however
  trims of two processes interleave; each death inside a removal and each other
  process may cost one place, no more, and a process alone is back under the cap
  after its next trim.
- `CadenceIsKept`: a task without branches, a raise or a death may repeat or take
  a round, but a process that is alone never steps over one. Also proved.
- `HarvestIsSound`: beside a working control loop, a harvest learns a branch twice
  only if it was audited twice, and is complete and of whole snapshots unless a
  removal was under way.
- `TrainAndServeAgree`, `OutOfFold`, `HeldOutIsUnseen`: exactly where the features
  of training and of service agree, and what a validated model has not seen.
- `MismatchNeedsADeath` (in `FilesAgree`) with `CalibrationHeals`: the two calibration files are
  parted only by a death, and the next calibration mends it.
- `SandboxRunsWhatWasScreened`: every application starts from a fresh copy of
  the same snapshot, so tiers that leave rubbish behind do no harm.
- `SignalIsRight`: the uncertainty of an untested change is that of the lines the
  branch changes, for a diff, for rewrites that replace it, and for a coverage map
  that lacks some of the files.
- `RoundsMakeProgress`: what a round counted may be gone when it samples, but it is
  empty only when another process has finished every row.
- `NewsMovesTheGateTheRightWay`: one more failure never widens the gate past
  where it happened, unless to a threshold that lacked only support, which any row
  lends it; one more success above it never narrows it.

The four remaining runs, `ControlLoopSnapshots`, `OraclePrunes`, `AgentClientCrash`
and `MiningAdded`, are expected to end in a violation; see section 7.

`CHECK_DEADLOCK FALSE` is in every configuration because every model ends: a
call returns or raises, a bounded number of tasks, requests or outcomes has
passed, a diff is judged. The one place where the code could wait for ever is a run
of tests, and `SuiteEnds` is about it. Tasks, rounds, agent calls and scans are
`for` loops over lists that do not grow; that they end needs no model, and how much
they do is what `EvidenceBudgetIsWellSpent`, `RoundsMakeProgress`,
`CallsAreAccounted` and `PairsAreSound` bound.

## 4. Bounds and why they are enough

- **RunTask.** Constants of `config.py` over `One = 20` (`aleatoric_max` is
  14.4 and becomes 14: no integer lies in between). `MCRunTask` has two branches
  because its properties compare two branches at most, but nine measurements
  (confident, middling, hopeless, each kind of uncertain, flaky, not compiling)
  and judgments at both ends. `MCRunTaskControl` has three branches and two
  runs, so that a branch is left without a run, and only four measurements.
  Budgets are exhausted by choice: an agent call costs 1 or 3 of 4 tokens, and
  the clock may expire at any point.
- **Cascade.** Three candidates: a dropped, a judged and a selected one.
- **ControlLoop, Flywheel.** A cadence of two tasks instead of a hundred, two
  snapshots instead of five hundred, half the reservoir instead of a twentieth.
  Either one process over four tasks: two rounds, the second of two rows, and a
  death at any point; or two actors over three tasks: two processes, whose trims
  and rounds overlap, or one and a harvest. Where there are two actors the planner
  does not fail (it touches nothing they share), and the death is inside a removal
  or between a result and its mark, the two places that a death makes matter. Of
  two processes the first named takes the first task: the rest is the mirror
  image. `SYMBOLIC_FAIL` and `LOW_SCORE` differ in the false negatives alone, so
  only the first row has the former.
- **Calibration.** Five outcomes with a minimum of three: three calibrations
  that change something; two deaths.
- **Calibrate.** Eight rows over four probabilities, two of which share a bin,
  one below the execute line, one equal to one; a promise of one half with
  confidence three quarters, which three rows can keep, and a support of five, so
  that a threshold may keep it and be passed over.
- **AgentClient.** One retry and one repair round, the values of the code.
- **App.** Two threads, three requests: reuse, replacement and a second reuse.
- **PatchApply.** One edit to the repository; five diffs, some of which also
  delete a file, a Python one or the sensitive one; five rewrites; any verdict of `git` per
  version of the repository.
- **CoverageSignal.** Six lines of diff are enough for two files, two hunks
  and both kinds of misleading text. Two of the four lines of a file are code;
  either file may be rewritten, or be missing in the coverage map.
- **Mining.** Four commits with a limit of three and two pairs: both bounds are
  met first in some behaviour.
- **Sandbox.** Three tests of two files; the patched tree, its failures and its
  hanging tests are any subsets.
- **MemoryGraph.** Two files, each of six texts: a name defined twice in a file, in
  both files, nested, as a method, called recursively, imported; a text that does
  not parse. Any edit, build or update, and either order of the scan.
- **LatentModel.** The five heads of `config.py`; a trained head answers with
  nought, one or something in between; the heuristic at every complexity.
- **Training.** Four mutants of two files, one without a graph; a harvest that
  brings nothing, one row, or one branch twice; no real defects, one pair or two;
  one, two or three folds; a test share of three or five tenths, the latter so
  that a half has to be rounded. Two runs: what the first leaves behind when it is
  killed, the second reads.
- **Distill.** Batches of two over six and three mutants: a full batch, a last
  short one, duplicates across batches.

## 5. Fairness

Liveness is asked of `Sandbox` alone (`SuiteEnds`), where tests may hang. Its one
caller is sequential code that goes on whenever it can, hence weak fairness of its
steps (`FairSpec`, and `FairEitherSpec` in the instance). A hanging test is not helped
by that: no action passes it but `Timeout`, which is `timeout_s` of `subprocess.run`
on the host and of `container.wait` in Docker. All other properties are of safety and
assume no fairness.

## 6. Proofs

`ArbiterProofs` (constant level):

- `ScoreMonotone`: the score does not fall with `p_t` nor rise with the critic's
  risk. Both products are compared with `TimesMonotone`, because the solver does
  no nonlinear arithmetic on its own.
- `DecisionsAreSafe`: every decision passes all three checks of
  `invariants.py`. In particular `assert_safe` in `run_task` never raises, also
  for the check it does not make.
- `ScreenSound`: pruned for its score under the best-case judgment means pruned
  under every judgment, for any monotone recalibrator.

`RunTaskProofs` (state machine, for any `K`, budgets, recalibrator, threshold,
measurements and judgments):

- `TypeCorrect`: `Spec => []TypeOK`. `TypeOK` is not inductive alone: between a
  prediction and its reservoir row the cursor must be at a planned branch, and
  nothing may be planned twice. `PhaseInv` adds exactly this.
- `ScreenCostsNoRecall`: `Spec => []ScreenLosesNothing`, and
  `UncertaintyIsNeverPruned`: `Spec => []NeverPrunedOnUncertainty`. Both follow
  from `PruneInv`: a branch whose reason is `LOW_SCORE` is certain by both
  measures, and, if the screen pruned it, would be pruned with the best-case
  judgment of the *recorded* signals. The second half is what has to be carried:
  the screen rewrites the signals after pruning (`RescreenIsOptimistic` gets
  back from the rewritten to the optimistic ones), and `ScreenSound` then covers
  every judgment. `OnlyTiersDecide` reduces the step to the four actions that
  write predictions.
- `TheRecordIsTrue` (`Spec => []RecordIsTrue`). `TableInv` says of each phase which
  predictions and which reservoir rows are written: none before the log, those below
  the cursor in it, all but the reservoir row at the cursor between the two inserts of
  a pruned branch, and after it all of them. `RecordIsTrue` is what remains of it when
  the phase is one of the ends. `ReportInv`: as long as evidence is being bought no
  branch is named, hence none has passed.

That `run_task` is a cascade (any `K`, cap, measurements, judgments and failures):
`RunTaskIsACascade` (`Spec => FollowsTheCascade`) and, from the refinement alone,
`SandboxIsSpentSelectively` (`Spec => []Gate!SpendIsSelective`) and
`SpendingEndsJudging` (`Spec => Gate!NoJudgingAfterASpend`). The last two need
`TiersAreOver`: once a run was spent, nobody is left to screen or judge, so a step of
a tier shows that nothing was spent yet. They hold of whatever implements
`TieredGate`. What `run_task` does in loops over a cursor the
tiers do in any order; the invariant `TierInv` has to say what the loops mean:

- `Tiers`: before each phase and within it, which tier every branch has reached, and
  that a branch the agents were not asked about is a pruned one;
- `Spending`: nothing was spent before the finalist, no branch is selected while
  evidence is bought, and no more branches were run than runs were counted.

Five lemmas map the planner's answer, a screen, a judgment, the finalist's run and an
evidence run to the step of `TieredGate` they are; all other steps, failures and
deaths among them, leave `stage` and `ran` alone (`Stutters`).

On the same invariant rest two properties of what the tiers decide and spend:

- `DecisionsFollowSignals` (`Spec => []DecisionsAreGrounded`). A row is filled in by
  two tiers and logged long after, and the finalist is compared with branches decided
  steps before. `Rows` says it of every decided branch, logged or not (`p_t` is the
  aggregate of its own two opinions, the decision is `decide` of its own signals at
  its tier, unless the oracle overruled it), `Earned` that what is logged was decided
  and that what was run to execute was judged and unbeaten; `ExecuteMeans` reads the
  guards off `decide`.
- `EvidenceIsWellSpent` (`Spec => []EvidenceBudgetIsWellSpent`). `EvidenceInv` adds that
  no run is counted before the finalist, that the oracle ran at most once for each
  answer read so far (`Read`), and that a task on its way to `done` without a branch
  has no run or no uncertain branch left. A run keeps the order since the branch run is
  first of all that have not been run, and these only become fewer.

`CascadeProofs` (any number of candidates, weights, thresholds, monotone
recalibrator, and any answers and exceptions of the callbacks): `CheapTiersAreFree`
(`Spec => []ScreeningIsFree`) and `CascadeIsACascade` (`Spec => IsACascade`). The
invariant adds to `TypeOK`: `Ledger`, each verdict follows from a prediction made
with the optimistic simulator or, once judged, with the opinion, and the survivors
are those whose optimistic prediction is not pruned; `Progress`, how far the loops
are; `Returned`, the result is the best of the pool. `ScreenSound` then gives
`DroppedIsDropped`: what the screen dropped, the run that judges every candidate
drops as well, so both select from the same `EXECUTE` candidates.

`ControlLoopProofs` (for any finite set of processes, any cadence, sampling share
and retention, any number of tasks and kills): `RowsAreNotLost`
(`Spec => []NoRowLost`), `AuditIsEvidence` (`Spec => []EvidenceIsFair`),
`CadenceIsNotMissed` (`Spec => []CadenceIsKept`) and `ProgressOfRounds`
(`Spec => RoundsMakeProgress`). One inductive invariant carries them:

- `Shape`: the ranges of the variables. `Rows`: a row is that of a task that was
  started, a task that has not come to its row has none, no two processes are at
  one such task, and a round holds rows of the reservoir only.
- `Audited` is `NoRowLost` with what it lacks to be inductive: a row waiting for
  its mark has been re-executed or skipped already, and a result is that of a row,
  whose reason does not change any more.
- `Snapshots`: no row is older than its snapshot; with one process and no death,
  a snapshot is torn only while that process is in the middle of removing it, and
  so never when it audits.
- `Cadence`: of a process that is alone, every count below the present one is
  covered by a visit or an excuse, and so is the present one whenever the process
  is idle or at its round. The rest is that the count grows by one at a time.

Three more theorems stand on it:

- `ResultsAreCounted` (`Spec => []DuplicatesHaveACause`). `Counted`: a result that is
  not yet marked belongs to a process that is about to mark the row, or to a death;
  once it is marked, every process that still has the row may add one.
- `RecentSnapshotsAreKept` (`Spec => []SnapshotsAreKept`). `Directory` says of the
  audit directory, for any number of processes that copy, list, sort and remove at
  once: which task each directory is of and in which order they were made
  (`Retained`, `Present`, `InOrder`), that a process's list is a part of it in that
  order (`Listed`), that the husks are no more than the deaths and the other
  processes (`HusksAreFew`), that what is gone, and what is to go, is older than what
  the cap keeps (`GoneAreOld`, `VictimsAreOld`), and that a process that is alone
  ends below the cap (`Bounded`).
- `HarvestsAreSound` (`FlywheelSpec => []HarvestIsSound`). `Executed`: a task with
  outcomes alone has its snapshot, complete, from before; `HInv`: what a harvest has
  asked for was executed or audited as often, it makes one example of each, and, as
  long as no removal is under way, nothing whose snapshot there is was passed over.

`AppProofs` (any threads, requests, budgets): `ConnectionsAreNotShared`
(`Spec => []OneTaskPerConnection`) and `TasksAreTheirOwn`
(`Spec => []TasksRunAsAsked`). The invariant adds `Owned`, the connection of a task
past its first insert was opened by its own thread, which is what the SQLite check
enforces, and a thread has one task; `Accounted`, the meter of an undisturbed task
is what it spent itself; `AsAsked`, the mode at each of the three points where the
global is read.

Of the agents, for any number of retries and any replies: `AgentsStayAccountable`
(`Triad!Spec => []AgentsAreAccountable`). `SentSoFar` bounds the requests of a call by
where it is in its two rounds of retries; `Turns` says whose turn it is, so that the
agents after it have not been asked and the judges only after a planner that found
branches.

`PatchProofs` (any files, patches, tests, pools of arguments and functions, and any
verdicts of `git`, `pytest` and Docker):

- `WhatWasScreenedRuns` (`Spec => []SandboxRunsWhatWasScreened`) and
  `PatchesStayContained` (`Spec => []PatchesAreContained`). `Result` says, without the
  steps, which working copies the three tiers may leave of a patch on a version;
  `PatchInv` that the copies an application starts from are pristine (`Copies`), that
  one under way is at a point on the way to its result (`OnTheWay`: which tiers were
  refused, which rewrites are written), and that one that has ended has its result
  (`Ended`). That two applications end alike is then `Result` being a function of the
  version, whatever rubbish the tiers left on the way.
- `SignalsAreRight` (`Signal!Spec => []SignalIsRight`): the reader keeps step with the
  writer line by line (`ReaderInStep`), and the ratio that is judged is that of the
  code touched and not run (`Judged`), where a rewritten file is touched as a whole
  and a file that was not measured counts for nothing. `u_max` is compared without
  division.
- `CallsAreClean` (`Suite!Spec => []CallIsClean`): `RunsSoFar`, what has run has passed
  and is in the patched tree; `Outcome`, what the result will say; `Leftovers`, the
  container is there from its launch to its removal.
- `TheOracleIsRight` (`Oracle!Spec => []OracleIsRight`): as long as no call changes an
  argument that a later call is given (`Pure`), the objects of the inputs to come are
  as they were generated (`ArgumentsAreFresh`) and the counts are those of the inputs
  before (`Tally`), in each of the two ways the oracle is run; of a candidate that does
  not load nothing is tried, and the harness alone refuses it (`OnlyLoaded`).

`CalibrationProofs` (any minimum of samples, outcomes, deaths; one process):
`FilesBelongTogether` (`Spec => []FilesAgree`) and `CalibrationsHeal`
(`Spec => CalibrationHeals`). The invariant adds `Measured`, a run's recalibrator
is no newer than the data it read; `InStep`, what the process holds is what the
recalibrator file says, except between the two; `Undisturbed`, without a death the
two files match except while a run that fitted is between its writes. That there is
one process is an assumption of each theorem (`OneProcess`): with two, one may fit a
threshold while the other replaces the recalibrator.

Of the numbers (any probabilities, bins, rates and minima; any number of rows),
`ConclusionsAreRight` (`EitherSpec => []NumbersAreRight`) and `NewsIsHeeded`
(`EitherSpec => NewsMovesTheGateTheRightWay`). The invariant says no more than that
threshold, action and level are those of the rows (`NumbersInv`); the rest are facts
about the functions:

- Sums over finite sets. `SumFunctionOnSet` of the library takes some order; that it
  has a value (`SumExists`), that the order does not matter (`SumTakes`), and that sums
  add up over sets that are apart (`SumOfBoth`) is proved by induction on the set.
- The binomial tail. It grows with the failures allowed (`TailGrows`); one success more
  keeps the bound (`SuccessHelps`), and a bound that holds after a failure held before
  it (`FailureHurts`). `Tail` and `Outcomes` are recursive in the number of trials.
- The calibration error. What is off below one edge of a bin is off by no more than the
  errors of the bins below it, edge after edge (`GapIsBelowECE`).

`TrainingProofs` (any history, dataset, repository, and any constants of training):

- `MinedPairsAreSound` (`Spec => []PairsAreSound`) and `MinedDiffsAreDifferences`
  (`Spec => TheDiffIsTheDifference`). `Trees`: while the buggy tree is made, the files
  put back are at the parent and all others at the commit; `Kept`: two examples for
  each pair, none of the commit looked at.
- `TeachersLabelsAreRight` (`Labels!Spec => []LabelsAreRight`). `Judging`: each fresh
  mutant was asked about once up to where the loop is; `Placing`: a row has a label if
  it was answered and is the last of its description, and else what it came with.
  That there are no fewer answers than rows labelled is a counting argument (`AnswersCoverRows`).
- `MemoryGraphIsRight` (`Graph!Spec => []GraphIsRight`) and
  `TrainingSeesWhatServingSees` (`Graph!Spec => []TrainAndServeAgree`). The invariant
  only says that a graph that is current was extracted from the repository in some
  order (`GraphInv`); the rest are facts about extraction. `RoundsAreWalks`: the rounds
  by which a neighbourhood grows reach what walks of that length reach;
  `QualNamesExist`: a qualified name is that of the enclosing definition and one's own.
- `FilesOfRunsSurvive` (`Fits!TrainingSpec => []FilesSurvive`). `Written`: what is on
  disk is the beginning of the labels of the last build, and the rest is still to
  come; `Stored`: half-written weights are a run's that is saving or was killed saving.
- `HeldOutRowsAreUnseen` (`Fits!TrainingSpec => []HeldOutIsUnseen`). `Parted`: mutants
  and harvest have other origins than defects, both halves are dealt by one share, and
  what was fitted is one half of both. The share is rounded half to even, so the proof
  is of integers, at most five tenths leave a row of each class of two.
- `ScoresAreOutOfFold` (`Fits!TrainingSpec => []OutOfFold`). `Validating`: a row whose
  fold has been the test set has one score, that of the model of all other rows, if
  there are any. `FoldOfFile`: in grouped folds a row's fold is the number of files
  first seen before its own; `StratifiedFoldsAre`: dealing leaves rows outside a fold
  just when there are two folds and a class of two rows.
- `EnsemblesAreHonest` (`Fits!TrainingSpec => []EnsembleIsHonest`). A row's nodes end
  where those of the next begin (`RowsFollow`). The variance is split head after head:
  `VarianceSplits` carries the identity along the running sums. That the more complex
  change is not likelier to pass holds of any number of heads, cut off or not, and is
  not obvious: upper heads rise with complexity, because their spread grows faster than
  the centre falls. All heads swing about one point, a probability of 0.68
  (`HeadsSwing`), and of two at the same distance from it the lower falls by no less
  than the upper rises (`SwingsFall`); the other heads fall (`HeadsFall`, with
  `SumOfReflections`). The spread of heads that are not cut off is that of their
  distances (`UncutHeadsAre`, `HeadsSpread`).

Some functions of these modules are recursive over their data, and no installed prover
can instantiate the library's induction theorems. They are proved about by induction
on sets: the numbers for which a statement holds contain nought and with each number
its successor, hence are all (`AllNumbersIn`, from the least-element theorem
`WFMin`), and an approximation that satisfies the recursion exists, so that `CHOOSE`
picks one.

Assumptions: `ConstantsAssumption`, `EntropyAssumption` and `RunTaskAssumption`, which
say that weights are probabilities, limits and the entropy natural numbers, the recalibrator monotone (it
is isotonic regression) and measurements well typed; `ControlLoopAssumption`,
`AppAssumption`, `CalibrationAssumption` and `CascadeAssumption`, which say that
limits are natural numbers, cadence, share and retention positive, the set of
processes finite, answers well typed, and a torn file none of the contents a file
may have. `PatchApplyAssumption`, `SignalAssumption`, `SuiteAssumption`,
`OracleAssumption`, `TriadAssumption`, `MiningAssumption`, `LabelsAssumption`,
`GraphAssumption` and `FitsAssumption` say the same of the other modules: sets of files
and tests finite, limits natural numbers, lists lists; further that a definition is
listed after the one it stands in, that a teacher's `NoLabel` is none of its answers,
and that no defect mined from git has the origin of a mutant or of a harvested branch.
`NumbersAssumption` says that probabilities are finitely many and that the binomial
bound is no lower than the observed rate, up to the number of rows the instance admits:
a theorem on the median of the binomial distribution for `conformal_delta` below one
half (`config.py:62` has a tenth), which is not proved here. TLC
evaluates each in the run of an instance that extends the module.

Only model-checked:

- Liveness (`SuiteEnds`): the prover has no `ENABLED`.

## 7. Where the code and its text disagree

Four disagreements are runs that must find a violation, with the quotation in
`PROJECT.json`.

| Run | What happens |
|---|---|
| `ControlLoopSnapshots` | Snapshots that unaudited rows need are trimmed. |
| `OraclePrunes` | A patched module that the oracle's harness cannot import is pruned as a crash of a function that was never called. |
| `AgentClientCrash` | Malformed replies (no JSON body; null `choices`, `message` or `content`) crash the task instead of degrading it. |
| `MiningAdded` | A fix that adds a source file ends the scan and loses every pair found. |

The models show others, for which there is no run; most are the condition under
which a property is stated:

- oracle runs come on top of `max_sandbox_executions_per_task`
  (`orchestrator.py:227`; the last conjunct of `SandboxBudgetSpentInFull` is all
  that bounds them);
- requests on one orchestrator reset each other's token meters (`app.py:32`; the
  excuse of `BudgetIsOwnUnlessShared`);
- a sandbox that raises leaves the rest of a round unmarked (`audit.py:101`;
  `ReplayRaises`), and "every N tasks" (`orchestrator.py:543`) is not what happens:
  a task without branches is not counted, so that a round that was due is due
  again; two processes can step over the multiple; a task that raises takes its
  round with it (the excuses of `CadenceIsKept`); and a round has nothing to look at
  when another process has marked all rows between its count and its sample
  (`orchestrator.py:567`, `:570`; the excuse of `RoundsMakeProgress`);
- `rmtree` makes the directory it empties the newest, so that a removal that was
  abandoned leaves a husk that counts as a snapshot and costs a real one its place
  (`orchestrator.py:533`; the excuse of `RecentTasksAreReplayable`), and two
  processes that trim together can stop one another's task: `d.stat()` raises
  (`StatRaises`);
- a harvest "skips any task whose pristine snapshot is gone" (`replay.py:99`), but
  one that goes between the test and the copy ends it, and all examples are lost
  (`ReconstructRaises`; the excuse of `QuietHarvestIsComplete`);
- features are to have "no train/serve skew" (`cpg_features.py:5`): an edit in a
  nested function, or in one of two functions of one name, is centred on other
  functions when it is labelled than when it is scored; and an edit of a decorator is
  in the decorated function when it is labelled (`mutate.py:66`) and not when it is
  scored (`cpg_features.py:122`), which then falls back on the whole file (`HeldByOne`,
  the condition of `TrainAndServeAgree`);
- a trained model is compared "on data it never saw" (`train.py:9`): the fix and
  the regression of one commit, and a branch that was harvested twice, are dealt to
  both halves (`train.py:424`; the excuse of `NothingLeaks`);
- two rows of different classes are both dealt to fold 0, which leaves nothing to
  train on and nobody to score the rows (`train.py:253`; `apart` in `OutOfFold`);
- a weights file that was opened and not yet written raises `EOFError`, which "degrade
  to the heuristic" (`latent_model.py:275`) does not cover (`Load`), and a build
  that is killed leaves a short dataset, on which the next run trains as if it were
  all, or half a line, which no run can read until `--rebuild` (`dataset.py:160`;
  the excuses of `FilesSurvive`);
- a death between the writes of the two calibration files leaves a gate fitted on
  another model's probabilities (`calibration_loop.py:96`; the excuse of
  `MismatchNeedsADeath`);
- the audit replays another state than the scored one when the repository is
  edited between the two copies (`orchestrator.py:308`; the condition on versions
  in `SandboxRunsWhatWasScreened`);
- the safety check refuses a patch that "touches sensitive path" (`patcher.py:65`),
  but knows of the diff only the files of its `+++ a/` and `+++ b/` lines
  (`patcher.py:37`): a sensitive file that the diff deletes or renames passes it, and
  git applies the diff (`silent`; the excuse of `SensitiveFilesStay`);
- a file in both diff and rewrites counts twice as "changed" (`patcher.py:158`;
  `Touched` is a sequence);
- the fuzzy tier "returns False if it cannot confidently apply every hunk"
  (`patcher.py:106`), but replaces a file by what the diff shows of it
  (`patcher.py:118`; state `"hunks"`), with removed lines left as blank ones, and does
  nothing about files that the diff deletes or renames, and still reports success (the
  second conjunct of `SuccessIsWhole`);
- golden and candidate share argument objects (`property_oracle.py:165`; the
  condition `Pure` of the oracle's properties), and of a candidate that does not load
  the harness says `tests_passed = False` where `differential_check` says `ok`
  (`Uncollected`; the exception in `PureFunctionsAreJudgedRight`);
- a removed line that begins with `-- ` is lost and a pure insertion goes unjudged
  next to a removal (`coverage_signal.py:110`, `:131`; `odd` and `removals_only`);
- a failed branch can lower the threshold: the support it lends counts as that of a
  success does (`calibrate.py:162`; the excuse of `NewsMovesTheGateTheRightWay`);
- a prediction of exactly one is in no calibration bin (`calibrate.py:42`; the
  excuse of `RecalibratesWhenOff` and `AutoMergeIsCalibrated`);
- there is no name heuristic when pytest cannot run (`graph_db.py:79`);
- `attach_soft_labels` counts answers, not rows (`distill.py:85`); of two rows with
  one file and description the later one gets the label, which a twin of the mutant it
  describes may have supplied, and a label that a row brings along stays when nothing
  is said of it (`SpokenOf`).

## 8. What is not modelled

- Gradient descent, the network and its layers, temperature scaling and the
  isotonic fit itself: numerical. A fitted model is what it was fitted on, its
  answers are any.
- The numbers of a node's feature row and the weight of an example: functions of
  one row on which no control depends.
- `get_prompt_context` and its cut to a budget, and the text of prompts: they
  change what the planner is shown, and its answer is any list of branches.
- The five generators of `mutate.py`: they rewrite a syntax tree without state.
  What their output is keyed by is in `Distill` and `MemoryGraph`.
- `detect_drift`, the Brier score, `run_audit`, `distill_agreement`, the cost
  ledger: computed for reports; nothing decides on them.
- `eval/`, `scripts/`, sample repositories: offline. `eval/arbiter_eval.py` and
  `eval/real_defect_eval.py` call `decide` without the conformal threshold and the
  aleatoric gate, so that their figures are of another rule than the one served.
- `api.py` copies fields of the report; the autonomy it adds is in `Calibrate`.
- Reading the environment (`config.py`): its settings are the constants here.
- The text of patches, logs and notes; file-system errors such as a full disk; the
  power of `INSERT OR REPLACE` on ids that are fresh anyway.
- `PruneReason.MALFORMED` and `BUDGET_EXCEEDED`, and `max_branch_depth`, which no
  code uses.
- A torn `tokens_used +=` between threads; see the note in the hazard list.

Three abstractions of the control loop: the `stat()` calls of one trim are one step;
`st_mtime` is the order of `dirs`, without ties; and a copy into or out of a
directory that is being removed either raises or finds what the step before left.

## 9. Plan

Done, the most important behaviour first: `Arbiter`, `RunTask` with its properties,
`TieredGate` and `Cascade`, `ControlLoop`, `Calibration`, `AgentClient`, `App`,
`PatchApply`, `PropertyOracle`, `CoverageSignal`, `Calibrate`, `Mining`, `Sandbox`,
`Distill`; then the trims of `ControlLoop` step by step and its cadence, `Flywheel`,
`MemoryGraph`, `LatentModel`, `Training`; the proofs of every safety property the runs
check, and that `RunTask` and `Cascade` implement `TieredGate`.

Next, proofs: that the median of the binomial distribution is next to its mean, which
would replace the last conjunct of `NumbersAssumption`.

Next, modelling: `get_prompt_context` against a definition of what the budget may
cut; `ControlLoop` with `Calibration` over one cadence, whose outcomes are the
rows the other logs.
