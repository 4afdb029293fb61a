------------------------------ MODULE Flywheel ------------------------------
(***************************************************************************)
(* The replay flywheel (data/replay.py): a training run harvests examples  *)
(* from the same database and the same audit directory that the processes  *)
(* of ControlLoop go on working on.  It reads the labelled rows at once    *)
(* (DBClient.training_signals) and rebuilds them one by one from the       *)
(* snapshots.  A row that does not parse, or edits no file, is no row here.*)
(***************************************************************************)
EXTENDS ControlLoop

VARIABLES
  hpc,        \* "off", "ready", "rows", "copy", "done", "raised"
  asked,      \* the rows it read: how many of each task
  rows,       \* those it has still to look at
  at,         \* the row it is rebuilding, 0 for none
  examples,   \* the examples of each task
  blurred,    \* history: tasks rebuilt from less than the whole snapshot
  disturbed   \* history: a removal was under way during the harvest

harvest_vars == <<hpc, asked, rows, at, examples, blurred, disturbed>>

NoRows == [t \in Task |-> 0]

HarvestInit ==
  /\ hpc \in {"off", "ready"} /\ at = 0
  /\ asked = NoRows /\ rows = NoRows /\ examples = NoRows
  /\ blurred = {} /\ disturbed = FALSE

(* The branches that were executed, and every row of audit_results. *)
StartHarvest ==
  /\ hpc = "ready"
  /\ \E executed \in SUBSET outcomes :
       asked' = [t \in Task |-> IF t \in executed THEN 1 ELSE audits[t]]
  /\ rows' = asked'
  /\ disturbed' = (\E t \in Task : snapshot[t] = "torn")
  /\ hpc' = "rows"
  /\ UNCHANGED <<at, examples, blurred>>

AnyDirectory(t) == snapshot[t] # "none"   \* mutant of Rebuildable
Rebuildable(t)  == RepoExists(t)

SkipRow ==
  /\ hpc = "rows"
  /\ \E t \in Task :
       /\ rows[t] > 0 /\ ~Rebuildable(t)
       /\ rows' = [rows EXCEPT ![t] = @ - 1]
  /\ UNCHANGED <<hpc, asked, at, examples, blurred, disturbed>>

TakeRow ==
  /\ hpc = "rows"
  /\ \E t \in Task : rows[t] > 0 /\ Rebuildable(t) /\ at' = t
  /\ hpc' = "copy"
  /\ UNCHANGED <<asked, rows, examples, blurred, disturbed>>

(* _reconstruct_example: the graph of the snapshot, and the patch applied to a *)
(* copy of it.                                                                 *)
Reconstruct ==
  /\ hpc = "copy" /\ RepoExists(at)
  /\ examples' = [examples EXCEPT ![at] = @ + 1]
  /\ blurred' = IF snapshot[at] = "whole" THEN blurred ELSE blurred \cup {at}
  /\ rows' = [rows EXCEPT ![at] = @ - 1]
  /\ at' = 0 /\ hpc' = "rows"
  /\ UNCHANGED <<asked, disturbed>>

(* A file or the whole of it is gone: nothing is caught, the harvest is lost. *)
ReconstructRaises ==
  /\ hpc = "copy" /\ snapshot[at] # "whole"
  /\ hpc' = "raised" /\ at' = 0
  /\ UNCHANGED <<asked, rows, examples, blurred, disturbed>>

FinishHarvest ==
  /\ hpc = "rows" /\ rows = NoRows
  /\ hpc' = "done"
  /\ UNCHANGED <<asked, rows, at, examples, blurred, disturbed>>

Harvest ==
  \/ StartHarvest \/ SkipRow \/ TakeRow \/ Reconstruct \/ ReconstructRaises
  \/ FinishHarvest

(* A process of the control loop moves. *)
Beside ==
  /\ Next
  /\ disturbed' = (disturbed \/ (hpc \in {"rows", "copy"} /\ \E t \in Task : snapshot'[t] = "torn"))
  /\ UNCHANGED <<hpc, asked, rows, at, examples, blurred>>

FlywheelInit == Init /\ HarvestInit
FlywheelNext == Beside \/ (Harvest /\ UNCHANGED <<active, vars>>)
FlywheelSpec == FlywheelInit /\ [][FlywheelNext]_<<active, vars, harvest_vars>>

-----------------------------------------------------------------------------
(* What was never executed teaches nothing, and a branch is learnt twice only *)
(* if it was audited twice.                                                   *)
ExamplesAreEarned ==
  \A t \in Task : examples[t] > 0 =>
    /\ t \in DOMAIN reservoir => reservoir[t] # "UNSAFE_PATCH"
    /\ examples[t] <= 1 \/ examples[t] <= audits[t]

(* "Skips any task whose pristine snapshot is gone" (replay.py:99): a harvest *)
(* beside which no snapshot is removed does not raise, rebuilds from whole    *)
(* snapshots alone, and uses every row whose snapshot there is.               *)
QuietHarvestIsComplete ==
  ~disturbed =>
    /\ hpc # "raised" /\ blurred = {}
    /\ hpc = "done" => \A t \in Task : RepoExists(t) => examples[t] = asked[t]

(* The training set that a harvest yields. *)
HarvestIsSound == ExamplesAreEarned /\ QuietHarvestIsComplete
=============================================================================
