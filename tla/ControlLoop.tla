---------------------------- MODULE ControlLoop ----------------------------
(***************************************************************************)
(* The control loop around the tasks: the repository snapshots kept for    *)
(* replay (Orchestrator._retain_snapshot, _prune_old_snapshots), the audit *)
(* cadence of _maybe_run_controls, and the re-execution of sampled rows of *)
(* the pruned reservoir (orchestrator/audit.py, db/db_client.py).          *)
(*                                                                         *)
(* Each process of Worker holds its own Orchestrator; they share the       *)
(* database file and the audit directory.  A process that is killed is     *)
(* started again.  A task stands for its branches, of which at most one is *)
(* pruned here.  Calibration, which the same cadence triggers, is the      *)
(* module Calibration.                                                     *)
(***************************************************************************)
EXTENDS Integers, Sequences, FiniteSets, SequencesExt

CONSTANTS
  Worker,        \* the processes
  AuditEvery,    \* hp.audit_every_n_tasks
  SampleOneIn,   \* 1 / hp.audit_sampling_percent
  MaxSnapshots,  \* hp.max_audit_snapshots
  MaxTasks,      \* bound: tasks started, planner failures included
  MaxKills       \* bound: kills

ASSUME ControlLoopAssumption ==
  /\ IsFiniteSet(Worker)
  /\ AuditEvery \in Nat \ {0} /\ SampleOneIn \in Nat \ {0}
  /\ MaxSnapshots \in Nat \ {0}
  /\ MaxTasks \in Nat /\ MaxKills \in Nat

Task    == 1 .. MaxTasks
Reason  == {"LOW_SCORE", "SYMBOLIC_FAIL", "UNSAFE_PATCH"}

VARIABLES
  active,     \* the processes of this deployment
  pc,         \* what each process is doing
  task,       \* the task it is at, 0 for none
  victims,    \* the directories it listed, then those it has still to remove
  todo,       \* the rows its audit round has still to process
  row,        \* the row it has processed and not yet marked, 0 for none
  limit,      \* how many rows its round is to sample
  started,    \* tasks started
  logged,     \* tasks with a row in branches: what count_tasks counts
  retained,   \* history: tasks in the order their snapshots were begun
  dirs,       \* the directories of audit_dir, by st_mtime
  snapshot,   \* what each of them holds
  outcomes,   \* logged tasks of which no branch was pruned: executed, or held
  reservoir,  \* table pruned_branches: task -> reason, for the tasks with a row
  sampled,    \* its rows with sampled_for_audit = 1
  audits,     \* table audit_results: how many rows each pruned row has there
  missed,     \* the pruned rows with an audit result that is a false negative
  tainted,    \* history: rows re-executed on less than the whole snapshot
  skipped,    \* rows that an audit found could not be re-executed
  visited,    \* history: counts at which _maybe_run_controls ran
  cut,        \* history: counts at which a task ended before it
  kills

disk   == <<retained, dirs, snapshot>>
tables == <<logged, outcomes, reservoir, sampled, audits>>
notes  == <<missed, tainted, skipped>>
past   == <<visited, cut>>
store  == <<disk, tables, notes>>
vars   == <<pc, task, victims, todo, row, limit, started, store, past, kills>>

Init ==
  /\ active \in (SUBSET Worker) \ {{}}
  /\ pc = [w \in Worker |-> "idle"]
  /\ task = [w \in Worker |-> 0]
  /\ victims = [w \in Worker |-> <<>>]
  /\ todo = [w \in Worker |-> {}]
  /\ row = [w \in Worker |-> 0]
  /\ limit = [w \in Worker |-> 0]
  /\ started = 0 /\ kills = 0
  /\ logged = {} /\ outcomes = {} /\ retained = <<>> /\ dirs = <<>>
  /\ snapshot = [t \in Task |-> "none"]
  /\ reservoir = <<>> /\ sampled = {}
  /\ audits = [t \in Task |-> 0]
  /\ missed = {} /\ tainted = {} /\ skipped = {}
  /\ visited = {} /\ cut = {}

Goto(w, phase) == pc' = [pc EXCEPT ![w] = phase]
Rest == UNCHANGED <<todo, row, limit, kills>>
count_tasks == Cardinality(logged)

Noting(counts) ==   \* the histories of a process that is alone
  IF Cardinality(active) = 1 THEN counts \cup {count_tasks} ELSE counts

(* The run_task call is over, after its controls or before them. *)
Return(w) == Goto(w, "idle") /\ task' = [task EXCEPT ![w] = 0]
Leave(w) ==
  /\ Return(w)
  /\ victims' = [victims EXCEPT ![w] = <<>>]
  /\ cut' = Noting(cut)
  /\ UNCHANGED visited

-----------------------------------------------------------------------------
(* run_task up to its pruned rows. *)
PlannerFails(w) ==
  /\ pc[w] = "idle" /\ started < MaxTasks
  /\ started' = started + 1
  /\ Goto(w, "controls")
  /\ UNCHANGED <<task, victims, store, past>> /\ Rest

(* The planner may answer with an empty list: then no row names the task. *)
Plan(w) ==
  /\ pc[w] = "idle" /\ started < MaxTasks
  /\ started' = started + 1
  /\ task' = [task EXCEPT ![w] = started + 1]
  /\ \E some \in BOOLEAN : logged' = IF some THEN logged \cup {started + 1} ELSE logged
  /\ Goto(w, "retain")
  /\ UNCHANGED <<victims, disk, outcomes, reservoir, sampled, audits, notes, past>> /\ Rest

(* _retain_snapshot: a directory named after a fresh task id, then the copy. *)
RetainSnapshot(w) ==
  /\ pc[w] = "retain"
  /\ retained' = Append(retained, task[w])
  /\ dirs' = Append(dirs, task[w])
  /\ snapshot' = [snapshot EXCEPT ![task[w]] = "copying"]
  /\ Goto(w, "copy")
  /\ UNCHANGED <<task, victims, started, tables, notes, past>> /\ Rest

(* The files under the copy fail, or another process removes it meanwhile. *)
CopyRaises(w) ==
  /\ pc[w] = "copy"
  /\ Leave(w)
  /\ UNCHANGED <<started, store>> /\ Rest

(* The copy is complete; _prune_old_snapshots lists the directories. *)
CopySnapshot(w) ==
  /\ pc[w] = "copy" /\ snapshot[task[w]] = "copying"
  /\ snapshot' = [snapshot EXCEPT ![task[w]] = "whole"]
  /\ IF Len(dirs) <= MaxSnapshots
     THEN Goto(w, "log") /\ UNCHANGED victims
     ELSE Goto(w, "sort") /\ victims' = [victims EXCEPT ![w] = dirs]
  /\ UNCHANGED <<task, started, retained, dirs, tables, notes, past>> /\ Rest

-----------------------------------------------------------------------------
(* The rest of _prune_old_snapshots: the st_mtime of the listed directories is *)
(* read, and the oldest are removed one after the other.                       *)
Newest(ds) == SubSeq(ds, MaxSnapshots + 1, Len(ds))   \* mutant of Oldest
Oldest(ds) == SubSeq(ds, 1, Len(ds) - MaxSnapshots)

Older(c, d) == \E i, j \in DOMAIN dirs : i < j /\ dirs[i] = c /\ dirs[j] = d
Sorted(ds)  == \A i, j \in DOMAIN ds : i < j => Older(ds[i], ds[j])

SortSnapshots(w) ==
  /\ pc[w] = "sort" /\ ToSet(victims[w]) \subseteq ToSet(dirs)
  /\ \E listed \in [DOMAIN victims[w] -> ToSet(victims[w])] :
       /\ Sorted(listed)
       /\ victims' = [victims EXCEPT ![w] = Oldest(listed)]
  /\ Goto(w, "trim")
  /\ UNCHANGED <<task, started, store, past>> /\ Rest

(* d.stat() of a directory that another process has removed since. *)
StatRaises(w) ==
  /\ pc[w] = "sort" /\ ~(ToSet(victims[w]) \subseteq ToSet(dirs))
  /\ Leave(w)
  /\ UNCHANGED <<started, store>> /\ Rest

(* shutil.rmtree removes the files, then repo, then the directory itself;      *)
(* removing repo makes the directory the newest.  What is gone is ignored.     *)
RemoveFiles(w, d) ==
  /\ snapshot[d] \in {"copying", "whole"}
  /\ snapshot' = [snapshot EXCEPT ![d] = "torn"]
  /\ UNCHANGED <<pc, dirs, victims>>

RemoveRepo(w, d) ==
  /\ snapshot[d] = "torn"
  /\ snapshot' = [snapshot EXCEPT ![d] = "husk"]
  /\ dirs' = Append(RemoveFirst(dirs, d), d)
  /\ UNCHANGED <<pc, victims>>

RemoveDirectory(w, d) ==
  /\ snapshot[d] \in {"husk", "none"}
  /\ snapshot' = [snapshot EXCEPT ![d] = "none"]
  /\ dirs' = RemoveFirst(dirs, d)
  /\ victims' = [victims EXCEPT ![w] = Tail(@)]
  /\ IF victims'[w] = <<>> THEN Goto(w, "log") ELSE UNCHANGED pc

TrimSnapshots(w) ==
  /\ pc[w] = "trim"
  /\ LET d == Head(victims[w])
     IN  RemoveFiles(w, d) \/ RemoveRepo(w, d) \/ RemoveDirectory(w, d)
  /\ UNCHANGED <<task, started, retained, tables, notes, past>> /\ Rest

-----------------------------------------------------------------------------
(* The branches are decided and logged; with no branches nothing is pruned. *)
LogPruned(w) ==
  /\ pc[w] = "log" /\ task[w] \in logged
  /\ \E why \in Reason :
       reservoir' = [t \in DOMAIN reservoir \cup {task[w]} |->
                       IF t = task[w] THEN why ELSE reservoir[t]]
  /\ Goto(w, "controls")
  /\ UNCHANGED <<task, victims, started, disk, logged, outcomes, sampled, audits, notes,
                 past>>
  /\ Rest

ReturnEarly(w) ==   \* mutant of LogNothing
  /\ pc[w] = "log"
  /\ Return(w)
  /\ UNCHANGED <<victims, started, store, past>> /\ Rest

LogNothing(w) ==
  /\ pc[w] = "log"
  /\ outcomes' = outcomes \cup ({task[w]} \cap logged)
  /\ Goto(w, "controls")
  /\ UNCHANGED <<task, victims, started, disk, logged, reservoir, sampled, audits, notes,
                 past>>
  /\ Rest

(* BudgetExceeded, or any other exception, before the rows are logged or after *)
(* it, in tier 3: _finalize is not reached.                                    *)
TaskRaises(w) ==
  /\ pc[w] = "log" \/ (pc[w] = "controls" /\ task[w] # 0)
  /\ Leave(w)
  /\ UNCHANGED <<started, store>> /\ Rest

-----------------------------------------------------------------------------
(* _maybe_run_controls. *)
Unsampled   == DOMAIN reservoir \ sampled

(* Python's round(): to the nearest integer, ties to the even one. *)
RoundedShare(total) ==
  LET q == total \div SampleOneIn
      r == total % SampleOneIn
  IN  IF 2 * r > SampleOneIn \/ (2 * r = SampleOneIn /\ q % 2 = 1) THEN q + 1 ELSE q

RoundedOnly(total) == RoundedShare(total)   \* mutant of SampleSize
SampleSize(total) == IF RoundedShare(total) < 1 THEN 1 ELSE RoundedShare(total)

AuditDue == count_tasks % AuditEvery = 0

NoRound(w) ==
  /\ pc[w] = "controls" /\ ~AuditDue
  /\ visited' = Noting(visited)
  /\ Return(w)
  /\ UNCHANGED <<victims, started, store, cut>> /\ Rest

StartRound(w) ==
  /\ pc[w] = "controls" /\ AuditDue
  /\ visited' = Noting(visited)
  /\ Goto(w, "count")
  /\ UNCHANGED <<task, victims, started, store, cut>> /\ Rest

(* count_pruned_unsampled: how many rows there are decides how many to take... *)
CountReservoir(w) ==
  /\ pc[w] = "count"
  /\ IF Unsampled = {} THEN Return(w) /\ limit' = limit
     ELSE /\ limit' = [limit EXCEPT ![w] = SampleSize(Cardinality(Unsampled))]
          /\ Goto(w, "sample") /\ task' = task
  /\ UNCHANGED <<victims, todo, row, started, store, past, kills>>

(* ... sample_pruned_for_audit: of the rows that no round has marked by now.   *)
SampleRows(w) ==
  /\ pc[w] = "sample"
  /\ \E S \in SUBSET Unsampled :
       /\ Cardinality(S) = limit[w] \/ (S = Unsampled /\ Cardinality(S) < limit[w])
       /\ todo' = [todo EXCEPT ![w] = S]
  /\ limit' = [limit EXCEPT ![w] = 0]
  /\ IF todo'[w] = {} THEN Return(w) ELSE Goto(w, "audit") /\ task' = task
  /\ UNCHANGED <<victims, row, started, store, past, kills>>

-----------------------------------------------------------------------------
(* reexecute_pruned: _audit_one, then mark_audited, for every sampled row. *)
Auditing(w, r) == pc[w] = "audit" /\ r \in todo[w]

(* Whether a re-execution is attempted at all: audit_dir / task_id / "repo". *)
RepoExists(t) == snapshot[t] \in {"copying", "whole", "torn"}
AnyReason(r)  == RepoExists(r)   \* mutant of Replayable
Replayable(r) == reservoir[r] # "UNSAFE_PATCH" /\ RepoExists(r)

(* The row is not replayable, or its patch does not apply to the snapshot. *)
SkipReplay(w) ==
  /\ \E r \in todo[w] :
       /\ Auditing(w, r)
       /\ row' = [row EXCEPT ![w] = r]
       /\ skipped' = skipped \cup {r}
  /\ Goto(w, "mark")
  /\ UNCHANGED <<task, victims, todo, limit, started, disk, tables, missed, tainted, past,
                 kills>>

(* run_sandbox on a copy of the snapshot, then insert_audit_result. *)
Replay(w) ==
  /\ \E r \in todo[w], passed \in BOOLEAN :
       /\ Auditing(w, r) /\ Replayable(r)
       /\ row' = [row EXCEPT ![w] = r]
       /\ audits' = [audits EXCEPT ![r] = @ + 1]
       /\ missed' = IF passed /\ reservoir[r] = "LOW_SCORE" THEN missed \cup {r}
                    ELSE missed
       /\ tainted' = IF snapshot[r] = "whole" THEN tainted ELSE tainted \cup {r}
  /\ Goto(w, "mark")
  /\ UNCHANGED <<task, victims, todo, limit, started, disk, logged, outcomes, reservoir,
                 sampled, skipped, past, kills>>

(* The sandbox raises (a container timeout), or the copy of the snapshot does. *)
ReplayRaises(w) ==
  /\ \E r \in todo[w] : Auditing(w, r) /\ Replayable(r)
  /\ todo' = [todo EXCEPT ![w] = {}]
  /\ Return(w)
  /\ UNCHANGED <<victims, row, limit, started, store, past, kills>>

EndRow(w) ==
  /\ pc[w] = "mark"
  /\ todo' = [todo EXCEPT ![w] = @ \ {row[w]}]
  /\ row' = [row EXCEPT ![w] = 0]
  /\ IF todo'[w] = {} THEN Return(w) ELSE Goto(w, "audit") /\ task' = task
  /\ UNCHANGED <<victims, limit, started, disk, logged, outcomes, reservoir, audits, notes,
                 past, kills>>

ForgetToMark(w) == EndRow(w) /\ UNCHANGED sampled   \* mutant of Mark
MarkWholeRound(w) ==   \* mutant of Mark
  EndRow(w) /\ sampled' = sampled \cup todo[w]

(* mark_audited; the round and with it the task ends with the last row. *)
Mark(w) == EndRow(w) /\ sampled' = sampled \cup {row[w]}

-----------------------------------------------------------------------------
(* The process dies and is started again; the files stay as they are. *)
Kill(w) ==
  /\ pc[w] # "idle" /\ kills < MaxKills
  /\ kills' = kills + 1
  /\ Leave(w)
  /\ todo' = [todo EXCEPT ![w] = {}]
  /\ row' = [row EXCEPT ![w] = 0]
  /\ limit' = [limit EXCEPT ![w] = 0]
  /\ UNCHANGED <<started, store>>

(* What a process does once it has a task. *)
Work(w) ==
  \/ RetainSnapshot(w) \/ CopySnapshot(w) \/ CopyRaises(w)
  \/ SortSnapshots(w) \/ StatRaises(w) \/ TrimSnapshots(w)
  \/ LogPruned(w) \/ LogNothing(w) \/ TaskRaises(w)
  \/ StartRound(w) \/ NoRound(w) \/ CountReservoir(w) \/ SampleRows(w)
  \/ SkipReplay(w) \/ Replay(w) \/ ReplayRaises(w) \/ Mark(w)

Next ==
  /\ UNCHANGED active
  /\ \E w \in active : PlannerFails(w) \/ Plan(w) \/ Work(w) \/ Kill(w)

Spec == Init /\ [][Next]_<<active, vars>>

-----------------------------------------------------------------------------
TypeOK ==
  /\ active \subseteq Worker
  /\ pc \in [Worker -> {"idle", "retain", "copy", "sort", "trim", "log",
                        "controls", "count", "sample", "audit", "mark"}]
  /\ task \in [Worker -> 0 .. MaxTasks] /\ row \in [Worker -> 0 .. MaxTasks]
  /\ limit \in [Worker -> Nat]
  /\ todo \in [Worker -> SUBSET Task]
  /\ \A w \in Worker : ToSet(victims[w]) \subseteq Task
  /\ started \in 0 .. MaxTasks /\ kills \in 0 .. MaxKills
  /\ logged \subseteq Task /\ ToSet(retained) \subseteq Task
  /\ snapshot \in [Task -> {"none", "copying", "whole", "torn", "husk"}]
  /\ ToSet(dirs) = {t \in Task : snapshot[t] # "none"} /\ IsInjective(dirs)
  /\ DOMAIN reservoir \subseteq logged /\ \A t \in DOMAIN reservoir : reservoir[t] \in Reason
  /\ outcomes \subseteq logged \ DOMAIN reservoir
  /\ sampled \subseteq DOMAIN reservoir
  /\ audits \in [Task -> Nat]
  /\ missed \cup tainted \cup skipped \subseteq Task
  /\ visited \cup cut \subseteq 0 .. MaxTasks

(* A row leaves the reservoir only processed: it was re-executed, or an audit *)
(* found that it could not be (audit.py:102-106, mark_audited comes last, so  *)
(* that a crash re-audits a row and never loses one).                         *)
NoRowLost == \A r \in sampled : audits[r] > 0 \/ r \in skipped

(* The false-negative rate counts a row more than once only where a process   *)
(* died, or another one audited at the same time, between the two writes.     *)
DuplicatesHaveACause ==
  \A r \in Task : audits[r] <= Cardinality(active) + kills

(* A pruned branch of a recent task can be replayed: its snapshot was taken   *)
(* before the row and outlives the next max_audit_snapshots - 1 snapshots.    *)
(* Each death between two steps of a removal, and each other process at one,  *)
(* may cost a place: the emptied directory is listed as the newest.           *)
RecentTasksAreReplayable ==
  /\ DOMAIN reservoir \subseteq ToSet(retained)
  /\ \A i \in DOMAIN retained :
       i > Len(retained) - MaxSnapshots + kills + Cardinality(active) - 1
         => snapshot[retained[i]] \in {"copying", "whole"}

(* The disk is bounded: a process that is alone is back under the cap when it *)
(* has trimmed, whatever earlier ones left behind when they died.             *)
SnapshotsAreBounded ==
  \A w \in Worker : active = {w} /\ pc[w] = "log" => Len(dirs) <= MaxSnapshots

(* The audit directory holds what a recent audit needs, and not much more.    *)
SnapshotsAreKept == TypeOK /\ RecentTasksAreReplayable /\ SnapshotsAreBounded

(* What an audit result says: the patch that ran was not one pruned as        *)
(* unsafe, and a false negative was pruned for its score.                     *)
ResultsAreOfPrunedWork ==
  \A r \in DOMAIN reservoir :
    /\ audits[r] > 0 => reservoir[r] # "UNSAFE_PATCH"
    /\ r \in missed => reservoir[r] = "LOW_SCORE" /\ audits[r] > 0

(* Replays are "against the pristine per-task snapshot" (audit.py:4), except  *)
(* after a death in the middle of a removal or beside a process at one.       *)
ReplaysArePristine == tainted # {} => kills > 0 \/ Cardinality(active) > 1

(* An audit result is evidence about the branch that was pruned.              *)
EvidenceIsFair == ResultsAreOfPrunedWork /\ ReplaysArePristine

(* "every N tasks" (orchestrator.py:543): one process alone visits every      *)
(* multiple of the cadence that the count of tasks passes, unless the task    *)
(* that reached it raised or died before its controls.                        *)
CadenceIsKept ==
  Cardinality(active) = 1 =>
    \A n \in 1 .. count_tasks - 1 : n % AuditEvery = 0 => n \in visited \cup cut

(* An audit that is due brings the reservoir down (orchestrator.py:566-578):  *)
(* whatever became of the rows since they were counted, the round looks only  *)
(* at rows that no earlier round finished, and at one of them at least unless *)
(* another process has finished all of them meanwhile.                        *)
RoundsMakeProgress ==
  [][\A w \in Worker : pc[w] = "sample" /\ pc'[w] # "sample" /\ kills' = kills =>
       /\ todo'[w] \cap sampled = {}
       /\ todo'[w] # {} \/ (Unsampled = {} /\ Cardinality(active) > 1)]_vars

(* What comments promise and the code does not keep (config.py:55,            *)
(* orchestrator.py:527): "unaudited snapshots always survive".                *)
UnauditedSnapshotsSurvive == \A r \in Unsampled : RepoExists(r)
=============================================================================
