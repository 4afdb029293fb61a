------------------------- MODULE ControlLoopProofs -------------------------
(***************************************************************************)
(* What the control loop keeps for any number of processes, tasks, kills   *)
(* and snapshots: rows are not lost and not counted too often, results are *)
(* evidence, rounds get on, the cadence is not missed, and the directory   *)
(* of snapshots holds what an audit needs and a harvest can rely on.       *)
(*                                                                         *)
(* The inductive invariant is introduced part by part, each with the lemma *)
(* that every step of a process keeps it: IInv for the tables and the      *)
(* rounds, Counted for how often a row is counted, Directory for the order *)
(* and the age of directories, and FlywheelInv for the harvest beside it.  *)
(***************************************************************************)
EXTENDS Flywheel, FiniteSetTheorems, SequenceTheorems, TLAPS

(***************************************************************************)
(* The shape of the state, as far as the proofs need it.                   *)
(***************************************************************************)
Phase     == {"idle", "retain", "copy", "sort", "trim", "log", "controls", "count", "sample",
              "audit", "mark"}
BeforeRow == {"retain", "copy", "sort", "trim", "log"}
Held      == {"none", "copying", "whole", "torn", "husk"}

TasksOK ==
  /\ active \subseteq Worker
  /\ pc \in [Worker -> Phase]
  /\ task \in [Worker -> 0 .. MaxTasks]
  /\ started \in 0 .. MaxTasks /\ kills \in Nat

RoundsOK ==   \* victims: a function on Worker, of whatever lists
  /\ row \in [Worker -> 0 .. MaxTasks]
  /\ todo \in [Worker -> SUBSET Task]
  /\ victims = [w \in Worker |-> victims[w]]
  /\ limit \in [Worker -> Nat]

FilesOK ==
  /\ snapshot \in [Task -> Held]
  /\ audits \in [Task -> Nat]
  /\ logged \subseteq Task /\ DOMAIN reservoir \subseteq logged

Shape == TasksOK /\ RoundsOK /\ FilesOK

(* The initial states have the shape. *)
LEMMA ShapeInit ==
  ASSUME Init
  PROVE  Shape
BY ControlLoopAssumption DEF Init, Shape, TasksOK, RoundsOK, FilesOK, Phase, Held, Task

(* There are finitely many tasks. *)
LEMMA SomeTasks ==
  ASSUME NEW S \in SUBSET Task
  PROVE  /\ IsFiniteSet(S) /\ Cardinality(S) \in Nat
         /\ \A T \in SUBSET S :
              IsFiniteSet(T) /\ Cardinality(T) \in Nat /\ Cardinality(T) <= Cardinality(S)
<1>1. IsFiniteSet(Task)
  BY ControlLoopAssumption, FS_Interval DEF Task, ControlLoopAssumption
<1>2. IsFiniteSet(S)
  BY <1>1, FS_Subset
<1>3. \A T \in SUBSET S : IsFiniteSet(T) /\ Cardinality(T) <= Cardinality(S)
  BY <1>2, FS_Subset
<1>4. QED
  BY <1>2, <1>3, FS_CardinalityType

(* A round samples at least one row: max(1, round(...)). *)
LEMMA SampleSizeIsPositive ==
  ASSUME NEW total
  PROVE  SampleSize(total) # 0
<1>1. CASE RoundedShare(total) < 1
  BY <1>1 DEF SampleSize
<1>2. CASE ~(RoundedShare(total) < 1)
  <2>1. RoundedShare(total) # 0
    BY <1>2
  <2>2. QED
    BY <1>2, <2>1 DEF SampleSize
<1>3. QED
  BY <1>1, <1>2

(* How many rows it samples is a natural number. *)
LEMMA SampleSizeIsNatural ==
  ASSUME NEW total \in Nat
  PROVE  SampleSize(total) \in Nat
<1>1. RoundedShare(total) \in Int
  BY ControlLoopAssumption DEF ControlLoopAssumption, RoundedShare
<1>2. QED
  BY <1>1 DEF SampleSize

(* Counting the reservoir ends the controls, or goes on to the sample. *)
LEMMA CountEnds ==
  ASSUME NEW w \in Worker, CountReservoir(w)
  PROVE  pc[w] = "count" /\ (Return(w) \/ (Goto(w, "sample") /\ task' = task))
BY DEF CountReservoir

(* The sample ends the controls, or begins the audit of what it took. *)
LEMMA SampleEnds ==
  ASSUME NEW w \in Worker, SampleRows(w)
  PROVE  pc[w] = "sample" /\ (Return(w) \/ (Goto(w, "audit") /\ task' = task))
BY DEF SampleRows

(* A step of a process keeps phases and tasks within their ranges. *)
LEMMA TasksNext ==
  ASSUME Shape, NEW w \in Worker, PlannerFails(w) \/ Plan(w) \/ Work(w) \/ Kill(w),
         UNCHANGED active
  PROVE  TasksOK'
<1> USE ControlLoopAssumption DEF Shape, TasksOK, RoundsOK, FilesOK, Phase, Held, Task,
        Goto, Return, Leave, Rest, store, disk, tables, notes, past
<1>1. CASE PlannerFails(w)
  BY <1>1 DEF PlannerFails
<1>2. CASE Plan(w)
  BY <1>2 DEF Plan
<1>3. CASE RetainSnapshot(w)
  BY <1>3 DEF RetainSnapshot
<1>4. CASE CopySnapshot(w)
  <2>1. UNCHANGED <<task, started, kills>> /\ (Goto(w, "log") \/ Goto(w, "sort"))
    BY <1>4 DEF CopySnapshot
  <2>2. QED
    BY <2>1
<1>5. CASE CopyRaises(w)
  BY <1>5 DEF CopyRaises
<1>6. CASE SortSnapshots(w)
  BY <1>6 DEF SortSnapshots
<1>7. CASE StatRaises(w)
  BY <1>7 DEF StatRaises
<1>8. CASE TrimSnapshots(w)
  BY <1>8 DEF TrimSnapshots, RemoveFiles, RemoveRepo, RemoveDirectory
<1>9. CASE LogPruned(w)
  BY <1>9 DEF LogPruned
<1>10. CASE LogNothing(w)
  BY <1>10 DEF LogNothing
<1>11. CASE TaskRaises(w)
  BY <1>11 DEF TaskRaises
<1>12. CASE StartRound(w)
  BY <1>12 DEF StartRound
<1>13. CASE NoRound(w)
  BY <1>13 DEF NoRound
<1>14. CASE CountReservoir(w)
  <2>1. pc[w] = "count" /\ (Return(w) \/ (Goto(w, "sample") /\ task' = task))
    BY <1>14, CountEnds
  <2>2. UNCHANGED <<started, kills>>
    BY <1>14 DEF CountReservoir
  <2>3. CASE Return(w)
    BY <2>2, <2>3
  <2>4. CASE Goto(w, "sample") /\ task' = task
    BY <2>2, <2>4
  <2>5. QED
    BY <2>1, <2>3, <2>4
<1>15. CASE SampleRows(w)
  <2>1. pc[w] = "sample" /\ (Return(w) \/ (Goto(w, "audit") /\ task' = task))
    BY <1>15, SampleEnds
  <2>2. UNCHANGED <<started, kills>>
    BY <1>15 DEF SampleRows
  <2>3. CASE Return(w)
    BY <2>2, <2>3
  <2>4. CASE Goto(w, "audit") /\ task' = task
    BY <2>2, <2>4
  <2>5. QED
    BY <2>1, <2>3, <2>4
<1>16. CASE SkipReplay(w)
  BY <1>16 DEF SkipReplay, Auditing
<1>17. CASE Replay(w)
  BY <1>17 DEF Replay, Auditing
<1>18. CASE ReplayRaises(w)
  BY <1>18 DEF ReplayRaises
<1>19. CASE Mark(w)
  <2>1. CASE Return(w) /\ pc[w] = "mark" /\ UNCHANGED <<started, kills>>
    BY <2>1
  <2>2. CASE Goto(w, "audit") /\ task' = task /\ UNCHANGED <<started, kills>>
    BY <2>2
  <2>3. QED
    BY <1>19, <2>1, <2>2 DEF Mark, EndRow
<1>20. CASE Kill(w)
  BY <1>20 DEF Kill
<1>21. QED
  BY <1>1, <1>2, <1>3, <1>4, <1>5, <1>6, <1>7, <1>8, <1>9, <1>10, <1>11, <1>12, <1>13, <1>14,
     <1>15, <1>16, <1>17, <1>18, <1>19, <1>20 DEF Work

(* A step of a process keeps rows and rounds within their ranges. *)
LEMMA RoundsNext ==
  ASSUME Shape, NEW w \in Worker, PlannerFails(w) \/ Plan(w) \/ Work(w) \/ Kill(w),
         UNCHANGED active
  PROVE  RoundsOK'
<1> USE ControlLoopAssumption DEF Shape, TasksOK, RoundsOK, FilesOK, Phase, Held, Task,
        Goto, Return, Leave, Rest, store, disk, tables, notes, past
<1>1. CASE PlannerFails(w)
  BY <1>1 DEF PlannerFails
<1>2. CASE Plan(w)
  BY <1>2 DEF Plan
<1>3. CASE RetainSnapshot(w)
  BY <1>3 DEF RetainSnapshot
<1>4. CASE CopySnapshot(w)
  BY <1>4 DEF CopySnapshot
<1>5. CASE CopyRaises(w)
  BY <1>5 DEF CopyRaises
<1>6. CASE SortSnapshots(w)
  BY <1>6 DEF SortSnapshots
<1>7. CASE StatRaises(w)
  BY <1>7 DEF StatRaises
<1>8. CASE TrimSnapshots(w)
  BY <1>8 DEF TrimSnapshots, RemoveFiles, RemoveRepo, RemoveDirectory
<1>9. CASE LogPruned(w)
  BY <1>9 DEF LogPruned
<1>10. CASE LogNothing(w)
  BY <1>10 DEF LogNothing
<1>11. CASE TaskRaises(w)
  BY <1>11 DEF TaskRaises
<1>12. CASE StartRound(w)
  BY <1>12 DEF StartRound
<1>13. CASE NoRound(w)
  BY <1>13 DEF NoRound
<1>14. CASE CountReservoir(w)
  <2>1. UNCHANGED <<todo, row, victims>>
    BY <1>14 DEF CountReservoir
  <2>2. limit' = limit \/ limit' = [limit EXCEPT ![w] = SampleSize(Cardinality(Unsampled))]
    BY <1>14 DEF CountReservoir
  <2>3. Unsampled \in SUBSET Task
    BY DEF Unsampled
  <2>4. SampleSize(Cardinality(Unsampled)) \in Nat
    BY <2>3, SomeTasks, SampleSizeIsNatural
  <2>5. limit' \in [Worker -> Nat]
    BY <2>2, <2>4
  <2>6. QED
    BY <2>1, <2>5
<1>15. CASE SampleRows(w)
  <2>1. PICK S \in SUBSET Unsampled : todo' = [todo EXCEPT ![w] = S]
    BY <1>15 DEF SampleRows
  <2>2. UNCHANGED <<row, victims>> /\ limit' = [limit EXCEPT ![w] = 0]
    BY <1>15 DEF SampleRows, store, tables
  <2>3. S \subseteq Task
    <3>1. S \subseteq DOMAIN reservoir /\ DOMAIN reservoir \subseteq 1 .. MaxTasks
      BY DEF Unsampled
    <3>2. QED
      BY <3>1
  <2>4. todo' \in [Worker -> SUBSET Task]
    BY <2>1, <2>3
  <2>5. limit' \in [Worker -> Nat]
    BY <2>2
  <2>6. QED
    BY <2>2, <2>4, <2>5
<1>16. CASE SkipReplay(w)
  BY <1>16 DEF SkipReplay, Auditing
<1>17. CASE Replay(w)
  BY <1>17 DEF Replay, Auditing
<1>18. CASE ReplayRaises(w)
  BY <1>18 DEF ReplayRaises
<1>19. CASE Mark(w)
  BY <1>19 DEF Mark, EndRow
<1>20. CASE Kill(w)
  <2>1. todo' = [todo EXCEPT ![w] = {}] /\ row' = [row EXCEPT ![w] = 0]
    BY <1>20 DEF Kill
  <2>2. victims' = [victims EXCEPT ![w] = <<>>] /\ limit' = [limit EXCEPT ![w] = 0]
    BY <1>20 DEF Kill
  <2>3. /\ row' \in [Worker -> 0 .. MaxTasks] /\ todo' \in [Worker -> SUBSET Task]
        /\ limit' \in [Worker -> Nat]
    BY <2>1, <2>2
  <2>4. QED
    BY <2>2, <2>3
<1>21. QED
  BY <1>1, <1>2, <1>3, <1>4, <1>5, <1>6, <1>7, <1>8, <1>9, <1>10, <1>11, <1>12, <1>13, <1>14,
     <1>15, <1>16, <1>17, <1>18, <1>19, <1>20 DEF Work

(* A step of a process writes a snapshot state, and rows of logged tasks. *)
LEMMA FilesNext ==
  ASSUME Shape, NEW w \in Worker, PlannerFails(w) \/ Plan(w) \/ Work(w) \/ Kill(w),
         UNCHANGED active
  PROVE  FilesOK'
<1> USE ControlLoopAssumption DEF Shape, TasksOK, RoundsOK, FilesOK, Phase, Held, Task,
        Goto, Return, Leave, Rest, store, disk, tables, notes, past
<1>1. CASE PlannerFails(w)
  BY <1>1 DEF PlannerFails
<1>2. CASE Plan(w)
  BY <1>2 DEF Plan
<1>3. CASE RetainSnapshot(w)
  BY <1>3 DEF RetainSnapshot
<1>4. CASE CopySnapshot(w)
  BY <1>4 DEF CopySnapshot
<1>5. CASE CopyRaises(w)
  BY <1>5 DEF CopyRaises
<1>6. CASE SortSnapshots(w)
  BY <1>6 DEF SortSnapshots
<1>7. CASE StatRaises(w)
  BY <1>7 DEF StatRaises
<1>8. CASE TrimSnapshots(w)
  BY <1>8 DEF TrimSnapshots, RemoveFiles, RemoveRepo, RemoveDirectory
<1>9. CASE LogPruned(w)
  <2>1. DOMAIN reservoir' = DOMAIN reservoir \cup {task[w]} /\ task[w] \in logged
    BY <1>9 DEF LogPruned
  <2>2. UNCHANGED <<snapshot, audits, logged>>
    BY <1>9 DEF LogPruned
  <2>3. QED
    BY <2>1, <2>2
<1>10. CASE LogNothing(w)
  BY <1>10 DEF LogNothing
<1>11. CASE TaskRaises(w)
  BY <1>11 DEF TaskRaises
<1>12. CASE StartRound(w)
  BY <1>12 DEF StartRound
<1>13. CASE NoRound(w)
  BY <1>13 DEF NoRound
<1>14. CASE CountReservoir(w)
  BY <1>14 DEF CountReservoir
<1>15. CASE SampleRows(w)
  BY <1>15 DEF SampleRows
<1>16. CASE SkipReplay(w)
  BY <1>16 DEF SkipReplay, Auditing
<1>17. CASE Replay(w)
  <2>1. PICK r \in todo[w] : audits' = [audits EXCEPT ![r] = @ + 1]
    BY <1>17 DEF Replay
  <2>2. UNCHANGED <<snapshot, logged, reservoir>>
    BY <1>17 DEF Replay
  <2>3. QED
    BY <2>1, <2>2
<1>18. CASE ReplayRaises(w)
  BY <1>18 DEF ReplayRaises
<1>19. CASE Mark(w)
  BY <1>19 DEF Mark, EndRow
<1>20. CASE Kill(w)
  BY <1>20 DEF Kill
<1>21. QED
  BY <1>1, <1>2, <1>3, <1>4, <1>5, <1>6, <1>7, <1>8, <1>9, <1>10, <1>11, <1>12, <1>13, <1>14,
     <1>15, <1>16, <1>17, <1>18, <1>19, <1>20 DEF Work

(* A row is that of a task that was started, and of one that has not come   *)
(* to its rows there is none yet.                                           *)
Rows ==
  /\ logged \subseteq 1 .. started
  /\ \A w \in Worker : pc[w] \in BeforeRow =>
       /\ task[w] \in 1 .. started /\ task[w] \notin DOMAIN reservoir
       /\ \A v \in Worker \ {w} : pc[v] \in BeforeRow => task[v] # task[w]
  /\ \A w \in Worker : todo[w] \subseteq DOMAIN reservoir
  /\ \A w \in Worker : pc[w] = "mark" => row[w] \in DOMAIN reservoir

(* Initially there are no rows. *)
LEMMA RowsInit ==
  ASSUME Init
  PROVE  Rows
BY DEF Init, Rows, BeforeRow

(* Marking a row ends the round, or goes on to its next row. *)
LEMMA MarkEnds ==
  ASSUME NEW w \in Worker, Mark(w)
  PROVE  pc[w] = "mark" /\ (Return(w) \/ (Goto(w, "audit") /\ task' = task))
BY DEF Mark, EndRow

(* A step of a process writes the row of its own task, and once. *)
LEMMA RowsNext ==
  ASSUME Shape, Rows, NEW w \in Worker, PlannerFails(w) \/ Plan(w) \/ Work(w) \/ Kill(w)
  PROVE  Rows'
<1> USE DEF Shape, TasksOK, RoundsOK, FilesOK, Rows, BeforeRow, Phase, Task,
        Goto, Return, Leave, Rest, store, disk, tables, notes, past
<1>1. CASE PlannerFails(w)
  BY <1>1 DEF PlannerFails
<1>2. CASE Plan(w)
  BY <1>2 DEF Plan
<1>3. CASE RetainSnapshot(w)
  BY <1>3 DEF RetainSnapshot
<1>4. CASE CopySnapshot(w)
  BY <1>4 DEF CopySnapshot
<1>5. CASE CopyRaises(w)
  BY <1>5 DEF CopyRaises
<1>6. CASE SortSnapshots(w)
  BY <1>6 DEF SortSnapshots
<1>7. CASE StatRaises(w)
  BY <1>7 DEF StatRaises
<1>8. CASE TrimSnapshots(w)
  <2>1. pc[w] = "trim" /\ (pc' = pc \/ Goto(w, "log"))
    BY <1>8 DEF TrimSnapshots, RemoveFiles, RemoveRepo, RemoveDirectory
  <2>2. UNCHANGED <<task, started, logged, reservoir, todo, row>>
    BY <1>8 DEF TrimSnapshots
  <2>3. QED
    BY <2>1, <2>2
<1>9. CASE LogPruned(w)
  BY <1>9 DEF LogPruned
<1>10. CASE LogNothing(w)
  BY <1>10 DEF LogNothing
<1>11. CASE TaskRaises(w)
  BY <1>11 DEF TaskRaises
<1>12. CASE StartRound(w)
  BY <1>12 DEF StartRound
<1>13. CASE NoRound(w)
  BY <1>13 DEF NoRound
<1>14. CASE CountReservoir(w)
  <2>1. pc[w] = "count" /\ (Return(w) \/ (Goto(w, "sample") /\ task' = task))
    BY <1>14, CountEnds
  <2>2. UNCHANGED <<started, logged, reservoir, todo, row>>
    BY <1>14 DEF CountReservoir
  <2>3. \A v \in Worker : pc'[v] = "mark" => pc[v] = "mark"
    BY <2>1
  <2>4. \A v \in Worker : pc'[v] \in {"retain", "copy", "sort", "trim", "log"} =>
          v # w /\ pc[v] = pc'[v] /\ task'[v] = task[v]
    BY <2>1
  <2>5. QED
    BY <2>2, <2>3, <2>4
<1>15. CASE SampleRows(w)
  <2>1. pc[w] = "sample" /\ (Return(w) \/ (Goto(w, "audit") /\ task' = task))
    BY <1>15, SampleEnds
  <2>2. PICK S \in SUBSET Unsampled : todo' = [todo EXCEPT ![w] = S]
    BY <1>15 DEF SampleRows
  <2>3. UNCHANGED <<started, logged, reservoir, row>>
    BY <1>15 DEF SampleRows
  <2>4. \A v \in Worker : todo'[v] \subseteq DOMAIN reservoir'
    BY <2>2, <2>3 DEF Unsampled
  <2>5. \A v \in Worker : pc'[v] = "mark" => pc[v] = "mark"
    BY <2>1
  <2>6. \A v \in Worker : pc'[v] \in {"retain", "copy", "sort", "trim", "log"} =>
          v # w /\ pc[v] = pc'[v] /\ task'[v] = task[v]
    BY <2>1
  <2>7. QED
    BY <2>3, <2>4, <2>5, <2>6
<1>16. CASE SkipReplay(w)
  BY <1>16 DEF SkipReplay, Auditing
<1>17. CASE Replay(w)
  BY <1>17 DEF Replay, Auditing
<1>18. CASE ReplayRaises(w)
  BY <1>18 DEF ReplayRaises
<1>19. CASE Mark(w)
  <2>1. pc[w] = "mark" /\ (Return(w) \/ (Goto(w, "audit") /\ task' = task))
    BY <1>19, MarkEnds
  <2>2. todo' = [todo EXCEPT ![w] = @ \ {row[w]}] /\ row' = [row EXCEPT ![w] = 0]
    BY <1>19 DEF Mark, EndRow
  <2>3. UNCHANGED <<started, logged, reservoir>>
    BY <1>19 DEF Mark, EndRow
  <2>4. \A v \in Worker : todo'[v] \subseteq DOMAIN reservoir'
    BY <2>2, <2>3
  <2>5. \A v \in Worker : pc'[v] = "mark" => v # w /\ pc[v] = "mark" /\ row'[v] = row[v]
    BY <2>1, <2>2
  <2>6. \A v \in Worker : pc'[v] \in {"retain", "copy", "sort", "trim", "log"} =>
          v # w /\ pc[v] = pc'[v] /\ task'[v] = task[v]
    BY <2>1
  <2>7. QED
    BY <2>3, <2>4, <2>5, <2>6
<1>20. CASE Kill(w)
  BY <1>20 DEF Kill
<1>21. QED
  BY <1>1, <1>2, <1>3, <1>4, <1>5, <1>6, <1>7, <1>8, <1>9, <1>10, <1>11, <1>12, <1>13, <1>14,
     <1>15, <1>16, <1>17, <1>18, <1>19, <1>20 DEF Work

(* A processed row that is not yet marked was re-executed or skipped; and a *)
(* result is that of a row, whose reason does not change any more.          *)
Audited ==
  /\ NoRowLost
  /\ \A w \in Worker : pc[w] = "mark" => audits[row[w]] > 0 \/ row[w] \in skipped
  /\ \A r \in Task : audits[r] > 0 => r \in DOMAIN reservoir
  /\ sampled \subseteq DOMAIN reservoir /\ missed \subseteq DOMAIN reservoir
  /\ ResultsAreOfPrunedWork

(* Initially nothing is audited. *)
LEMMA AuditedInit ==
  ASSUME Init
  PROVE  Audited
BY DEF Init, Audited, NoRowLost, ResultsAreOfPrunedWork

(* A step of a process marks only what it has processed. *)
LEMMA AuditedNext ==
  ASSUME Shape, Rows, Audited, NEW w \in Worker,
         PlannerFails(w) \/ Plan(w) \/ Work(w) \/ Kill(w)
  PROVE  Audited'
<1> USE DEF Shape, TasksOK, RoundsOK, FilesOK, Rows, BeforeRow, Phase, Task, Audited,
        NoRowLost, ResultsAreOfPrunedWork, Goto, Return, Leave, Rest, store, disk, tables,
        notes, past
<1>1. CASE PlannerFails(w)
  BY <1>1 DEF PlannerFails
<1>2. CASE Plan(w)
  BY <1>2 DEF Plan
<1>3. CASE RetainSnapshot(w)
  BY <1>3 DEF RetainSnapshot
<1>4. CASE CopySnapshot(w)
  BY <1>4 DEF CopySnapshot
<1>5. CASE CopyRaises(w)
  BY <1>5 DEF CopyRaises
<1>6. CASE SortSnapshots(w)
  BY <1>6 DEF SortSnapshots
<1>7. CASE StatRaises(w)
  BY <1>7 DEF StatRaises
<1>8. CASE TrimSnapshots(w)
  <2>1. pc[w] = "trim" /\ (pc' = pc \/ Goto(w, "log"))
    BY <1>8 DEF TrimSnapshots, RemoveFiles, RemoveRepo, RemoveDirectory
  <2>2. UNCHANGED <<logged, reservoir, sampled, audits, missed, skipped, row>>
    BY <1>8 DEF TrimSnapshots
  <2>3. QED
    BY <2>1, <2>2
<1>9. CASE LogPruned(w)
  BY <1>9 DEF LogPruned
<1>10. CASE LogNothing(w)
  BY <1>10 DEF LogNothing
<1>11. CASE TaskRaises(w)
  BY <1>11 DEF TaskRaises
<1>12. CASE StartRound(w)
  BY <1>12 DEF StartRound
<1>13. CASE NoRound(w)
  BY <1>13 DEF NoRound
<1>14. CASE CountReservoir(w)
  <2>1. pc[w] = "count" /\ (Return(w) \/ (Goto(w, "sample") /\ task' = task))
    BY <1>14, CountEnds
  <2>2. UNCHANGED <<logged, reservoir, sampled, audits, missed, skipped, row>>
    BY <1>14 DEF CountReservoir
  <2>3. QED
    BY <2>1, <2>2
<1>15. CASE SampleRows(w)
  <2>1. pc[w] = "sample" /\ (Return(w) \/ (Goto(w, "audit") /\ task' = task))
    BY <1>15, SampleEnds
  <2>2. UNCHANGED <<logged, reservoir, sampled, audits, missed, skipped, row>>
    BY <1>15 DEF SampleRows
  <2>3. QED
    BY <2>1, <2>2
<1>16. CASE SkipReplay(w)
  BY <1>16 DEF SkipReplay, Auditing
<1>17. CASE Replay(w)
  <2>1. PICK r \in todo[w], passed \in BOOLEAN :
          /\ Auditing(w, r) /\ Replayable(r)
          /\ row' = [row EXCEPT ![w] = r]
          /\ audits' = [audits EXCEPT ![r] = @ + 1]
          /\ missed' = IF passed /\ reservoir[r] = "LOW_SCORE" THEN missed \cup {r}
                       ELSE missed
    BY <1>17 DEF Replay
  <2>2. Goto(w, "mark") /\ UNCHANGED <<reservoir, sampled, skipped>>
    BY <1>17 DEF Replay
  <2>3. r \in Task /\ r \in DOMAIN reservoir /\ reservoir[r] # "UNSAFE_PATCH" /\ pc[w] = "audit"
    BY <2>1 DEF Auditing, Replayable
  <2>4. /\ audits'[r] > 0
        /\ \A t \in Task : audits'[t] = audits[t] \/ t = r
    BY <2>1, <2>3
  <2>5. NoRowLost'
    BY <2>2, <2>4
  <2>6. ResultsAreOfPrunedWork'
    BY <2>1, <2>2, <2>3, <2>4
  <2>7. \A v \in Worker : pc'[v] = "mark" => audits'[row'[v]] > 0 \/ row'[v] \in skipped'
    BY <2>1, <2>2, <2>3, <2>4
  <2>8. \A t \in Task : audits'[t] > 0 => t \in DOMAIN reservoir'
    BY <2>2, <2>3, <2>4
  <2>9. sampled' \subseteq DOMAIN reservoir' /\ missed' \subseteq DOMAIN reservoir'
    BY <2>1, <2>2, <2>3
  <2>10. QED
    BY <2>5, <2>6, <2>7, <2>8, <2>9
<1>18. CASE ReplayRaises(w)
  BY <1>18 DEF ReplayRaises
<1>19. CASE Mark(w)
  BY <1>19 DEF Mark, EndRow
<1>20. CASE Kill(w)
  BY <1>20 DEF Kill
<1>21. QED
  BY <1>1, <1>2, <1>3, <1>4, <1>5, <1>6, <1>7, <1>8, <1>9, <1>10, <1>11, <1>12, <1>13, <1>14,
     <1>15, <1>16, <1>17, <1>18, <1>19, <1>20 DEF Work

(* No row is older than its snapshot, and a process that is alone and was   *)
(* never killed is done with a removal before it audits.                    *)
Snapshots ==
  /\ active # {}
  /\ \A w \in Worker : pc[w] \in {"sort", "trim", "log"} => snapshot[task[w]] # "copying"
  /\ \A r \in DOMAIN reservoir : snapshot[r] # "copying"
  /\ \A w \in Worker : active = {w} /\ kills = 0 =>
       /\ tainted = {}
       /\ \A r \in Task : snapshot[r] \in {"torn", "husk"} =>
            pc[w] = "trim" /\ r = Head(victims[w])

(* Initially there are no snapshots. *)
LEMMA SnapshotsInit ==
  ASSUME Init
  PROVE  Snapshots
<1>1. reservoir = <<>> /\ active # {} /\ tainted = {}
  BY DEF Init
<1>2. \A w \in Worker : pc[w] = "idle"
  BY DEF Init
<1>3. \A r \in Task : snapshot[r] = "none"
  BY DEF Init
<1>4. DOMAIN reservoir = {}
  BY <1>1
<1>5. QED
  BY <1>1, <1>2, <1>3, <1>4 DEF Snapshots

(* A step at another point than the removal that leaves the snapshots alone. *)
LEMMA SnapshotsStay ==
  ASSUME Snapshots, NEW w \in active, pc[w] # "trim",
         UNCHANGED <<active, snapshot, reservoir, tainted, victims, kills>>,
         \A v \in Worker : pc'[v] \in {"sort", "trim", "log"} =>
           pc[v] = pc'[v] /\ task[v] = task'[v]
  PROVE  Snapshots'
<1>1. /\ active' # {}
      /\ \A v \in Worker : pc'[v] \in {"sort", "trim", "log"} => snapshot'[task'[v]] # "copying"
      /\ \A r \in DOMAIN reservoir' : snapshot'[r] # "copying"
  BY DEF Snapshots
<1>2. ASSUME NEW v \in Worker, active = {v}, kills = 0
      PROVE  tainted = {} /\ \A r \in Task : snapshot[r] \notin {"torn", "husk"}
  <2>1. v = w
    BY <1>2
  <2>2. QED
    BY <1>2, <2>1 DEF Snapshots
<1>3. QED
  BY <1>1, <1>2 DEF Snapshots

(* A step of a process logs a row after its snapshot, and ends a removal it began. *)
LEMMA SnapshotsNext ==
  ASSUME Shape, Rows, Snapshots, NEW w \in active,
         PlannerFails(w) \/ Plan(w) \/ Work(w) \/ Kill(w), UNCHANGED active
  PROVE  Snapshots'
<1> USE DEF Shape, TasksOK, RoundsOK, FilesOK, Rows, BeforeRow, Phase, Held, Task, Snapshots,
        Goto, Return, Leave, Rest, store, disk, tables, notes, past
<1>1. CASE PlannerFails(w)
  BY <1>1 DEF PlannerFails
<1>2. CASE Plan(w)
  BY <1>2 DEF Plan
<1>3. CASE RetainSnapshot(w)
  <2>1. task[w] \in Task /\ task[w] \notin DOMAIN reservoir /\ pc[w] = "retain"
    BY <1>3 DEF RetainSnapshot
  <2>2. snapshot' = [snapshot EXCEPT ![task[w]] = "copying"] /\ Goto(w, "copy")
    BY <1>3 DEF RetainSnapshot
  <2>3. UNCHANGED <<task, reservoir, tainted, kills, victims>>
    BY <1>3 DEF RetainSnapshot
  <2>4. \A v \in Worker : pc'[v] \in {"sort", "trim", "log"} =>
          v # w /\ pc[v] = pc'[v] /\ task[v] # task[w] /\ task[v] \in Task
    BY <2>1, <2>2
  <2>5. \A v \in Worker : pc'[v] \in {"sort", "trim", "log"} => snapshot'[task'[v]] # "copying"
    BY <2>2, <2>3, <2>4
  <2>6. \A r \in DOMAIN reservoir' : snapshot'[r] # "copying"
    BY <2>1, <2>2, <2>3
  <2>7. \A r \in Task : snapshot'[r] \in {"torn", "husk"} => snapshot[r] = snapshot'[r]
    BY <2>2
  <2>8. QED
    BY <2>1, <2>2, <2>3, <2>5, <2>6, <2>7
<1>4. CASE CopySnapshot(w)
  <2>1. task[w] \in Task /\ pc[w] = "copy"
    BY <1>4 DEF CopySnapshot
  <2>2. snapshot' = [snapshot EXCEPT ![task[w]] = "whole"]
    BY <1>4 DEF CopySnapshot
  <2>3. UNCHANGED <<task, reservoir, tainted, kills>> /\ (Goto(w, "log") \/ Goto(w, "sort"))
    BY <1>4 DEF CopySnapshot
  <2>4. \A r \in Task : snapshot'[r] = snapshot[r] \/ (r = task[w] /\ snapshot'[r] = "whole")
    BY <2>2
  <2>5. \A v \in Worker : pc'[v] \in {"sort", "trim", "log"} => snapshot'[task'[v]] # "copying"
    <3>1. TAKE v \in Worker
    <3>2. HAVE pc'[v] \in {"sort", "trim", "log"}
    <3>3. CASE v = w
      BY <2>1, <2>2, <2>3, <3>3
    <3>4. CASE v # w
      <4>1. pc'[v] = pc[v] /\ task[v] \in Task
        BY <2>3, <3>2, <3>4
      <4>2. QED
        BY <2>3, <2>4, <3>2, <4>1
    <3>5. QED
      BY <3>3, <3>4
  <2>6. \A r \in DOMAIN reservoir' : snapshot'[r] # "copying"
    BY <2>3, <2>4
  <2>7. ASSUME NEW v \in Worker, active = {v}, kills = 0
        PROVE  /\ tainted' = {}
               /\ \A r \in Task : snapshot'[r] \notin {"torn", "husk"}
    <3>1. v = w
      BY <2>7
    <3>2. QED
      BY <2>1, <2>3, <2>4, <2>7, <3>1
  <2>8. QED
    BY <2>3, <2>5, <2>6, <2>7
<1>5. CASE CopyRaises(w)
  BY <1>5 DEF CopyRaises
<1>6. CASE SortSnapshots(w)
  BY <1>6 DEF SortSnapshots
<1>7. CASE StatRaises(w)
  BY <1>7 DEF StatRaises
<1>8. CASE TrimSnapshots(w)
  <2>1. pc[w] = "trim" /\ UNCHANGED <<task, reservoir, tainted, kills>>
    BY <1>8 DEF TrimSnapshots
  <2>2. PICK d : /\ d = Head(victims[w])
                 /\ RemoveFiles(w, d) \/ RemoveRepo(w, d) \/ RemoveDirectory(w, d)
    BY <1>8 DEF TrimSnapshots
  <2>3. pc' = pc \/ Goto(w, "log")
    BY <2>2 DEF RemoveFiles, RemoveRepo, RemoveDirectory
  <2>4. \A r \in Task : snapshot'[r] = snapshot[r] \/ (r = d /\ snapshot'[r] # "copying")
    <3>1. \E what \in {"torn", "husk", "none"} : snapshot' = [snapshot EXCEPT ![d] = what]
      BY <2>2 DEF RemoveFiles, RemoveRepo, RemoveDirectory
    <3>2. QED
      BY <3>1
  <2>5. \A v \in Worker : pc'[v] \in {"sort", "trim", "log"} => snapshot'[task'[v]] # "copying"
    <3>1. TAKE v \in Worker
    <3>2. HAVE pc'[v] \in {"sort", "trim", "log"}
    <3>3. pc[v] \in {"sort", "trim", "log"}
      BY <2>1, <2>3, <3>2
    <3>4. task[v] \in Task
      BY <3>3
    <3>5. snapshot[task[v]] # "copying"
      BY <3>3
    <3>6. QED
      BY <2>1, <2>4, <3>4, <3>5
  <2>6. \A r \in DOMAIN reservoir' : snapshot'[r] # "copying"
    BY <2>1, <2>4
  <2>7. ASSUME active = {w}, kills = 0, NEW r \in Task, snapshot'[r] \in {"torn", "husk"}
        PROVE  pc'[w] = "trim" /\ r = Head(victims'[w])
    <3>1. r = d
      <4>1. CASE snapshot[r] \in {"torn", "husk"}
        BY <2>2, <2>7, <4>1
      <4>2. CASE snapshot[r] \notin {"torn", "husk"}
        BY <2>4, <2>7, <4>2
      <4>3. QED
        BY <4>1, <4>2
    <3>2. ASSUME RemoveDirectory(w, d)
          PROVE  FALSE
      <4>1. snapshot' = [snapshot EXCEPT ![d] = "none"]
        BY <3>2 DEF RemoveDirectory
      <4>2. QED
        BY <2>7, <3>1, <4>1
    <3>3. UNCHANGED <<pc, victims>>
      BY <2>2, <3>2 DEF RemoveFiles, RemoveRepo
    <3>4. QED
      BY <2>1, <2>2, <3>1, <3>3
  <2>8. QED
    BY <2>1, <2>5, <2>6, <2>7
<1>9. CASE LogPruned(w)
  <2>1. /\ pc[w] = "log" /\ Goto(w, "controls")
        /\ UNCHANGED <<task, snapshot, kills, tainted, victims>>
    BY <1>9 DEF LogPruned
  <2>2. DOMAIN reservoir' = DOMAIN reservoir \cup {task[w]}
    BY <1>9 DEF LogPruned
  <2>3. \A r \in DOMAIN reservoir' : snapshot'[r] # "copying"
    BY <2>1, <2>2
  <2>4. \A v \in Worker : pc'[v] \in {"sort", "trim", "log"} => pc[v] = pc'[v]
    BY <2>1
  <2>5. ASSUME NEW v \in Worker, active = {v}, kills = 0
        PROVE  tainted = {} /\ \A r \in Task : snapshot[r] \notin {"torn", "husk"}
    <3>1. v = w
      BY <2>5
    <3>2. QED
      BY <2>1, <2>5, <3>1
  <2>6. QED
    BY <2>1, <2>3, <2>4, <2>5
<1>10. CASE LogNothing(w)
  BY <1>10 DEF LogNothing
<1>11. CASE TaskRaises(w)
  BY <1>11 DEF TaskRaises
<1>12. CASE StartRound(w)
  <2>1. pc[w] = "controls" /\ Goto(w, "count") /\ UNCHANGED task
    BY <1>12 DEF StartRound
  <2>2. UNCHANGED <<snapshot, reservoir, kills, tainted, victims>>
    BY <1>12 DEF StartRound
  <2>3. \A v \in Worker : pc'[v] \in {"sort", "trim", "log"} =>
          pc[v] = pc'[v] /\ task[v] = task'[v]
    BY <2>1
  <2>4. QED
    BY <2>1, <2>2, <2>3, SnapshotsStay
<1>13. CASE NoRound(w)
  <2>1. pc[w] = "controls" /\ Return(w)
    BY <1>13 DEF NoRound
  <2>2. UNCHANGED <<snapshot, reservoir, kills, tainted, victims>>
    BY <1>13 DEF NoRound
  <2>3. \A v \in Worker : pc'[v] \in {"sort", "trim", "log"} =>
          pc[v] = pc'[v] /\ task[v] = task'[v]
    BY <2>1
  <2>4. QED
    BY <2>1, <2>2, <2>3, SnapshotsStay
<1>14. CASE CountReservoir(w)
  <2>1. pc[w] = "count" /\ (Return(w) \/ (Goto(w, "sample") /\ task' = task))
    BY <1>14, CountEnds
  <2>2. UNCHANGED <<snapshot, reservoir, kills, tainted, victims>>
    BY <1>14 DEF CountReservoir
  <2>3. \A v \in Worker : pc'[v] \in {"sort", "trim", "log"} =>
          pc[v] = pc'[v] /\ task[v] = task'[v]
    BY <2>1
  <2>4. QED
    BY <2>1, <2>2, <2>3, SnapshotsStay
<1>15. CASE SampleRows(w)
  <2>1. pc[w] = "sample" /\ (Return(w) \/ (Goto(w, "audit") /\ task' = task))
    BY <1>15, SampleEnds
  <2>2. UNCHANGED <<snapshot, reservoir, kills, tainted, victims>>
    BY <1>15 DEF SampleRows
  <2>3. \A v \in Worker : pc'[v] \in {"sort", "trim", "log"} =>
          pc[v] = pc'[v] /\ task[v] = task'[v]
    BY <2>1
  <2>4. QED
    BY <2>1, <2>2, <2>3, SnapshotsStay
<1>16. CASE SkipReplay(w)
  <2>1. pc[w] = "audit" /\ Goto(w, "mark") /\ UNCHANGED task
    BY <1>16 DEF SkipReplay, Auditing
  <2>2. UNCHANGED <<snapshot, reservoir, kills, tainted, victims>>
    BY <1>16 DEF SkipReplay
  <2>3. \A v \in Worker : pc'[v] \in {"sort", "trim", "log"} =>
          pc[v] = pc'[v] /\ task[v] = task'[v]
    BY <2>1
  <2>4. QED
    BY <2>1, <2>2, <2>3, SnapshotsStay
<1>17. CASE Replay(w)
  <2>1. PICK r \in todo[w] : /\ Auditing(w, r) /\ Replayable(r)
          /\ tainted' = IF snapshot[r] = "whole" THEN tainted ELSE tainted \cup {r}
    BY <1>17 DEF Replay
  <2>2. Goto(w, "mark") /\ UNCHANGED <<task, reservoir, kills, snapshot, victims>>
    BY <1>17 DEF Replay
  <2>3. /\ r \in Task /\ r \in DOMAIN reservoir /\ pc[w] = "audit"
        /\ snapshot[r] \in {"whole", "torn"}
    BY <2>1 DEF Auditing, Replayable, RepoExists
  <2>4. active = {w} /\ kills = 0 => snapshot[r] = "whole"
    BY <2>3
  <2>5. QED
    BY <2>1, <2>2, <2>3, <2>4
<1>18. CASE ReplayRaises(w)
  <2>1. pc[w] = "audit" /\ Return(w)
    BY <1>18 DEF ReplayRaises, Auditing
  <2>2. UNCHANGED <<snapshot, reservoir, kills, tainted, victims>>
    BY <1>18 DEF ReplayRaises
  <2>3. \A v \in Worker : pc'[v] \in {"sort", "trim", "log"} =>
          pc[v] = pc'[v] /\ task[v] = task'[v]
    BY <2>1
  <2>4. QED
    BY <2>1, <2>2, <2>3, SnapshotsStay
<1>19. CASE Mark(w)
  <2>1. pc[w] = "mark" /\ (Return(w) \/ (Goto(w, "audit") /\ task' = task))
    BY <1>19, MarkEnds
  <2>2. UNCHANGED <<snapshot, reservoir, kills, tainted, victims>>
    BY <1>19 DEF Mark, EndRow
  <2>3. \A v \in Worker : pc'[v] \in {"sort", "trim", "log"} =>
          pc[v] = pc'[v] /\ task[v] = task'[v]
    BY <2>1
  <2>4. QED
    BY <2>1, <2>2, <2>3, SnapshotsStay
<1>20. CASE Kill(w)
  BY <1>20 DEF Kill
<1>21. QED
  BY <1>1, <1>2, <1>3, <1>4, <1>5, <1>6, <1>7, <1>8, <1>9, <1>10, <1>11, <1>12, <1>13, <1>14,
     <1>15, <1>16, <1>17, <1>18, <1>19, <1>20 DEF Work

(* Of a process that is alone: the counts it has passed are covered, and    *)
(* once its controls are over, or did not come, the present one is too.     *)
Covered == visited \cup cut
Settled == {"idle", "count", "sample", "audit", "mark"}
Cadence ==
  \A w \in Worker : active = {w} =>
    /\ \A n \in 1 .. count_tasks - 1 : n \in Covered
    /\ pc[w] \in Settled => count_tasks \in {0} \cup Covered

(* Initially nothing counts. *)
LEMMA CadenceInit ==
  ASSUME Init
  PROVE  Cadence
<1>1. logged = {}
  BY DEF Init
<1>2. count_tasks = 0
  BY <1>1, FS_EmptySet DEF count_tasks
<1>3. QED
  BY <1>2 DEF Cadence

(* The histories of a process that is alone take the present count. *)
LEMMA NotingAlone ==
  ASSUME NEW w, active = {w}, NEW counts
  PROVE  Noting(counts) = counts \cup {count_tasks}
BY FS_Singleton DEF Noting

(* Only a new task counts, and it counts once. *)
LEMMA CountNext ==
  ASSUME Shape, Rows, NEW w \in Worker, Plan(w)
  PROVE  count_tasks \in Nat /\ count_tasks' \in {count_tasks, count_tasks + 1}
<1>1. IsFiniteSet(logged)
  <2>1. logged \subseteq 1 .. MaxTasks
    BY DEF Shape, FilesOK, Task
  <2>2. IsFiniteSet(1 .. MaxTasks)
    BY ControlLoopAssumption, FS_Interval DEF ControlLoopAssumption
  <2>3. QED
    BY <2>1, <2>2, FS_Subset
<1>2. count_tasks \in Nat
  BY <1>1, FS_CardinalityType DEF count_tasks
<1>3. started + 1 \notin logged
  BY ControlLoopAssumption DEF Rows, Shape, TasksOK, ControlLoopAssumption
<1>4. Cardinality(logged \cup {started + 1}) = Cardinality(logged) + 1
  BY <1>1, <1>3, FS_AddElement
<1>5. logged' = logged \/ logged' = logged \cup {started + 1}
  BY DEF Plan
<1>6. QED
  BY <1>2, <1>4, <1>5 DEF count_tasks

(* No step but Plan changes the count. *)
LEMMA OthersDoNotCount ==
  ASSUME NEW w \in Worker, PlannerFails(w) \/ Work(w) \/ Kill(w)
  PROVE  logged' = logged
BY DEF PlannerFails, Work, Kill, RetainSnapshot, CopySnapshot, CopyRaises, SortSnapshots,
       StatRaises, TrimSnapshots, LogPruned, LogNothing, TaskRaises, StartRound, NoRound,
       CountReservoir, SampleRows, SkipReplay, Replay, ReplayRaises, Mark, EndRow, store, tables

(* Whoever settles has noted the count, and nothing noted is forgotten. *)
LEMMA Settling ==
  ASSUME Shape, NEW w \in Worker, active = {w}, PlannerFails(w) \/ Plan(w) \/ Work(w) \/ Kill(w)
  PROVE  /\ Covered \subseteq Covered'
         /\ pc'[w] \in Settled => pc[w] \in Settled \/ count_tasks \in Covered'
<1> USE NotingAlone DEF Shape, TasksOK, Phase, Settled, Covered, Goto, Return, Leave, past
<1>1. CASE PlannerFails(w)
  BY <1>1 DEF PlannerFails
<1>2. CASE Plan(w)
  BY <1>2 DEF Plan
<1>3. CASE RetainSnapshot(w)
  BY <1>3 DEF RetainSnapshot
<1>4. CASE CopySnapshot(w)
  BY <1>4 DEF CopySnapshot
<1>5. CASE CopyRaises(w)
  <2>1. cut' = Noting(cut) /\ visited' = visited
    BY <1>5 DEF CopyRaises
  <2>2. cut' = cut \cup {count_tasks}
    BY <2>1
  <2>3. QED
    BY <2>1, <2>2
<1>6. CASE SortSnapshots(w)
  BY <1>6 DEF SortSnapshots
<1>7. CASE StatRaises(w)
  <2>1. cut' = Noting(cut) /\ visited' = visited
    BY <1>7 DEF StatRaises
  <2>2. cut' = cut \cup {count_tasks}
    BY <2>1
  <2>3. QED
    BY <2>1, <2>2
<1>8. CASE TrimSnapshots(w)
  <2>1. pc[w] = "trim" /\ (pc' = pc \/ Goto(w, "log"))
    BY <1>8 DEF TrimSnapshots, RemoveFiles, RemoveRepo, RemoveDirectory
  <2>2. UNCHANGED <<visited, cut>>
    BY <1>8 DEF TrimSnapshots
  <2>3. QED
    BY <2>1, <2>2
<1>9. CASE LogPruned(w)
  BY <1>9 DEF LogPruned
<1>10. CASE LogNothing(w)
  BY <1>10 DEF LogNothing
<1>11. CASE TaskRaises(w)
  <2>1. cut' = Noting(cut) /\ visited' = visited
    BY <1>11 DEF TaskRaises
  <2>2. cut' = cut \cup {count_tasks}
    BY <2>1
  <2>3. QED
    BY <2>1, <2>2
<1>12. CASE StartRound(w)
  BY <1>12 DEF StartRound
<1>13. CASE NoRound(w)
  BY <1>13 DEF NoRound
<1>14. CASE CountReservoir(w)
  <2>1. pc[w] = "count" /\ (Return(w) \/ (Goto(w, "sample") /\ task' = task))
    BY <1>14, CountEnds
  <2>2. UNCHANGED <<visited, cut>>
    BY <1>14 DEF CountReservoir
  <2>3. QED
    BY <2>1, <2>2
<1>15. CASE SampleRows(w)
  <2>1. pc[w] = "sample" /\ (Return(w) \/ (Goto(w, "audit") /\ task' = task))
    BY <1>15, SampleEnds
  <2>2. UNCHANGED <<visited, cut>>
    BY <1>15 DEF SampleRows
  <2>3. QED
    BY <2>1, <2>2
<1>16. CASE SkipReplay(w)
  BY <1>16 DEF SkipReplay, Auditing
<1>17. CASE Replay(w)
  BY <1>17 DEF Replay, Auditing
<1>18. CASE ReplayRaises(w)
  <2>1. pc[w] = "audit" /\ UNCHANGED <<visited, cut>>
    BY <1>18 DEF ReplayRaises, Auditing
  <2>2. QED
    BY <2>1
<1>19. CASE Mark(w)
  <2>1. pc[w] = "mark" /\ UNCHANGED <<visited, cut>>
    BY <1>19 DEF Mark, EndRow
  <2>2. QED
    BY <2>1
<1>20. CASE Kill(w)
  <2>1. cut' = Noting(cut) /\ visited' = visited
    BY <1>20 DEF Kill
  <2>2. cut' = cut \cup {count_tasks}
    BY <2>1
  <2>3. QED
    BY <2>1, <2>2
<1>21. QED
  BY <1>1, <1>2, <1>3, <1>4, <1>5, <1>6, <1>7, <1>8, <1>9, <1>10, <1>11, <1>12, <1>13, <1>14,
     <1>15, <1>16, <1>17, <1>18, <1>19, <1>20 DEF Work

(* A step of a process keeps the passed counts covered. *)
LEMMA CadenceNext ==
  ASSUME Shape, Rows, Cadence, NEW w \in active,
         PlannerFails(w) \/ Plan(w) \/ Work(w) \/ Kill(w), UNCHANGED active
  PROVE  Cadence'
<1>1. w \in Worker
  BY DEF Shape, TasksOK
<1>2. SUFFICES ASSUME active = {w}
               PROVE  /\ \A n \in 1 .. count_tasks' - 1 : n \in Covered'
                      /\ pc'[w] \in Settled => count_tasks' \in {0} \cup Covered'
  BY DEF Cadence
<1>3. /\ Covered \subseteq Covered'
      /\ pc'[w] \in Settled => pc[w] \in Settled \/ count_tasks \in Covered'
  BY <1>1, <1>2, Settling
<1>4. /\ \A n \in 1 .. count_tasks - 1 : n \in Covered
      /\ pc[w] \in Settled => count_tasks \in {0} \cup Covered
  BY <1>1, <1>2 DEF Cadence
<1>5. CASE Plan(w)
  <2>1. count_tasks \in Nat /\ count_tasks' \in {count_tasks, count_tasks + 1}
    BY <1>1, <1>5, CountNext
  <2>2. pc[w] = "idle" /\ pc'[w] = "retain"
    BY <1>1, <1>5 DEF Plan, Goto, Shape, TasksOK
  <2>3. count_tasks \in {0} \cup Covered /\ pc'[w] \notin Settled
    BY <1>4, <2>2 DEF Settled
  <2>4. CASE count_tasks' = count_tasks
    BY <1>3, <1>4, <2>3, <2>4
  <2>5. CASE count_tasks' = count_tasks + 1
    <3>1. ASSUME NEW n \in 1 .. count_tasks
          PROVE  n \in Covered
      <4>1. n \in 1 .. count_tasks - 1 \/ (n = count_tasks /\ n # 0)
        BY <2>1
      <4>2. QED
        BY <1>4, <2>3, <4>1
    <3>2. 1 .. count_tasks' - 1 = 1 .. count_tasks
      BY <2>1, <2>5
    <3>3. QED
      BY <1>3, <2>3, <3>1, <3>2
  <2>6. QED
    BY <2>1, <2>4, <2>5
<1>6. CASE ~Plan(w)
  <2>1. logged' = logged
    BY <1>1, <1>6, OthersDoNotCount
  <2>2. count_tasks' = count_tasks
    BY <2>1 DEF count_tasks
  <2>3. QED
    BY <1>3, <1>4, <2>2
<1>7. QED
  BY <1>5, <1>6

(***************************************************************************)
(* What holds in every reachable state.                                    *)
(***************************************************************************)
IInv == Shape /\ Rows /\ Audited /\ Snapshots /\ Cadence

(* The invariant holds initially. *)
LEMMA IInvInit ==
  ASSUME Init
  PROVE  IInv
BY ShapeInit, RowsInit, AuditedInit, SnapshotsInit, CadenceInit DEF IInv

(* Every step keeps the invariant. *)
LEMMA IInvNext ==
  ASSUME IInv, [Next]_<<active, vars>>
  PROVE  IInv'
<1>1. CASE Next
  <2>1. UNCHANGED active
    BY <1>1 DEF Next
  <2>2. PICK w \in active : PlannerFails(w) \/ Plan(w) \/ Work(w) \/ Kill(w)
    BY <1>1 DEF Next
  <2>3. w \in Worker
    BY <2>2 DEF IInv, Shape, TasksOK
  <2>4. Shape'
    BY <2>1, <2>2, <2>3, TasksNext, RoundsNext, FilesNext DEF IInv, Shape
  <2>5. Rows'
    BY <2>2, <2>3, RowsNext DEF IInv
  <2>6. Audited'
    BY <2>2, <2>3, AuditedNext DEF IInv
  <2>7. Snapshots'
    BY <2>1, <2>2, SnapshotsNext DEF IInv
  <2>8. Cadence'
    BY <2>1, <2>2, CadenceNext DEF IInv
  <2>9. QED
    BY <2>4, <2>5, <2>6, <2>7, <2>8 DEF IInv
<1>2. CASE UNCHANGED <<active, vars>>
  <2>1. UNCHANGED <<active, pc, task, victims, todo, row, limit, started, logged, snapshot,
                    reservoir, sampled, audits, missed, tainted, skipped, visited, cut, kills>>
    BY <1>2 DEF vars, store, disk, tables, notes, past
  <2>2. Shape'
    BY <2>1 DEF IInv, Shape, TasksOK, RoundsOK, FilesOK
  <2>3. Rows'
    BY <2>1 DEF IInv, Rows
  <2>4. Audited'
    BY <2>1 DEF IInv, Audited, NoRowLost, ResultsAreOfPrunedWork
  <2>5. Snapshots'
    BY <2>1 DEF IInv, Snapshots
  <2>6. Cadence'
    BY <2>1 DEF IInv, Cadence, Covered, count_tasks
  <2>7. QED
    BY <2>2, <2>3, <2>4, <2>5, <2>6 DEF IInv
<1>3. QED
  BY <1>1, <1>2

(* The invariant holds in every reachable state. *)
THEOREM Invariant == Spec => []IInv
<1>1. Init => IInv
  BY IInvInit
<1>2. IInv /\ [Next]_<<active, vars>> => IInv'
  BY IInvNext
<1>3. QED
  BY <1>1, <1>2, PTL DEF Spec

(* A row leaves the reservoir only processed, whatever processes die and     *)
(* however their rounds interleave: audit.py writes the result first.        *)
THEOREM RowsAreNotLost == Spec => []NoRowLost
<1>1. IInv => NoRowLost
  BY DEF IInv, Audited
<1>2. QED
  BY <1>1, Invariant, PTL

(* A deployment of one process has a process. *)
LEMMA Alone ==
  ASSUME active \subseteq Worker, active # {}, Cardinality(active) <= 1
  PROVE  \E w \in Worker : active = {w}
<1>1. IsFiniteSet(active)
  BY ControlLoopAssumption, FS_Subset DEF ControlLoopAssumption
<1>2. Cardinality(active) \in Nat /\ Cardinality(active) # 0
  BY <1>1, FS_CardinalityType, FS_EmptySet
<1>3. Cardinality(active) = 1
  BY <1>2
<1>4. QED
  BY <1>1, <1>3, FS_Singleton

(* An audit result is evidence about the branch that was pruned: not about   *)
(* one pruned as unsafe, and from the whole snapshot of its task, unless a   *)
(* process died or another one is at work.                                   *)
THEOREM AuditIsEvidence == Spec => []EvidenceIsFair
<1>1. IInv => EvidenceIsFair
  <2>1. SUFFICES ASSUME IInv PROVE EvidenceIsFair
    OBVIOUS
  <2>2. ResultsAreOfPrunedWork
    BY <2>1 DEF IInv, Audited
  <2>3. ReplaysArePristine
    <3>1. SUFFICES ASSUME kills = 0, Cardinality(active) <= 1
                   PROVE  tainted = {}
      <4>1. kills \in Nat /\ Cardinality(active) \in Nat
        BY <2>1, ControlLoopAssumption, FS_Subset, FS_CardinalityType
           DEF IInv, Shape, TasksOK, ControlLoopAssumption
      <4>2. QED
        BY <4>1 DEF ReplaysArePristine
    <3>2. PICK w \in Worker : active = {w}
      BY <2>1, <3>1, Alone DEF IInv, Shape, TasksOK, Snapshots
    <3>3. QED
      BY <2>1, <3>1, <3>2 DEF IInv, Snapshots
  <2>4. QED
    BY <2>2, <2>3 DEF EvidenceIsFair
<1>2. QED
  BY <1>1, Invariant, PTL

(* A process that is alone does not miss the audit cadence: whatever task    *)
(* reached a multiple of it ran its controls there, raised or died.          *)
THEOREM CadenceIsNotMissed == Spec => []CadenceIsKept
<1>1. IInv => CadenceIsKept
  <2>1. SUFFICES ASSUME IInv, Cardinality(active) = 1,
                        NEW n \in 1 .. count_tasks - 1, n % AuditEvery = 0
                 PROVE  n \in visited \cup cut
    BY DEF CadenceIsKept
  <2>2. PICK w \in Worker : active = {w}
    BY <2>1, Alone DEF IInv, Shape, TasksOK, Snapshots
  <2>3. QED
    BY <2>1, <2>2 DEF IInv, Cadence, Covered
<1>2. QED
  BY <1>1, Invariant, PTL

(***************************************************************************)
(* A process about to sample wants a row at least, and if it is alone there *)
(* is one still.                                                           *)
(***************************************************************************)
Sampling ==
  \A w \in Worker : pc[w] = "sample" =>
    /\ limit[w] # 0
    /\ active = {w} => Unsampled # {}

(* Initially nobody samples. *)
LEMMA SamplingInit ==
  ASSUME Init
  PROVE  Sampling
BY DEF Init, Sampling

(* No other step of a process brings it to its sample or away from it, but   *)
(* for its death, and none touches what another process is about to sample.  *)
LEMMA OthersDoNotSample ==
  ASSUME Shape, NEW w \in Worker, PlannerFails(w) \/ Plan(w) \/ Work(w) \/ Kill(w),
         ~CountReservoir(w), ~SampleRows(w)
  PROVE  /\ pc'[w] # "sample" /\ (pc[w] # "sample" \/ kills' # kills)
         /\ \A v \in Worker \ {w} : pc'[v] = pc[v] /\ limit'[v] = limit[v]
<1> USE DEF Shape, TasksOK, RoundsOK, Phase, Goto, Return, Leave, Rest
<1>1. CASE PlannerFails(w)
  BY <1>1 DEF PlannerFails
<1>2. CASE Plan(w)
  BY <1>2 DEF Plan
<1>3. CASE RetainSnapshot(w)
  BY <1>3 DEF RetainSnapshot
<1>4. CASE CopySnapshot(w)
  BY <1>4 DEF CopySnapshot
<1>5. CASE CopyRaises(w)
  BY <1>5 DEF CopyRaises
<1>6. CASE SortSnapshots(w)
  BY <1>6 DEF SortSnapshots
<1>7. CASE StatRaises(w)
  BY <1>7 DEF StatRaises
<1>8. CASE TrimSnapshots(w)
  <2>1. pc[w] = "trim" /\ (pc' = pc \/ Goto(w, "log")) /\ UNCHANGED limit
    BY <1>8 DEF TrimSnapshots, RemoveFiles, RemoveRepo, RemoveDirectory
  <2>2. QED
    BY <2>1
<1>9. CASE LogPruned(w)
  BY <1>9 DEF LogPruned
<1>10. CASE LogNothing(w)
  BY <1>10 DEF LogNothing
<1>11. CASE TaskRaises(w)
  BY <1>11 DEF TaskRaises
<1>12. CASE StartRound(w)
  BY <1>12 DEF StartRound
<1>13. CASE NoRound(w)
  BY <1>13 DEF NoRound
<1>14. CASE SkipReplay(w)
  BY <1>14 DEF SkipReplay, Auditing
<1>15. CASE Replay(w)
  BY <1>15 DEF Replay, Auditing
<1>16. CASE ReplayRaises(w)
  <2>1. pc[w] = "audit" /\ Return(w) /\ UNCHANGED limit
    BY <1>16 DEF ReplayRaises, Auditing
  <2>2. QED
    BY <2>1
<1>17. CASE Mark(w)
  <2>1. pc[w] = "mark" /\ (Return(w) \/ Goto(w, "audit"))
    BY <1>17, MarkEnds
  <2>2. UNCHANGED limit
    BY <1>17 DEF Mark, EndRow
  <2>3. QED
    BY <2>1, <2>2
<1>18. CASE Kill(w)
  BY <1>18 DEF Kill
<1>19. QED
  BY <1>1, <1>2, <1>3, <1>4, <1>5, <1>6, <1>7, <1>8, <1>9, <1>10, <1>11, <1>12, <1>13,
     <1>14, <1>15, <1>16, <1>17, <1>18 DEF Work

(* A step of a process keeps what those about to sample rely on. *)
LEMMA SamplingNext ==
  ASSUME Shape, Sampling, NEW w \in active,
         PlannerFails(w) \/ Plan(w) \/ Work(w) \/ Kill(w), UNCHANGED active
  PROVE  Sampling'
<1>1. w \in Worker /\ pc \in [Worker -> Phase] /\ limit \in [Worker -> Nat]
  BY DEF Shape, TasksOK, RoundsOK
<1>2. SUFFICES ASSUME NEW v \in Worker, pc'[v] = "sample"
               PROVE  /\ limit'[v] # 0
                      /\ active = {v} => Unsampled' # {}
  BY DEF Sampling
<1>3. CASE CountReservoir(w)
  <2>1. UNCHANGED <<reservoir, sampled>> /\ pc[w] = "count"
    BY <1>3 DEF CountReservoir, store, tables
  <2>2. CASE v = w
    <3>1. Unsampled # {} /\ limit' = [limit EXCEPT ![w] = SampleSize(Cardinality(Unsampled))]
      BY <1>1, <1>2, <1>3, <2>2 DEF CountReservoir, Return, Goto
    <3>2. QED
      BY <1>1, <2>1, <2>2, <3>1, SampleSizeIsPositive DEF Unsampled
  <2>3. CASE v # w
    <3>1. pc[v] = "sample" /\ limit'[v] = limit[v]
      BY <1>1, <1>2, <1>3, <2>3 DEF CountReservoir, Return, Goto
    <3>2. QED
      BY <2>3, <3>1 DEF Sampling
  <2>4. QED
    BY <2>2, <2>3
<1>4. CASE SampleRows(w)
  <2>1. v # w /\ pc[v] = "sample"
    BY <1>1, <1>2, <1>4, SampleEnds DEF Return, Goto
  <2>2. limit'[v] = limit[v]
    BY <1>1, <1>4, <2>1 DEF SampleRows
  <2>3. QED
    BY <2>1, <2>2 DEF Sampling
<1>5. CASE ~CountReservoir(w) /\ ~SampleRows(w)
  <2>1. v # w /\ pc[v] = "sample" /\ limit'[v] = limit[v]
    BY <1>1, <1>2, <1>5, OthersDoNotSample
  <2>2. QED
    BY <2>1 DEF Sampling
<1>6. QED
  BY <1>3, <1>4, <1>5

(* Whoever samples relies on it in every reachable state. *)
LEMMA SamplingInvariant == Spec => [](IInv /\ Sampling)
<1>1. Init => IInv /\ Sampling
  BY IInvInit, SamplingInit
<1>2. IInv /\ Sampling /\ [Next]_<<active, vars>> => (IInv /\ Sampling)'
  <2>1. SUFFICES ASSUME IInv, Sampling, [Next]_<<active, vars>>
                 PROVE  IInv' /\ Sampling'
    OBVIOUS
  <2>2. CASE Next
    <3>1. PICK w \in active : PlannerFails(w) \/ Plan(w) \/ Work(w) \/ Kill(w)
      BY <2>2 DEF Next
    <3>2. UNCHANGED active
      BY <2>2 DEF Next
    <3>3. QED
      BY <2>1, <3>1, <3>2, IInvNext, SamplingNext DEF IInv
  <2>3. CASE UNCHANGED <<active, vars>>
    BY <2>1, <2>3, IInvNext DEF Sampling, Unsampled, vars, store, tables
  <2>4. QED
    BY <2>1, <2>2, <2>3
<1>3. QED
  BY <1>1, <1>2, PTL DEF Spec

(* A round looks only at rows that no earlier round finished, whatever other *)
(* processes did since they were counted, and at one at least unless another *)
(* process finished all of them.                                             *)
THEOREM ProgressOfRounds == Spec => RoundsMakeProgress
<1>1. IInv /\ Sampling /\ [Next]_<<active, vars>> =>
        [\A w \in Worker : pc[w] = "sample" /\ pc'[w] # "sample" /\ kills' = kills =>
           /\ todo'[w] \cap sampled = {}
           /\ todo'[w] # {} \/ (Unsampled = {} /\ Cardinality(active) > 1)]_vars
  <2>1. SUFFICES ASSUME IInv, Sampling, Next, NEW v \in Worker,
                        pc[v] = "sample", pc'[v] # "sample", kills' = kills
                 PROVE  /\ todo'[v] \cap sampled = {}
                        /\ todo'[v] # {} \/ (Unsampled = {} /\ Cardinality(active) > 1)
    BY DEF vars
  <2>2. PICK w \in active : PlannerFails(w) \/ Plan(w) \/ Work(w) \/ Kill(w)
    BY <2>1 DEF Next
  <2>3. /\ pc \in [Worker -> Phase] /\ w \in Worker /\ active \subseteq Worker
        /\ todo \in [Worker -> SUBSET Task]
    BY <2>1 DEF IInv, Shape, TasksOK, RoundsOK
  <2>4. SampleRows(w) /\ v = w
    <3>1. ~CountReservoir(w)
      BY <2>1, <2>3 DEF CountReservoir, Return, Goto
    <3>2. QED
      BY <2>1, <2>2, <2>3, <3>1, OthersDoNotSample, SampleEnds DEF IInv, Return, Goto
  <2>5. PICK S \in SUBSET Unsampled :
          /\ Cardinality(S) = limit[w] \/ (S = Unsampled /\ Cardinality(S) < limit[w])
          /\ todo'[w] = S
    BY <2>3, <2>4 DEF SampleRows
  <2>6. S = {} => S = Unsampled
    BY <2>1, <2>4, <2>5, FS_EmptySet DEF Sampling
  <2>7. S = {} => Cardinality(active) > 1
    <3>1. SUFFICES ASSUME S = {}, Cardinality(active) <= 1
                   PROVE  FALSE
      BY <2>3, ControlLoopAssumption, FS_Subset, FS_CardinalityType DEF ControlLoopAssumption
    <3>2. PICK u \in Worker : active = {u}
      BY <2>2, <2>3, <3>1, Alone
    <3>3. QED
      BY <2>1, <2>2, <2>4, <2>6, <3>1, <3>2 DEF Sampling
  <2>8. QED
    BY <2>4, <2>5, <2>6, <2>7 DEF Unsampled
<1>2. QED
  BY <1>1, SamplingInvariant, PTL DEF Spec, RoundsMakeProgress

(***************************************************************************)
(* How often a row is counted.  The processes between the result of a row  *)
(* and its mark, and those that have the row in their round before that.   *)
(***************************************************************************)
Marking(r) == {w \in active : pc[w] = "mark" /\ row[w] = r}
Waiting(r) == {w \in active : r \in todo[w]} \ Marking(r)

(* A result without a mark belongs to a process that is about to write the  *)
(* mark, or to one that died; once the row is marked nobody takes it again, *)
(* and those that have it already write one result each.                    *)
Counted ==
  \A r \in Task :
    /\ r \notin sampled => audits[r] <= Cardinality(Marking(r)) + kills
    /\ r \in sampled => audits[r] + Cardinality(Waiting(r)) <= Cardinality(active) + kills

(* The processes of a deployment, and any selection of them, are finitely many. *)
LEMMA SomeProcesses ==
  ASSUME active \subseteq Worker, NEW S \in SUBSET active
  PROVE  /\ IsFiniteSet(S) /\ Cardinality(S) \in Nat /\ Cardinality(active) \in Nat
         /\ Cardinality(S) <= Cardinality(active)
         /\ \A T \in SUBSET S : Cardinality(T) \in Nat /\ Cardinality(T) <= Cardinality(S)
<1>1. IsFiniteSet(active)
  BY ControlLoopAssumption, FS_Subset DEF ControlLoopAssumption
<1>2. IsFiniteSet(S) /\ Cardinality(S) <= Cardinality(active)
  BY <1>1, FS_Subset
<1>3. \A T \in SUBSET S : IsFiniteSet(T) /\ Cardinality(T) <= Cardinality(S)
  BY <1>2, FS_Subset
<1>4. QED
  BY <1>1, <1>2, <1>3, FS_CardinalityType

(* Initially nothing is counted. *)
LEMMA CountedInit ==
  ASSUME Init
  PROVE  Counted
<1>1. SUFFICES ASSUME NEW r \in Task
               PROVE  audits[r] <= Cardinality(Marking(r)) + kills
  BY DEF Init, Counted
<1>2. audits[r] = 0 /\ kills = 0 /\ Marking(r) \subseteq active /\ active \subseteq Worker
  BY DEF Init, Marking
<1>3. Cardinality(Marking(r)) \in Nat
  BY <1>2, SomeProcesses
<1>4. QED
  BY <1>2, <1>3

(* A row of which no process writes a result or a mark, and which no new     *)
(* round takes once it is marked, goes on being counted right.               *)
LEMMA CountedStays ==
  ASSUME Shape, Counted, NEW r \in Task, active' = active,
         audits'[r] = audits[r], r \in sampled' <=> r \in sampled,
         kills' \in Nat, kills <= kills',
         r \in sampled => Waiting(r)' \subseteq Waiting(r),
         r \notin sampled =>
           Marking(r) \subseteq Marking(r)' \/
           (kills' = kills + 1 /\ \E w : Marking(r) \ {w} \subseteq Marking(r)')
  PROVE  /\ r \notin sampled' => audits'[r] <= Cardinality(Marking(r)') + kills'
         /\ r \in sampled' => audits'[r] + Cardinality(Waiting(r)') <= Cardinality(active') + kills'
<1> DEFINE marking == Marking(r)
           marking2 == Marking(r)'
           waiting == Waiting(r)
           waiting2 == Waiting(r)'
<1>1. /\ active \subseteq Worker /\ kills \in Nat /\ audits[r] \in Nat
      /\ marking \subseteq active /\ waiting \subseteq active
      /\ marking2 \subseteq active /\ waiting2 \subseteq active
  BY DEF Shape, TasksOK, FilesOK, Marking, Waiting
<1>2. /\ r \notin sampled => audits[r] <= Cardinality(marking) + kills
      /\ r \in sampled => audits[r] + Cardinality(waiting) <= Cardinality(active) + kills
  BY DEF Counted
<1>3. /\ r \in sampled => waiting2 \subseteq waiting
      /\ r \notin sampled => marking \subseteq marking2 \/
           (kills' = kills + 1 /\ \E w : marking \ {w} \subseteq marking2)
  OBVIOUS
<1>4. SUFFICES /\ r \notin sampled => audits[r] <= Cardinality(marking2) + kills'
               /\ r \in sampled => audits[r] + Cardinality(waiting2) <= Cardinality(active) + kills'
  OBVIOUS
<1> HIDE DEF marking, marking2, waiting, waiting2
<1>5. /\ Cardinality(active) \in Nat
      /\ Cardinality(waiting) \in Nat /\ Cardinality(waiting2) \in Nat
      /\ Cardinality(marking) \in Nat /\ Cardinality(marking2) \in Nat
      /\ IsFiniteSet(marking) /\ IsFiniteSet(marking2)
  BY <1>1, SomeProcesses
<1>6. ASSUME r \in sampled
      PROVE  audits[r] + Cardinality(waiting2) <= Cardinality(active) + kills'
  <2>1. Cardinality(waiting2) <= Cardinality(waiting)
    BY <1>1, <1>3, <1>6, SomeProcesses
  <2>2. QED
    BY <1>1, <1>2, <1>5, <1>6, <2>1
<1>7. ASSUME r \notin sampled
      PROVE  audits[r] <= Cardinality(marking2) + kills'
  <2>1. CASE marking \subseteq marking2
    <3>1. Cardinality(marking) <= Cardinality(marking2)
      BY <1>1, <2>1, SomeProcesses
    <3>2. QED
      BY <1>1, <1>2, <1>5, <1>7, <3>1
  <2>2. CASE kills' = kills + 1 /\ \E w : marking \ {w} \subseteq marking2
    <3>1. PICK w : marking \ {w} \subseteq marking2
      BY <2>2
    <3>2. Cardinality(marking \ {w}) <= Cardinality(marking2)
      BY <1>1, <3>1, SomeProcesses
    <3>3. /\ Cardinality(marking \ {w}) \in Nat
          /\ Cardinality(marking) <= Cardinality(marking \ {w}) + 1
      <4>1. /\ IsFiniteSet(marking \ {w})
            /\ Cardinality(marking \ {w}) =
                 IF w \in marking THEN Cardinality(marking) - 1 ELSE Cardinality(marking)
        BY <1>5, FS_RemoveElement
      <4>2. Cardinality(marking \ {w}) \in Nat
        BY <4>1, FS_CardinalityType
      <4>3. QED
        BY <1>5, <4>1, <4>2
    <3>4. QED
      BY <1>1, <1>2, <1>5, <1>7, <2>2, <3>2, <3>3
  <2>3. QED
    BY <1>3, <1>7, <2>1, <2>2
<1>8. QED
  BY <1>6, <1>7

(* The steps of a process that is not at its round leave all of this alone. *)
LEMMA RoundsStay ==
  ASSUME Shape, NEW w \in Worker,
         PlannerFails(w) \/ Plan(w) \/ RetainSnapshot(w) \/ CopySnapshot(w) \/ CopyRaises(w)
         \/ SortSnapshots(w) \/ StatRaises(w) \/ TrimSnapshots(w) \/ LogPruned(w)
         \/ LogNothing(w) \/ TaskRaises(w) \/ StartRound(w) \/ NoRound(w)
         \/ CountReservoir(w)
  PROVE  /\ UNCHANGED <<todo, row, audits, sampled, kills>>
         /\ \A v \in Worker : pc'[v] = "mark" <=> pc[v] = "mark"
<1> USE DEF Shape, TasksOK, Phase, Goto, Return, Leave, Rest, store, tables
<1>1. CASE PlannerFails(w)
  BY <1>1 DEF PlannerFails
<1>2. CASE Plan(w)
  BY <1>2 DEF Plan
<1>3. CASE RetainSnapshot(w)
  BY <1>3 DEF RetainSnapshot
<1>4. CASE CopySnapshot(w)
  BY <1>4 DEF CopySnapshot
<1>5. CASE CopyRaises(w)
  BY <1>5 DEF CopyRaises
<1>6. CASE SortSnapshots(w)
  BY <1>6 DEF SortSnapshots
<1>7. CASE StatRaises(w)
  BY <1>7 DEF StatRaises
<1>8. CASE TrimSnapshots(w)
  <2>1. pc[w] = "trim" /\ (pc' = pc \/ Goto(w, "log"))
    BY <1>8 DEF TrimSnapshots, RemoveFiles, RemoveRepo, RemoveDirectory
  <2>2. QED
    BY <1>8, <2>1 DEF TrimSnapshots
<1>9. CASE LogPruned(w)
  BY <1>9 DEF LogPruned
<1>10. CASE LogNothing(w)
  BY <1>10 DEF LogNothing
<1>11. CASE TaskRaises(w)
  BY <1>11 DEF TaskRaises
<1>12. CASE NoRound(w)
  BY <1>12 DEF NoRound
<1>13. CASE StartRound(w)
  BY <1>13 DEF StartRound
<1>14. CASE CountReservoir(w)
  <2>1. pc[w] = "count" /\ (Return(w) \/ (Goto(w, "sample") /\ task' = task))
    BY <1>14, CountEnds
  <2>2. UNCHANGED <<todo, row, audits, sampled, kills>>
    BY <1>14 DEF CountReservoir
  <2>3. QED
    BY <2>1, <2>2
<1>15. QED
  BY <1>1, <1>2, <1>3, <1>4, <1>5, <1>6, <1>7, <1>8, <1>9, <1>10, <1>11, <1>12, <1>13, <1>14

(* A step of a process keeps every row counted right. *)
LEMMA CountedNext ==
  ASSUME Shape, Counted, NEW w \in active,
         PlannerFails(w) \/ Plan(w) \/ Work(w) \/ Kill(w), UNCHANGED active
  PROVE  Counted'
<1> DEFINE Right(r) ==
      /\ r \notin sampled' => audits'[r] <= Cardinality(Marking(r)') + kills'
      /\ r \in sampled' => audits'[r] + Cardinality(Waiting(r)') <= Cardinality(active') + kills'
<1>1. SUFFICES ASSUME NEW r \in Task
               PROVE  Right(r)
  BY DEF Counted
<1>2. /\ w \in Worker /\ active \subseteq Worker /\ kills \in Nat /\ audits[r] \in Nat
      /\ pc \in [Worker -> Phase] /\ row \in [Worker -> 0 .. MaxTasks]
      /\ todo \in [Worker -> SUBSET Task]
      /\ audits \in [Task -> Nat]
  BY DEF Shape, TasksOK, RoundsOK, FilesOK
<1>3. CASE /\ UNCHANGED <<todo, row, audits, sampled, kills>>
           /\ \A v \in Worker : pc'[v] = "mark" <=> pc[v] = "mark"
  <2>1. Marking(r)' = Marking(r) /\ Waiting(r)' = Waiting(r)
    BY <1>2, <1>3 DEF Marking, Waiting
  <2>2. QED
    BY <1>2, <1>3, <2>1, CountedStays
<1>4. CASE SampleRows(w)
  <2>1. PICK S \in SUBSET Unsampled : todo' = [todo EXCEPT ![w] = S]
    BY <1>4 DEF SampleRows
  <2>2. /\ pc[w] = "sample" /\ (Return(w) \/ Goto(w, "audit"))
        /\ UNCHANGED <<row, audits, sampled, kills>>
    BY <1>4, SampleEnds, <1>2 DEF SampleRows, store, tables
  <2>3. \A v \in Worker : (pc'[v] = "mark" <=> pc[v] = "mark") /\ (v # w => todo'[v] = todo[v])
    BY <1>2, <2>1, <2>2 DEF Goto, Return
  <2>4. Marking(r)' = Marking(r)
    BY <1>2, <2>2, <2>3 DEF Marking
  <2>5. r \in sampled => r \notin todo'[w]
    BY <1>2, <2>1 DEF Unsampled
  <2>6. r \in sampled => Waiting(r)' \subseteq Waiting(r)
    BY <1>2, <2>3, <2>4, <2>5 DEF Waiting
  <2>7. QED
    BY <1>2, <2>2, <2>4, <2>6, CountedStays
<1>5. CASE SkipReplay(w)
  <2>1. /\ pc[w] = "audit" /\ Goto(w, "mark") /\ UNCHANGED <<todo, audits, sampled, kills>>
        /\ \A v \in Worker \ {w} : row'[v] = row[v]
    BY <1>2, <1>5 DEF SkipReplay, Auditing, tables
  <2>2. \A v \in Worker \ {w} : pc'[v] = pc[v]
    BY <1>2, <2>1 DEF Goto
  <2>3. Marking(r) \subseteq Marking(r)'
    BY <1>2, <2>1, <2>2 DEF Marking
  <2>4. Waiting(r)' \subseteq Waiting(r)
    BY <2>1, <2>3 DEF Waiting
  <2>5. QED
    BY <1>2, <2>1, <2>3, <2>4, CountedStays
<1>6. CASE Replay(w)
  <2>1. PICK q \in todo[w] : /\ pc[w] = "audit" /\ row' = [row EXCEPT ![w] = q]
                             /\ audits' = [audits EXCEPT ![q] = @ + 1]
    BY <1>6 DEF Replay, Auditing
  <2>2. Goto(w, "mark") /\ UNCHANGED <<todo, sampled, kills>>
    BY <1>6 DEF Replay
  <2>3. \A v \in Worker \ {w} : pc'[v] = pc[v] /\ row'[v] = row[v]
    BY <1>2, <2>1, <2>2 DEF Goto
  <2>4. Marking(r) \subseteq Marking(r)'
    BY <1>2, <2>1, <2>2, <2>3 DEF Marking
  <2>5. Waiting(r)' \subseteq Waiting(r)
    BY <2>2, <2>4 DEF Waiting
  <2>6. CASE r # q
    <3>1. audits'[r] = audits[r]
      BY <1>2, <2>1, <2>6
    <3>2. QED
      BY <1>2, <2>2, <2>4, <2>5, <3>1, CountedStays
  <2>7. CASE r = q
    <3> DEFINE marking == Marking(r)
               marking2 == Marking(r)'
               waiting == Waiting(r)
               waiting2 == Waiting(r)'
    <3>1. audits'[r] = audits[r] + 1
      BY <1>2, <2>1, <2>7
    <3>2. w \notin marking /\ w \in marking2 /\ w \in waiting /\ w \notin waiting2
      BY <1>2, <2>1, <2>2, <2>7 DEF Marking, Waiting, Goto
    <3>3. marking \cup {w} \subseteq marking2 /\ waiting2 \subseteq waiting \ {w}
      BY <2>4, <2>5, <3>2
    <3>4. marking2 \subseteq active /\ waiting \subseteq active /\ marking \subseteq active
      BY DEF Marking, Waiting
    <3>5. /\ r \notin sampled => audits[r] <= Cardinality(marking) + kills
          /\ r \in sampled => audits[r] + Cardinality(waiting) <= Cardinality(active) + kills
      BY DEF Counted
    <3>6. SUFFICES
            /\ r \notin sampled => audits[r] + 1 <= Cardinality(marking2) + kills
            /\ r \in sampled => audits[r] + 1 + Cardinality(waiting2) <= Cardinality(active) + kills
      BY <2>2, <3>1
    <3> HIDE DEF marking, marking2, waiting, waiting2
    <3>7. /\ IsFiniteSet(marking) /\ IsFiniteSet(waiting)
          /\ Cardinality(marking) \in Nat /\ Cardinality(waiting) \in Nat
          /\ Cardinality(marking2) \in Nat /\ Cardinality(active) \in Nat
      BY <1>2, <3>4, SomeProcesses
    <3>8. Cardinality(marking \cup {w}) = Cardinality(marking) + 1
      BY <3>2, <3>7, FS_AddElement
    <3>9. Cardinality(waiting \ {w}) = Cardinality(waiting) - 1
      BY <3>2, <3>7, FS_RemoveElement
    <3>10. Cardinality(marking \cup {w}) <= Cardinality(marking2)
      BY <1>2, <3>3, <3>4, SomeProcesses
    <3>11. /\ Cardinality(waiting2) \in Nat
           /\ Cardinality(waiting2) <= Cardinality(waiting \ {w})
      <4>1. waiting \ {w} \subseteq active
        BY <3>4
      <4>2. QED
        BY <1>2, <3>3, <4>1, SomeProcesses
    <3>12. QED
      BY <1>2, <3>5, <3>7, <3>8, <3>9, <3>10, <3>11
  <2>8. QED
    BY <2>6, <2>7
<1>7. CASE ReplayRaises(w)
  <2>1. /\ pc[w] = "audit" /\ Return(w) /\ todo' = [todo EXCEPT ![w] = {}]
        /\ UNCHANGED <<row, audits, sampled, kills>>
    BY <1>7 DEF ReplayRaises, Auditing, store, tables
  <2>2. \A v \in Worker : (pc'[v] = "mark" <=> pc[v] = "mark") /\ todo'[v] \subseteq todo[v]
    BY <1>2, <2>1 DEF Return, Goto
  <2>3. Marking(r)' = Marking(r)
    BY <1>2, <2>1, <2>2 DEF Marking
  <2>4. Waiting(r)' \subseteq Waiting(r)
    BY <1>2, <2>2, <2>3 DEF Waiting
  <2>5. QED
    BY <1>2, <2>1, <2>3, <2>4, CountedStays
<1>8. CASE Mark(w)
  <2>1. /\ pc[w] = "mark" /\ todo' = [todo EXCEPT ![w] = @ \ {row[w]}]
        /\ row' = [row EXCEPT ![w] = 0] /\ sampled' = sampled \cup {row[w]}
        /\ UNCHANGED <<audits, kills>>
    BY <1>8 DEF Mark, EndRow
  <2>2. Return(w) \/ Goto(w, "audit")
    BY <1>2, <1>8, MarkEnds
  <2>3. /\ pc'[w] # "mark"
        /\ \A v \in Worker \ {w} : pc'[v] = pc[v] /\ row'[v] = row[v] /\ todo'[v] = todo[v]
        /\ todo'[w] = todo[w] \ {row[w]}
    BY <1>2, <2>1, <2>2 DEF Return, Goto
  <2>4. CASE r # row[w]
    <3>1. Marking(r) = Marking(r)'
      BY <1>2, <2>1, <2>3, <2>4 DEF Marking
    <3>2. Waiting(r)' = Waiting(r)
      BY <1>2, <2>3, <2>4, <3>1 DEF Waiting
    <3>3. QED
      BY <1>2, <2>1, <2>4, <3>1, <3>2, CountedStays
  <2>5. CASE r = row[w]
    <3> DEFINE marking == Marking(r)
               waiting == Waiting(r)
               waiting2 == Waiting(r)'
    <3>1. waiting2 \subseteq waiting /\ waiting \cap marking = {}
      BY <1>2, <2>1, <2>3, <2>5 DEF Marking, Waiting
    <3>2. marking \subseteq active /\ waiting \subseteq active
      BY DEF Marking, Waiting
    <3>3. /\ r \notin sampled => audits[r] <= Cardinality(marking) + kills
          /\ r \in sampled => audits[r] + Cardinality(waiting) <= Cardinality(active) + kills
      BY DEF Counted
    <3>4. SUFFICES audits[r] + Cardinality(waiting2) <= Cardinality(active) + kills
      BY <2>1, <2>5
    <3> HIDE DEF marking, waiting, waiting2
    <3>5. /\ IsFiniteSet(marking) /\ IsFiniteSet(waiting)
          /\ Cardinality(marking) \in Nat /\ Cardinality(waiting) \in Nat
          /\ Cardinality(waiting2) \in Nat /\ Cardinality(waiting2) <= Cardinality(waiting)
          /\ Cardinality(active) \in Nat
      BY <1>2, <3>1, <3>2, SomeProcesses
    <3>6. Cardinality(waiting \cup marking) = Cardinality(waiting) + Cardinality(marking)
      <4>1. Cardinality(waiting \cap marking) = 0
        BY <3>1, FS_EmptySet
      <4>2. Cardinality(waiting \cup marking) =
              Cardinality(waiting) + Cardinality(marking) - Cardinality(waiting \cap marking)
        BY <3>5, FS_Union
      <4>3. QED
        BY <3>5, <4>1, <4>2
    <3>7. Cardinality(waiting \cup marking) <= Cardinality(active)
      BY <1>2, <3>2, SomeProcesses
    <3>8. QED
      BY <1>2, <3>3, <3>5, <3>6, <3>7
  <2>6. QED
    BY <2>4, <2>5
<1>9. CASE Kill(w)
  <2>1. /\ kills' = kills + 1 /\ Leave(w) /\ todo' = [todo EXCEPT ![w] = {}]
        /\ row' = [row EXCEPT ![w] = 0] /\ UNCHANGED <<audits, sampled>>
    BY <1>9 DEF Kill, store, tables
  <2>2. /\ pc'[w] # "mark" /\ todo'[w] = {}
        /\ \A v \in Worker \ {w} : pc'[v] = pc[v] /\ row'[v] = row[v] /\ todo'[v] = todo[v]
    BY <1>2, <2>1 DEF Leave, Return, Goto
  <2>3. Marking(r) \ {w} \subseteq Marking(r)'
    BY <1>2, <2>2 DEF Marking
  <2>4. Waiting(r)' \subseteq Waiting(r)
    BY <1>2, <2>2 DEF Waiting, Marking
  <2>5. QED
    BY <1>2, <2>1, <2>3, <2>4, CountedStays
<1>10. QED
  BY <1>2, <1>3, <1>4, <1>5, <1>6, <1>7, <1>8, <1>9, RoundsStay DEF Work

(* The false-negative rate counts a pruned row more than once only where a    *)
(* process died, or another one audited the row too, between its audit result *)
(* and the mark.                                                              *)
THEOREM ResultsAreCounted == Spec => []DuplicatesHaveACause
<1>1. Init => IInv /\ Counted
  BY IInvInit, CountedInit
<1>2. IInv /\ Counted /\ [Next]_<<active, vars>> => IInv' /\ Counted'
  <2>1. SUFFICES ASSUME IInv, Counted, [Next]_<<active, vars>> PROVE IInv' /\ Counted'
    OBVIOUS
  <2>2. IInv'
    BY <2>1, IInvNext
  <2>3. CASE Next
    <3>1. UNCHANGED active
      BY <2>3 DEF Next
    <3>2. PICK w \in active : PlannerFails(w) \/ Plan(w) \/ Work(w) \/ Kill(w)
      BY <2>3 DEF Next
    <3>3. QED
      BY <2>1, <2>2, <3>1, <3>2, CountedNext DEF IInv
  <2>4. CASE UNCHANGED <<active, vars>>
    BY <2>1, <2>2, <2>4 DEF Counted, Marking, Waiting, vars, store, tables
  <2>5. QED
    BY <2>1, <2>2, <2>3, <2>4
<1>3. IInv /\ Counted => DuplicatesHaveACause
  <2>1. SUFFICES ASSUME IInv, Counted, NEW r \in Task
                 PROVE  audits[r] <= Cardinality(active) + kills
    BY DEF DuplicatesHaveACause
  <2>2. active \subseteq Worker /\ kills \in Nat /\ audits[r] \in Nat
    BY <2>1 DEF IInv, Shape, TasksOK, FilesOK
  <2>3. Marking(r) \subseteq active /\ Waiting(r) \subseteq active
    BY DEF Marking, Waiting
  <2>4. /\ Cardinality(Marking(r)) \in Nat /\ Cardinality(Waiting(r)) \in Nat
        /\ Cardinality(active) \in Nat /\ Cardinality(Marking(r)) <= Cardinality(active)
    BY <2>2, <2>3, SomeProcesses
  <2>5. QED
    BY <2>1, <2>2, <2>4 DEF Counted
<1>4. QED
  BY <1>1, <1>2, <1>3, PTL DEF Spec

(***************************************************************************)
(* Lists without repetition, from which an element is taken or to which    *)
(* one is appended.  This is what happens to the list of directories.      *)
(***************************************************************************)
(* What RemoveFirst leaves of a list without repetition. *)
LEMMA RemoveFirstFrom ==
  ASSUME NEW S, NEW s \in Seq(S), IsInjective(s), NEW k \in DOMAIN s, NEW r,
         r = RemoveFirst(s, s[k])
  PROVE  /\ r \in Seq(S) /\ Len(r) = Len(s) - 1
         /\ \A i \in DOMAIN r : r[i] = IF i < k THEN s[i] ELSE s[i + 1]
<1>1. k \in 1 .. Len(s) /\ Len(s) \in Nat
  OBVIOUS
<1>2. SelectInSeq(s, LAMBDA v : v = s[k]) = k
  <2>1. {i \in 1 .. Len(s) : s[i] = s[k]} = {k}
    BY <1>1 DEF IsInjective
  <2>2. Min({k}) = k
    BY <1>1 DEF Min
  <2>3. QED
    BY <2>1, <2>2 DEF SelectInSeq
<1> DEFINE front == SubSeq(s, 1, k - 1)
           back  == SubSeq(s, k + 1, Len(s))
<1>3. r = front \o back
  BY <1>1, <1>2 DEF RemoveFirst, RemoveAt
<1>4. front \in Seq(S) /\ Len(front) = k - 1 /\ \A i \in 1 .. k - 1 : front[i] = s[i]
  <2>1. front \in Seq(S) /\ Len(front) = k - 1
    BY <1>1
  <2>2. \A i \in 1 .. k - 1 : front[i] = s[i]
    BY <1>1
  <2>3. QED
    BY <2>1, <2>2
<1>5. back \in Seq(S) /\ Len(back) = Len(s) - k /\ \A i \in 1 .. Len(s) - k : back[i] = s[k + i]
  <2>1. back \in Seq(S)
    BY <1>1
  <2>2. Len(back) = Len(s) - k
    BY <1>1
  <2>3. \A i \in 1 .. Len(s) - k : back[i] = s[k + i]
    BY <1>1
  <2>4. QED
    BY <2>1, <2>2, <2>3
<1> HIDE DEF front, back
<1>6. r \in Seq(S) /\ Len(r) = Len(s) - 1
  <2>1. r \in Seq(S) /\ Len(r) = Len(front) + Len(back)
    BY <1>3, <1>4, <1>5
  <2>2. QED
    BY <1>1, <1>4, <1>5, <2>1
<1>7. \A i \in 1 .. Len(s) - 1 : r[i] = IF i <= k - 1 THEN front[i] ELSE back[i - (k - 1)]
  <2>1. front \in Seq(S) /\ back \in Seq(S)
    BY <1>4, <1>5
  <2>2. \A i \in 1 .. Len(front) + Len(back) :
          (front \o back)[i] = IF i <= Len(front) THEN front[i] ELSE back[i - Len(front)]
    BY ONLY <2>1, ConcatProperties
  <2>3. Len(front) + Len(back) = Len(s) - 1 /\ Len(front) = k - 1
    BY <1>1, <1>4, <1>5
  <2>4. QED
    BY <1>3, <2>2, <2>3
<1>8. ASSUME NEW i \in DOMAIN r
      PROVE  r[i] = IF i < k THEN s[i] ELSE s[i + 1]
  <2>1. i \in 1 .. Len(s) - 1
    BY <1>6
  <2>2. CASE i < k
    <3>1. r[i] = front[i] /\ i \in 1 .. k - 1
      BY <1>1, <1>7, <2>1, <2>2
    <3>2. QED
      BY <1>4, <2>2, <3>1
  <2>3. CASE ~(i < k)
    <3>1. r[i] = back[i - (k - 1)] /\ i - (k - 1) \in 1 .. Len(s) - k /\ k + (i - (k - 1)) = i + 1
      BY <1>1, <1>7, <2>1, <2>3
    <3>2. QED
      BY <1>5, <2>3, <3>1
  <2>4. QED
    BY <2>2, <2>3
<1>9. QED
  BY <1>6, <1>8

(* It is the list without the element, in the same order. *)
LEMMA RemoveFirstKeepsOrder ==
  ASSUME NEW S, NEW s \in Seq(S), IsInjective(s), NEW d \in ToSet(s), NEW r,
         r = RemoveFirst(s, d)
  PROVE  /\ r \in Seq(S) /\ Len(r) = Len(s) - 1
         /\ IsInjective(r) /\ ToSet(r) = ToSet(s) \ {d}
         /\ \A i, j \in DOMAIN r : i < j =>
              \E m, n \in DOMAIN s : m < n /\ s[m] = r[i] /\ s[n] = r[j]
<1>1. PICK k \in DOMAIN s : s[k] = d
  BY DEF ToSet
<1>2. /\ r \in Seq(S) /\ Len(r) = Len(s) - 1
      /\ \A i \in DOMAIN r : r[i] = IF i < k THEN s[i] ELSE s[i + 1]
  BY <1>1, RemoveFirstFrom
<1>3. DOMAIN s = 1 .. Len(s) /\ DOMAIN r = 1 .. Len(s) - 1 /\ Len(s) \in Nat /\ k \in 1 .. Len(s)
  BY <1>2
<1> DEFINE from(i) == IF i < k THEN i ELSE i + 1
<1>4. \A i \in DOMAIN r : from(i) \in DOMAIN s /\ r[i] = s[from(i)] /\ from(i) # k
  BY <1>2, <1>3
<1>5. \A i, j \in DOMAIN r : i < j => from(i) < from(j)
  BY <1>3
<1>6. IsInjective(r)
  <2>1. SUFFICES ASSUME NEW i \in DOMAIN r, NEW j \in DOMAIN r, r[i] = r[j]
                 PROVE  i = j
    BY DEF IsInjective
  <2>2. from(i) = from(j)
    BY <1>4, <2>1 DEF IsInjective
  <2>3. QED
    BY <1>3, <2>2
<1>7. ToSet(r) \subseteq ToSet(s) \ {d}
  <2>1. SUFFICES ASSUME NEW i \in DOMAIN r
                 PROVE  r[i] \in ToSet(s) /\ r[i] # d
    BY DEF ToSet
  <2>2. QED
    BY <1>1, <1>4 DEF ToSet, IsInjective
<1>8. ToSet(s) \ {d} \subseteq ToSet(r)
  <2>1. SUFFICES ASSUME NEW j \in DOMAIN s, s[j] # d
                 PROVE  s[j] \in ToSet(r)
    BY DEF ToSet
  <2>2. j # k
    BY <1>1, <2>1
  <2>3. \E i \in DOMAIN r : from(i) = j
    <3>1. CASE j < k
      <4>1. j \in DOMAIN r /\ from(j) = j
        BY <1>3, <3>1
      <4>2. QED
        BY <4>1
    <3>2. CASE ~(j < k)
      <4>1. j - 1 \in DOMAIN r /\ from(j - 1) = j
        BY <1>3, <2>2, <3>2
      <4>2. QED
        BY <4>1
    <3>3. QED
      BY <3>1, <3>2
  <2>4. QED
    BY <1>4, <2>3 DEF ToSet
<1>9. ASSUME NEW i \in DOMAIN r, NEW j \in DOMAIN r, i < j
      PROVE  \E m, n \in DOMAIN s : m < n /\ s[m] = r[i] /\ s[n] = r[j]
  BY <1>4, <1>5, <1>9
<1>10. QED
  BY <1>2, <1>6, <1>7, <1>8, <1>9

(* Nothing is removed that is not there. *)
LEMMA RemoveFirstOfNothing ==
  ASSUME NEW S, NEW s \in Seq(S), NEW d, d \notin ToSet(s)
  PROVE  RemoveFirst(s, d) = s
BY DEF RemoveFirst, ToSet

(* A list without repetition, and one that has one element more at its end. *)
Extends(r, s, S, d) ==
  /\ r \in Seq(S) /\ IsInjective(r) /\ ToSet(r) = ToSet(s) \cup {d}
  /\ Len(s) \in Nat /\ DOMAIN s = 1 .. Len(s)
  /\ Len(r) = Len(s) + 1 /\ DOMAIN r = 1 .. Len(s) + 1
  /\ \A i \in DOMAIN s : r[i] = s[i]
  /\ r[Len(s) + 1] = d

(* A list to which a new element is appended is one. *)
LEMMA AppendExtends ==
  ASSUME NEW S, NEW s \in Seq(S), IsInjective(s), NEW d \in S, d \notin ToSet(s)
  PROVE  Extends(Append(s, d), s, S, d)
<1> DEFINE r == Append(s, d)
<1>1. /\ r \in Seq(S) /\ Len(r) = Len(s) + 1 /\ Len(s) \in Nat
      /\ DOMAIN s = 1 .. Len(s) /\ DOMAIN r = 1 .. Len(s) + 1
      /\ \A i \in 1 .. Len(s) : r[i] = s[i]
      /\ r[Len(s) + 1] = d
  BY AppendProperties
<1> HIDE DEF r
<1>2. ToSet(r) = ToSet(s) \cup {d}
  BY <1>1 DEF ToSet
<1>3. IsInjective(r)
  BY <1>1 DEF ToSet, IsInjective
<1>4. Extends(r, s, S, d)
  BY <1>1, <1>2, <1>3 DEF Extends
<1>5. QED
  BY <1>4 DEF r

(***************************************************************************)
(* Which steps touch the audit directory.  All others leave it alone, take *)
(* no process further than where it was in its snapshot, and give a new    *)
(* task a number of its own; a process leaves a removal only by dying.     *)
(***************************************************************************)
AtDisk == {"copy", "sort", "trim", "log"}

OffDisk(w) ==
  /\ UNCHANGED <<active, retained, dirs, snapshot>>
  /\ started' \in started .. MaxTasks
  /\ kills' \in Nat /\ kills <= kills'
  /\ \A v \in Worker : pc'[v] \in AtDisk =>
       pc[v] = pc'[v] /\ task[v] = task'[v] /\ victims[v] = victims'[v]
  /\ \A v \in Worker : pc'[v] = "retain" =>
       \/ pc[v] = "retain" /\ task[v] = task'[v]
       \/ task'[v] = started + 1
  /\ \A v \in Worker : victims'[v] \in {victims[v], <<>>}
  /\ \A v \in Worker : pc[v] = "trim" => pc'[v] = "trim" \/ (v = w /\ kills' = kills + 1)
  /\ \/ DOMAIN reservoir' = DOMAIN reservoir
     \/ pc[w] = "log" /\ DOMAIN reservoir' = DOMAIN reservoir \cup {task[w]}

(* A step of a process copies, lists or removes snapshots, or is off the disk. *)
LEMMA StepsOffDisk ==
  ASSUME Shape, NEW w \in Worker, PlannerFails(w) \/ Plan(w) \/ Work(w) \/ Kill(w),
         UNCHANGED active,
         ~RetainSnapshot(w), ~CopySnapshot(w), ~SortSnapshots(w), ~TrimSnapshots(w)
  PROVE  OffDisk(w)
<1> USE ControlLoopAssumption DEF Shape, TasksOK, RoundsOK, FilesOK, Phase, Task, AtDisk, OffDisk,
        Goto, Return, Leave, Rest, store, disk, tables, notes, past
<1>1. CASE PlannerFails(w)
  BY <1>1 DEF PlannerFails
<1>2. CASE Plan(w)
  BY <1>2 DEF Plan
<1>3. CASE CopyRaises(w)
  BY <1>3 DEF CopyRaises
<1>4. CASE StatRaises(w)
  BY <1>4 DEF StatRaises
<1>5. CASE LogPruned(w)
  BY <1>5 DEF LogPruned
<1>6. CASE LogNothing(w)
  BY <1>6 DEF LogNothing
<1>7. CASE TaskRaises(w)
  BY <1>7 DEF TaskRaises
<1>8. CASE StartRound(w)
  BY <1>8 DEF StartRound
<1>9. CASE NoRound(w)
  BY <1>9 DEF NoRound
<1>10. CASE CountReservoir(w)
  BY <1>10 DEF CountReservoir
<1>11. CASE SampleRows(w)
  BY <1>11 DEF SampleRows
<1>12. CASE SkipReplay(w)
  BY <1>12 DEF SkipReplay, Auditing
<1>13. CASE Replay(w)
  BY <1>13 DEF Replay, Auditing
<1>14. CASE ReplayRaises(w)
  BY <1>14 DEF ReplayRaises, Auditing
<1>15. CASE Mark(w)
  BY <1>15 DEF Mark, EndRow
<1>16. CASE Kill(w)
  BY <1>16 DEF Kill
<1>17. QED
  BY <1>1, <1>2, <1>3, <1>4, <1>5, <1>6, <1>7, <1>8, <1>9, <1>10, <1>11, <1>12, <1>13, <1>14,
     <1>15, <1>16 DEF Work

(***************************************************************************)
(* A directory is begun once, for a task that was started, and a row comes *)
(* after it.                                                               *)
(***************************************************************************)
Retained ==
  /\ retained \in Seq(Task) /\ IsInjective(retained)
  /\ ToSet(retained) \subseteq 1 .. started
  /\ \A w \in Worker : pc[w] = "retain" => task[w] \notin ToSet(retained)
  /\ \A w \in Worker : pc[w] \in AtDisk => task[w] \in ToSet(retained)
  /\ \A t \in Task : snapshot[t] # "none" => t \in ToSet(retained)
  /\ DOMAIN reservoir \subseteq ToSet(retained)

(* Initially nothing is retained. *)
LEMMA RetainedInit ==
  ASSUME Init
  PROVE  Retained
<1>1. retained = <<>> /\ reservoir = <<>> /\ \A t \in Task : snapshot[t] = "none"
  BY DEF Init
<1>2. \A w \in Worker : pc[w] = "idle"
  BY DEF Init
<1>3. retained \in Seq(Task) /\ IsInjective(retained) /\ ToSet(retained) = {}
  BY <1>1 DEF IsInjective, ToSet
<1>4. DOMAIN reservoir = {}
  BY <1>1
<1>5. QED
  BY <1>1, <1>2, <1>3, <1>4 DEF Retained, AtDisk

(* A new directory comes last. *)
LEMMA RetainAppends ==
  ASSUME Shape, Rows, Retained, NEW w \in Worker, RetainSnapshot(w)
  PROVE  /\ task[w] \in Task /\ snapshot[task[w]] = "none" /\ task[w] \notin ToSet(retained)
         /\ Extends(retained', retained, Task, task[w])
<1>1. pc[w] = "retain" /\ retained' = Append(retained, task[w])
  BY DEF RetainSnapshot
<1>2. task[w] \in Task /\ task[w] \notin ToSet(retained)
  BY <1>1 DEF Shape, TasksOK, Rows, BeforeRow, Task, Retained
<1>3. snapshot[task[w]] = "none"
  BY <1>2 DEF Retained
<1>4. retained \in Seq(Task) /\ IsInjective(retained)
  BY DEF Retained
<1>5. Extends(Append(retained, task[w]), retained, Task, task[w])
  BY <1>2, <1>4, AppendExtends
<1>6. QED
  BY <1>1, <1>2, <1>3, <1>5

(* A step of a process begins a directory for its own task only. *)
LEMMA RetainedNext ==
  ASSUME Shape, Rows, Retained, NEW w \in Worker,
         PlannerFails(w) \/ Plan(w) \/ Work(w) \/ Kill(w), UNCHANGED active
  PROVE  Retained'
<1> USE DEF Shape, TasksOK, RoundsOK, FilesOK, Phase, Task, Retained, AtDisk, Goto
<1>1. CASE RetainSnapshot(w)
  <2>1. /\ task[w] \in Task /\ task[w] \notin ToSet(retained)
        /\ retained' \in Seq(Task) /\ IsInjective(retained')
        /\ ToSet(retained') = ToSet(retained) \cup {task[w]}
    BY <1>1, RetainAppends DEF Extends
  <2>2. /\ pc[w] = "retain" /\ Goto(w, "copy") /\ UNCHANGED <<task, started, reservoir>>
        /\ snapshot' = [snapshot EXCEPT ![task[w]] = "copying"]
    BY <1>1 DEF RetainSnapshot, tables
  <2>3. ToSet(retained') \subseteq 1 .. started'
    BY <2>1, <2>2 DEF Rows, BeforeRow
  <2>4. \A v \in Worker : pc'[v] = "retain" => v # w /\ task'[v] \notin ToSet(retained')
    BY <2>1, <2>2 DEF Rows, BeforeRow
  <2>5. \A v \in Worker : pc'[v] \in AtDisk => task'[v] \in ToSet(retained')
    BY <2>1, <2>2
  <2>6. \A t \in Task : snapshot'[t] # "none" => t \in ToSet(retained')
    BY <2>1, <2>2
  <2>7. QED
    BY <2>1, <2>2, <2>3, <2>4, <2>5, <2>6
<1>2. CASE CopySnapshot(w) \/ SortSnapshots(w) \/ TrimSnapshots(w)
  <2>1. UNCHANGED <<task, started, retained, reservoir>>
    BY <1>2 DEF CopySnapshot, SortSnapshots, TrimSnapshots, store, disk, tables
  <2>2. /\ pc[w] \in AtDisk
        /\ pc' = pc \/ Goto(w, "log") \/ Goto(w, "sort") \/ Goto(w, "trim")
    BY <1>2 DEF CopySnapshot, SortSnapshots, TrimSnapshots, RemoveFiles, RemoveRepo,
            RemoveDirectory
  <2>3. \A t \in Task : snapshot'[t] # "none" => snapshot[t] # "none"
    <3>1. CASE CopySnapshot(w)
      BY <3>1 DEF CopySnapshot
    <3>2. CASE SortSnapshots(w)
      BY <3>2 DEF SortSnapshots, store, disk
    <3>3. CASE TrimSnapshots(w)
      BY <3>3 DEF TrimSnapshots, RemoveFiles, RemoveRepo, RemoveDirectory
    <3>4. QED
      BY <1>2, <3>1, <3>2, <3>3
  <2>4. \A v \in Worker : pc'[v] = "retain" => pc[v] = "retain"
    BY <2>2
  <2>5. \A v \in Worker : pc'[v] \in AtDisk => pc[v] \in AtDisk
    BY <2>2
  <2>6. QED
    BY <2>1, <2>3, <2>4, <2>5
<1>3. CASE ~RetainSnapshot(w) /\ ~CopySnapshot(w) /\ ~SortSnapshots(w) /\ ~TrimSnapshots(w)
  <2>1. OffDisk(w)
    BY <1>3, StepsOffDisk
  <2>2. UNCHANGED <<retained, snapshot>> /\ started' \in started .. MaxTasks
    BY <2>1 DEF OffDisk
  <2>3. ASSUME NEW v \in Worker, pc'[v] = "retain"
        PROVE  task'[v] \notin ToSet(retained')
    <3>1. CASE pc[v] = "retain" /\ task[v] = task'[v]
      BY <2>2, <3>1
    <3>2. CASE task'[v] = started + 1
      <4>1. started + 1 \notin 1 .. started
        OBVIOUS
      <4>2. QED
        BY <2>2, <3>2, <4>1
    <3>3. QED
      BY <2>1, <2>3, <3>1, <3>2 DEF OffDisk
  <2>4. \A v \in Worker : pc'[v] \in AtDisk => task'[v] \in ToSet(retained')
    BY <2>1, <2>2 DEF OffDisk
  <2>5. DOMAIN reservoir' \subseteq ToSet(retained')
    BY <2>1, <2>2 DEF OffDisk
  <2>6. ToSet(retained') \subseteq 1 .. started'
    BY <2>1, <2>2
  <2>7. QED
    BY <2>2, <2>3, <2>4, <2>5, <2>6
<1>4. QED
  BY <1>1, <1>2, <1>3

(***************************************************************************)
(* The directory lists what there is.  Directories whose removal is not at *)
(* its end are in the order in which they were begun: only removing repo   *)
(* makes one of them newer than it is.                                     *)
(***************************************************************************)
Begun(c, d) == \E i, j \in DOMAIN retained : i < j /\ retained[i] = c /\ retained[j] = d

Present ==
  /\ dirs \in Seq(Task) /\ IsInjective(dirs)
  /\ ToSet(dirs) = {t \in Task : snapshot[t] # "none"}

InOrder ==
  \A c, d \in Task :
    snapshot[c] # "husk" /\ snapshot[d] # "husk" /\ Older(c, d) => Begun(c, d)

Listed ==
  \A w \in Worker :
    /\ victims[w] \in Seq(Task)
    /\ pc[w] = "sort" => Len(victims[w]) > MaxSnapshots
    /\ pc[w] = "trim" => victims[w] # <<>>
    /\ pc[w] \in {"sort", "trim"} => ToSet(victims[w]) \subseteq ToSet(retained)

(* Initially the directory is empty. *)
LEMMA DirectoryInit ==
  ASSUME Init
  PROVE  Present /\ InOrder /\ Listed
<1>1. dirs = <<>> /\ \A t \in Task : snapshot[t] = "none"
  BY DEF Init
<1>2. \A w \in Worker : pc[w] = "idle" /\ victims[w] = <<>>
  BY DEF Init
<1>3. dirs \in Seq(Task) /\ IsInjective(dirs) /\ ToSet(dirs) = {}
  BY <1>1 DEF IsInjective, ToSet
<1>4. \A c, d \in Task : ~Older(c, d)
  BY <1>1 DEF Older
<1>5. QED
  BY <1>1, <1>2, <1>3, <1>4 DEF Present, InOrder, Listed

(* What has been begun stays begun. *)
LEMMA BegunStays ==
  ASSUME Shape, Rows, Retained, NEW w \in Worker, NEW c \in Task, NEW d \in Task,
         retained' = retained \/ RetainSnapshot(w), Begun(c, d)
  PROVE  Begun(c, d)'
<1>1. CASE retained' = retained
  BY <1>1 DEF Begun
<1>2. CASE RetainSnapshot(w)
  <2>1. \A i \in DOMAIN retained : i \in DOMAIN retained' /\ retained'[i] = retained[i]
    BY <1>2, RetainAppends DEF Extends
  <2>2. QED
    BY <2>1 DEF Begun
<1>3. QED
  BY <1>1, <1>2

(* Retaining a snapshot adds its directory as the newest. *)
LEMMA RetainKeepsOrder ==
  ASSUME Shape, Rows, Retained, Present, InOrder, NEW w \in Worker, RetainSnapshot(w)
  PROVE  Present' /\ InOrder'
<1> DEFINE t == task[w]
<1>1. /\ t \in Task /\ snapshot[t] = "none" /\ t \notin ToSet(retained)
      /\ Extends(retained', retained, Task, t)
  BY RetainAppends
<1>2. dirs' = Append(dirs, t) /\ snapshot' = [snapshot EXCEPT ![t] = "copying"]
  BY DEF RetainSnapshot
<1>3. dirs \in Seq(Task) /\ IsInjective(dirs) /\ t \notin ToSet(dirs)
  BY <1>1 DEF Present
<1>4. Extends(dirs', dirs, Task, t)
  <2>1. Extends(Append(dirs, t), dirs, Task, t)
    BY <1>1, <1>3, AppendExtends
  <2>2. QED
    BY <1>2, <2>1
<1>8. Present'
  BY <1>1, <1>2, <1>4 DEF Present, Shape, FilesOK, Extends
<1>9. ASSUME NEW c \in Task, NEW d \in Task, snapshot'[c] # "husk", snapshot'[d] # "husk",
             Older(c, d)'
      PROVE  Begun(c, d)'
  <2>1. PICK i \in DOMAIN dirs', j \in DOMAIN dirs' : i < j /\ dirs'[i] = c /\ dirs'[j] = d
    BY <1>9 DEF Older
  <2>2. i \in DOMAIN dirs /\ dirs[i] = c /\ c \in ToSet(dirs)
    BY <1>4, <2>1 DEF ToSet, Extends
  <2>3. c # t
    BY <1>3, <2>2
  <2>4. CASE j \in DOMAIN dirs
    <3>1. dirs[j] = d /\ d # t
      BY <1>3, <1>4, <2>1, <2>4 DEF ToSet, Extends
    <3>2. Older(c, d) /\ snapshot[c] # "husk" /\ snapshot[d] # "husk"
      BY <1>2, <1>9, <2>1, <2>2, <2>3, <2>4, <3>1 DEF Older, Shape, FilesOK
    <3>3. QED
      BY <3>2, BegunStays DEF InOrder
  <2>5. CASE j \notin DOMAIN dirs
    <3>1. d = t
      BY <1>4, <2>1, <2>5 DEF Extends
    <3>2. c \in ToSet(retained)
      BY <2>2 DEF Present, Retained
    <3>3. PICK k \in DOMAIN retained : retained[k] = c
      BY <3>2 DEF ToSet
    <3>4. k \in DOMAIN retained' /\ retained'[k] = c /\ k < Len(retained) + 1
      BY <1>1, <3>3 DEF Extends
    <3>5. Len(retained) + 1 \in DOMAIN retained' /\ retained'[Len(retained) + 1] = d
      BY <1>1, <3>1 DEF Extends
    <3>6. QED
      BY <3>4, <3>5 DEF Begun
  <2>6. QED
    BY <2>4, <2>5
<1>10. QED
  BY <1>8, <1>9 DEF InOrder

(* Removing files, repo or the directory itself keeps the order of the others. *)
LEMMA TrimKeepsOrder ==
  ASSUME Shape, Present, InOrder, Listed, NEW w \in Worker, TrimSnapshots(w)
  PROVE  Present' /\ InOrder'
<1> DEFINE d == Head(victims[w])
<1>1. pc[w] = "trim" /\ retained' = retained
  BY DEF TrimSnapshots
<1>2. d \in Task
  BY <1>1 DEF Listed
<1>3. snapshot \in [Task -> Held]
  BY DEF Shape, FilesOK
<1>4. \A c, e \in Task : Begun(c, e) => Begun(c, e)'
  BY <1>1 DEF Begun
<1>5. CASE RemoveFiles(w, d)
  <2>1. /\ dirs' = dirs /\ snapshot' = [snapshot EXCEPT ![d] = "torn"]
        /\ snapshot[d] \in {"copying", "whole"}
    BY <1>5 DEF RemoveFiles
  <2>2. \A c \in Task : snapshot'[c] # "none" <=> snapshot[c] # "none"
    BY <1>2, <1>3, <2>1
  <2>3. \A c \in Task : snapshot'[c] # "husk" <=> snapshot[c] # "husk"
    BY <1>2, <1>3, <2>1
  <2>4. \A c, e \in Task : Older(c, e)' <=> Older(c, e)
    BY <2>1 DEF Older
  <2>5. QED
    BY <1>4, <2>1, <2>2, <2>3, <2>4 DEF Present, InOrder
<1>6. CASE RemoveRepo(w, d)
  <2>1. /\ dirs' = Append(RemoveFirst(dirs, d), d) /\ snapshot[d] = "torn"
        /\ snapshot' = [snapshot EXCEPT ![d] = "husk"]
    BY <1>6 DEF RemoveRepo
  <2>2. d \in ToSet(dirs) /\ dirs \in Seq(Task) /\ IsInjective(dirs)
    BY <1>2, <2>1 DEF Present
  <2> DEFINE r == RemoveFirst(dirs, d)
  <2>3. /\ r \in Seq(Task) /\ IsInjective(r) /\ ToSet(r) = ToSet(dirs) \ {d}
        /\ \A i, j \in DOMAIN r : i < j =>
              \E m, n \in DOMAIN dirs : m < n /\ dirs[m] = r[i] /\ dirs[n] = r[j]
    BY <2>2, RemoveFirstKeepsOrder
  <2>4. dirs' = Append(r, d)
    BY <2>1
  <2> HIDE DEF r
  <2>5. d \notin ToSet(r)
    BY <2>3
  <2>6. Extends(dirs', r, Task, d)
    BY <1>2, <2>3, <2>4, <2>5, AppendExtends
  <2>9. Present'
    BY <1>2, <1>3, <2>1, <2>2, <2>3, <2>6 DEF Present, Extends
  <2>10. ASSUME NEW c \in Task, NEW e \in Task, snapshot'[c] # "husk", snapshot'[e] # "husk",
                Older(c, e)'
         PROVE  Begun(c, e)
    <3>1. PICK i \in DOMAIN dirs', j \in DOMAIN dirs' : i < j /\ dirs'[i] = c /\ dirs'[j] = e
      BY <2>10 DEF Older
    <3>2. c # d /\ e # d /\ snapshot[c] # "husk" /\ snapshot[e] # "husk"
      BY <1>2, <1>3, <2>1, <2>10
    <3>3. i \in DOMAIN r /\ j \in DOMAIN r /\ r[i] = c /\ r[j] = e
      BY <2>6, <3>1, <3>2 DEF Extends
    <3>4. Older(c, e)
      BY <2>3, <3>1, <3>3 DEF Older
    <3>5. QED
      BY <3>2, <3>4 DEF InOrder
  <2>11. QED
    BY <1>4, <2>9, <2>10 DEF InOrder
<1>7. CASE RemoveDirectory(w, d)
  <2>1. /\ dirs' = RemoveFirst(dirs, d) /\ snapshot[d] \in {"husk", "none"}
        /\ snapshot' = [snapshot EXCEPT ![d] = "none"]
    BY <1>7 DEF RemoveDirectory
  <2>2. dirs \in Seq(Task) /\ IsInjective(dirs)
    BY DEF Present
  <2>3. /\ dirs' \in Seq(Task) /\ IsInjective(dirs') /\ ToSet(dirs') = ToSet(dirs) \ {d}
        /\ \A c, e \in Task : Older(c, e)' => Older(c, e)
    <3>1. CASE snapshot[d] = "none"
      <4>1. d \notin ToSet(dirs)
        BY <3>1 DEF Present
      <4>2. dirs' = dirs
        BY <2>1, <2>2, <4>1, RemoveFirstOfNothing
      <4>3. QED
        BY <2>2, <4>1, <4>2 DEF Older
    <3>2. CASE snapshot[d] # "none"
      <4>1. d \in ToSet(dirs)
        BY <1>2, <3>2 DEF Present
      <4>2. /\ dirs' \in Seq(Task) /\ IsInjective(dirs') /\ ToSet(dirs') = ToSet(dirs) \ {d}
            /\ \A i, j \in DOMAIN dirs' : i < j =>
                 \E m, n \in DOMAIN dirs : m < n /\ dirs[m] = dirs'[i] /\ dirs[n] = dirs'[j]
        BY <2>1, <2>2, <4>1, RemoveFirstKeepsOrder
      <4>3. QED
        BY <4>2 DEF Older
    <3>3. QED
      BY <3>1, <3>2
  <2>4. Present'
    BY <1>2, <1>3, <2>1, <2>3 DEF Present
  <2>5. ASSUME NEW c \in Task, NEW e \in Task, snapshot'[c] # "husk", snapshot'[e] # "husk",
               Older(c, e)'
        PROVE  Begun(c, e)
    <3>1. \E i, j \in DOMAIN dirs' : i < j /\ dirs'[i] = c /\ dirs'[j] = e
      BY <2>5 DEF Older
    <3>2. c \in ToSet(dirs') /\ e \in ToSet(dirs')
      BY <3>1 DEF ToSet
    <3>3. snapshot[c] # "husk" /\ snapshot[e] # "husk"
      BY <1>3, <2>1, <2>3, <2>5, <3>2
    <3>4. QED
      BY <2>3, <2>5, <3>3 DEF InOrder
  <2>6. QED
    BY <1>4, <2>4, <2>5 DEF InOrder
<1>8. QED
  BY <1>5, <1>6, <1>7 DEF TrimSnapshots

(* A step of a process keeps the directory in order. *)
LEMMA OrderNext ==
  ASSUME Shape, Rows, Retained, Present, InOrder, Listed, NEW w \in Worker,
         PlannerFails(w) \/ Plan(w) \/ Work(w) \/ Kill(w), UNCHANGED active
  PROVE  Present' /\ InOrder'
<1>1. CASE RetainSnapshot(w)
  BY <1>1, RetainKeepsOrder
<1>2. CASE TrimSnapshots(w)
  BY <1>2, TrimKeepsOrder
<1>3. CASE CopySnapshot(w)
  <2>1. UNCHANGED <<dirs, retained>> /\ snapshot' = [snapshot EXCEPT ![task[w]] = "whole"]
    BY <1>3 DEF CopySnapshot
  <2>2. snapshot[task[w]] = "copying" /\ snapshot \in [Task -> Held]
    BY <1>3 DEF CopySnapshot, Shape, FilesOK
  <2>3. \A t \in Task : /\ snapshot'[t] # "none" <=> snapshot[t] # "none"
                        /\ snapshot'[t] # "husk" <=> snapshot[t] # "husk"
    BY <2>1, <2>2
  <2>4. QED
    BY <2>1, <2>3 DEF Present, InOrder, Older, Begun
<1>4. CASE SortSnapshots(w)
  BY <1>4 DEF SortSnapshots, store, disk, Present, InOrder, Older, Begun
<1>5. CASE ~RetainSnapshot(w) /\ ~CopySnapshot(w) /\ ~SortSnapshots(w) /\ ~TrimSnapshots(w)
  <2>1. UNCHANGED <<dirs, retained, snapshot>>
    BY <1>5, StepsOffDisk DEF OffDisk
  <2>2. QED
    BY <2>1 DEF Present, InOrder, Older, Begun
<1>6. QED
  BY <1>1, <1>2, <1>3, <1>4, <1>5

(* What SortSnapshots leaves to be removed: the listed directories, oldest   *)
(* first, but for the last MaxSnapshots.                                     *)
AreOldest(old, listed, n, S) ==
  /\ old \in Seq(S) /\ old # <<>>
  /\ n - MaxSnapshots \in Nat
  /\ Len(old) = n - MaxSnapshots /\ DOMAIN old = 1 .. n - MaxSnapshots
  /\ \A p \in 1 .. n - MaxSnapshots : old[p] = listed[p]

(* It leaves as many as the list is longer than it may be. *)
LEMMA WhatIsOld ==
  ASSUME NEW n \in Nat, n > MaxSnapshots, NEW S, NEW listed \in [1 .. n -> S]
  PROVE  AreOldest(Oldest(listed), listed, n, S)
<1>1. MaxSnapshots \in Nat
  BY ControlLoopAssumption DEF ControlLoopAssumption
<1>2. listed \in Seq(S) /\ Len(listed) = n
  OBVIOUS
<1>3. /\ Oldest(listed) \in Seq(S) /\ Len(Oldest(listed)) = n - MaxSnapshots
      /\ n - MaxSnapshots \in Nat
      /\ \A p \in 1 .. n - MaxSnapshots : Oldest(listed)[p] = listed[p]
  BY <1>1, <1>2 DEF Oldest
<1>4. DOMAIN Oldest(listed) = 1 .. n - MaxSnapshots /\ Oldest(listed) # <<>>
  BY <1>1, <1>3
<1>5. QED
  BY <1>3, <1>4 DEF AreOldest

(* What a process lists, and what it has still to remove, was once retained. *)
LEMMA ListedNext ==
  ASSUME Shape, Rows, Retained, Present, Listed, NEW w \in Worker,
         PlannerFails(w) \/ Plan(w) \/ Work(w) \/ Kill(w), UNCHANGED active
  PROVE  Listed'
<1>0. pc \in [Worker -> Phase] /\ victims = [v \in Worker |-> victims[v]]
  BY DEF Shape, TasksOK, RoundsOK
<1>1. CASE RetainSnapshot(w)
  <2>1. UNCHANGED victims /\ Goto(w, "copy") /\ ToSet(retained') = ToSet(retained) \cup {task[w]}
    BY <1>1, RetainAppends DEF RetainSnapshot, Extends
  <2>2. QED
    BY <1>0, <2>1 DEF Listed, Goto
<1>2. CASE CopySnapshot(w)
  <2>1. retained' = retained
    BY <1>2 DEF CopySnapshot
  <2>2. CASE Goto(w, "log") /\ UNCHANGED victims
    BY <1>0, <2>1, <2>2 DEF Listed, Goto
  <2>3. CASE /\ ~(Len(dirs) <= MaxSnapshots)
             /\ Goto(w, "sort") /\ victims' = [victims EXCEPT ![w] = dirs]
    <3>1. /\ dirs \in Seq(Task) /\ Len(dirs) > MaxSnapshots
          /\ ToSet(dirs) \subseteq ToSet(retained)
      BY <2>3, ControlLoopAssumption DEF Present, Retained, ControlLoopAssumption
    <3>2. victims'[w] = dirs /\ pc'[w] = "sort"
      BY <1>0, <2>3 DEF Goto
    <3>3. \A v \in Worker \ {w} : victims'[v] = victims[v] /\ pc'[v] = pc[v]
      BY <1>0, <2>3 DEF Goto
    <3>4. QED
      BY <2>1, <3>1, <3>2, <3>3 DEF Listed
  <2>4. QED
    BY <1>2, <2>2, <2>3 DEF CopySnapshot
<1>3. CASE SortSnapshots(w)
  <2>1. PICK listed \in [DOMAIN victims[w] -> ToSet(victims[w])] :
          victims' = [victims EXCEPT ![w] = Oldest(listed)]
    BY <1>3 DEF SortSnapshots
  <2>2. pc[w] = "sort" /\ Goto(w, "trim") /\ retained' = retained
    BY <1>3 DEF SortSnapshots, store, disk
  <2> DEFINE n == Len(victims[w])
             S == ToSet(victims[w])
  <2>3. /\ n \in Nat /\ n > MaxSnapshots /\ DOMAIN victims[w] = 1 .. n
        /\ S \subseteq ToSet(retained) /\ S \subseteq Task
    <3>1. victims[w] \in Seq(Task) /\ n > MaxSnapshots /\ S \subseteq ToSet(retained)
      BY <2>2 DEF Listed
    <3>2. \A i \in DOMAIN victims[w] : victims[w][i] \in Task
      BY <3>1
    <3>3. S \subseteq Task
      BY <3>2 DEF ToSet
    <3>4. QED
      BY <3>1, <3>3
  <2>4. Oldest(listed) \in Seq(S) /\ Oldest(listed) # <<>>
    BY <2>1, <2>3, WhatIsOld DEF AreOldest
  <2>5. Oldest(listed) \in Seq(Task) /\ ToSet(Oldest(listed)) \subseteq ToSet(retained)
    <3> DEFINE old == Oldest(listed)
    <3> HIDE DEF S
    <3>1. \A i \in DOMAIN old : old[i] \in S
      BY <2>4
    <3>2. old \in Seq(Task)
      BY <2>3, <2>4, <3>1
    <3>3. ToSet(old) \subseteq S
      BY <3>1 DEF ToSet
    <3>4. QED
      BY <2>3, <3>2, <3>3
  <2>6. victims'[w] = Oldest(listed) /\ pc'[w] = "trim"
    BY <1>0, <2>1, <2>2 DEF Goto
  <2>7. \A v \in Worker \ {w} : victims'[v] = victims[v] /\ pc'[v] = pc[v]
    BY <1>0, <2>1, <2>2 DEF Goto
  <2>8. QED
    BY <2>2, <2>4, <2>5, <2>6, <2>7 DEF Listed
<1>4. CASE TrimSnapshots(w)
  <2>1. pc[w] = "trim" /\ UNCHANGED retained
    BY <1>4 DEF TrimSnapshots
  <2>2. CASE UNCHANGED <<pc, victims>>
    BY <2>1, <2>2 DEF Listed
  <2>3. CASE /\ victims' = [victims EXCEPT ![w] = Tail(@)]
             /\ IF victims'[w] = <<>> THEN Goto(w, "log") ELSE UNCHANGED pc
    <3>1. victims'[w] = Tail(victims[w])
      BY <1>0, <2>3
    <3>2. /\ victims[w] \in Seq(Task) /\ victims[w] # <<>>
          /\ ToSet(victims[w]) \subseteq ToSet(retained)
      BY <2>1 DEF Listed
    <3>3. victims'[w] \in Seq(Task) /\ ToSet(victims'[w]) \subseteq ToSet(retained)
      <4> DEFINE s == victims[w]
      <4>1. /\ Tail(s) \in Seq(Task)
            /\ \A i \in DOMAIN Tail(s) : Tail(s)[i] = s[i + 1] /\ i + 1 \in DOMAIN s
        BY <3>2
      <4>2. ToSet(Tail(s)) \subseteq ToSet(s)
        BY <4>1 DEF ToSet
      <4>3. QED
        BY <3>1, <3>2, <4>1, <4>2
    <3>4. \A v \in Worker \ {w} : victims'[v] = victims[v] /\ pc'[v] = pc[v]
      BY <1>0, <2>3 DEF Goto
    <3>5. pc'[w] \in {"log", "trim"} /\ (pc'[w] = "trim" => victims'[w] # <<>>)
      BY <1>0, <2>1, <2>3 DEF Goto
    <3>6. QED
      BY <2>1, <3>3, <3>4, <3>5 DEF Listed
  <2>4. QED
    BY <1>4, <2>2, <2>3 DEF TrimSnapshots, RemoveFiles, RemoveRepo, RemoveDirectory
<1>5. CASE ~RetainSnapshot(w) /\ ~CopySnapshot(w) /\ ~SortSnapshots(w) /\ ~TrimSnapshots(w)
  <2>1. OffDisk(w)
    BY <1>5, StepsOffDisk
  <2>2. UNCHANGED retained
    BY <2>1 DEF OffDisk
  <2>3. ASSUME NEW v \in Worker
        PROVE  victims'[v] \in Seq(Task)
    <3>1. victims[v] \in Seq(Task) /\ victims'[v] \in {victims[v], <<>>} /\ <<>> \in Seq(Task)
      BY <2>1 DEF OffDisk, Listed
    <3>2. QED
      BY <3>1
  <2>4. \A v \in Worker : pc'[v] \in {"sort", "trim"} => pc[v] = pc'[v] /\ victims'[v] = victims[v]
    BY <2>1 DEF OffDisk, AtDisk
  <2>5. QED
    BY <2>2, <2>3, <2>4 DEF Listed
<1>6. QED
  BY <1>1, <1>2, <1>3, <1>4, <1>5

(***************************************************************************)
(* The husks that no process is about to remove.  Each of them was left by *)
(* a death.                                                                *)
(***************************************************************************)
Orphans ==
  {t \in Task : snapshot[t] = "husk" /\ \A w \in active : pc[w] = "trim" => Head(victims[w]) # t}

HusksAreFew == Cardinality(Orphans) <= kills

(* Initially there are no husks. *)
LEMMA HusksInit ==
  ASSUME Init
  PROVE  HusksAreFew
<1>1. Orphans = {} /\ kills = 0
  BY DEF Init, Orphans
<1>2. QED
  BY <1>1, FS_EmptySet DEF HusksAreFew

(* Orphans appear only where a process dies. *)
LEMMA OrphansOfTheDead ==
  ASSUME HusksAreFew, kills \in Nat, kills' \in Nat,
         \/ Orphans' \subseteq Orphans /\ kills <= kills'
         \/ \E t \in Task : Orphans' \subseteq Orphans \cup {t} /\ kills' = kills + 1
  PROVE  HusksAreFew'
<1> DEFINE before == Orphans
           after  == Orphans'
<1>1. before \in SUBSET Task /\ after \in SUBSET Task /\ Cardinality(before) <= kills
  BY DEF Orphans, HusksAreFew
<1> HIDE DEF before, after
<1>2. Cardinality(before) \in Nat /\ Cardinality(after) \in Nat /\ IsFiniteSet(before)
  BY <1>1, SomeTasks
<1>3. CASE after \subseteq before /\ kills <= kills'
  <2>1. Cardinality(after) <= Cardinality(before)
    BY <1>1, <1>3, SomeTasks
  <2>2. Cardinality(after) <= kills'
    BY <1>1, <1>2, <1>3, <2>1
  <2>3. QED
    BY <2>2 DEF HusksAreFew, after
<1>4. CASE \E t \in Task : after \subseteq before \cup {t} /\ kills' = kills + 1
  <2>1. PICK t \in Task : after \subseteq before \cup {t} /\ kills' = kills + 1
    BY <1>4
  <2>2. before \cup {t} \in SUBSET Task
    BY <1>1, <2>1
  <2>3. Cardinality(after) <= Cardinality(before \cup {t}) /\ Cardinality(before \cup {t}) \in Nat
    BY <2>1, <2>2, SomeTasks
  <2>4. Cardinality(before \cup {t}) =
          IF t \in before THEN Cardinality(before) ELSE Cardinality(before) + 1
    BY <1>2, FS_AddElement
  <2>5. Cardinality(after) <= kills'
    BY <1>1, <1>2, <2>1, <2>3, <2>4
  <2>6. QED
    BY <2>5 DEF HusksAreFew, after
<1>5. QED
  BY <1>3, <1>4 DEF before, after

(* A removal goes on to the end, unless the process dies. *)
LEMMA HusksNext ==
  ASSUME Shape, Rows, Retained, Listed, HusksAreFew, NEW w \in active,
         PlannerFails(w) \/ Plan(w) \/ Work(w) \/ Kill(w), UNCHANGED active
  PROVE  HusksAreFew'
<1>0. /\ w \in Worker /\ active \subseteq Worker /\ kills \in Nat
      /\ pc \in [Worker -> Phase] /\ victims = [v \in Worker |-> victims[v]]
      /\ snapshot \in [Task -> Held]
  BY DEF Shape, TasksOK, RoundsOK, FilesOK
<1>1. CASE RetainSnapshot(w)
  <2>1. /\ pc[w] = "retain" /\ Goto(w, "copy") /\ UNCHANGED <<victims, kills>>
        /\ snapshot' = [snapshot EXCEPT ![task[w]] = "copying"]
    BY <1>1 DEF RetainSnapshot, Rest
  <2>2. \A v \in active : pc'[v] = "trim" <=> pc[v] = "trim"
    BY <1>0, <2>1 DEF Goto
  <2>3. \A t \in Task : snapshot'[t] = "husk" => snapshot[t] = "husk"
    BY <1>0, <2>1
  <2>4. Orphans' \subseteq Orphans
    BY <2>1, <2>2, <2>3 DEF Orphans
  <2>5. QED
    BY <1>0, <2>1, <2>4, OrphansOfTheDead
<1>2. CASE CopySnapshot(w)
  <2>1. pc[w] = "copy" /\ UNCHANGED kills /\ snapshot' = [snapshot EXCEPT ![task[w]] = "whole"]
    BY <1>2 DEF CopySnapshot, Rest
  <2>2. \A v \in active : v # w => pc'[v] = pc[v] /\ victims'[v] = victims[v]
    BY <1>0, <1>2 DEF CopySnapshot, Goto
  <2>3. \A t \in Task : snapshot'[t] = "husk" => snapshot[t] = "husk"
    BY <1>0, <2>1
  <2>4. Orphans' \subseteq Orphans
    BY <2>1, <2>2, <2>3 DEF Orphans
  <2>5. QED
    BY <1>0, <2>1, <2>4, OrphansOfTheDead
<1>3. CASE SortSnapshots(w)
  <2>1. pc[w] = "sort" /\ UNCHANGED <<kills, snapshot>>
    BY <1>3 DEF SortSnapshots, Rest, store, disk
  <2>2. \A v \in active : v # w => pc'[v] = pc[v] /\ victims'[v] = victims[v]
    BY <1>0, <1>3 DEF SortSnapshots, Goto
  <2>3. Orphans' \subseteq Orphans
    BY <2>1, <2>2 DEF Orphans
  <2>4. QED
    BY <1>0, <2>1, <2>3, OrphansOfTheDead
<1>4. CASE TrimSnapshots(w)
  <2> DEFINE d == Head(victims[w])
  <2>1. pc[w] = "trim" /\ UNCHANGED kills
    BY <1>4 DEF TrimSnapshots, Rest
  <2>2. \A v \in active : v # w => pc'[v] = pc[v] /\ victims'[v] = victims[v]
    BY <1>0, <1>4 DEF TrimSnapshots, RemoveFiles, RemoveRepo, RemoveDirectory, Goto
  <2>3. \A t \in Task : t # d => snapshot'[t] = snapshot[t]
    BY <1>0, <1>4 DEF TrimSnapshots, RemoveFiles, RemoveRepo, RemoveDirectory
  <2>4. d \in Task
    BY <1>0, <2>1 DEF Listed
  <2>5. snapshot'[d] = "husk" => pc'[w] = "trim" /\ Head(victims'[w]) = d
    <3>1. CASE RemoveFiles(w, d) \/ RemoveDirectory(w, d)
      <4>1. snapshot'[d] # "husk"
        BY <1>0, <2>4, <3>1 DEF RemoveFiles, RemoveDirectory
      <4>2. QED
        BY <4>1
    <3>2. CASE RemoveRepo(w, d)
      BY <2>1, <3>2 DEF RemoveRepo
    <3>3. QED
      BY <1>4, <3>1, <3>2 DEF TrimSnapshots
  <2>6. Orphans' \subseteq Orphans
    <3>1. SUFFICES ASSUME NEW t \in Task, snapshot'[t] = "husk",
                          \A v \in active : pc'[v] = "trim" => Head(victims'[v]) # t
                    PROVE  /\ snapshot[t] = "husk"
                           /\ \A v \in active : pc[v] = "trim" => Head(victims[v]) # t
      BY DEF Orphans
    <3>2. t # d
      BY <2>5, <3>1
    <3>3. QED
      BY <2>2, <2>3, <3>1, <3>2
  <2>7. QED
    BY <1>0, <2>1, <2>6, OrphansOfTheDead
<1>5. CASE ~RetainSnapshot(w) /\ ~CopySnapshot(w) /\ ~SortSnapshots(w) /\ ~TrimSnapshots(w)
  <2>1. OffDisk(w)
    BY <1>0, <1>5, StepsOffDisk
  <2>2. snapshot' = snapshot /\ kills' \in Nat /\ kills <= kills'
    BY <2>1 DEF OffDisk
  <2>3. \A v \in active : pc'[v] = "trim" => victims'[v] = victims[v]
    BY <1>0, <2>1 DEF OffDisk, AtDisk
  <2>4. \A v \in active : pc[v] = "trim" => pc'[v] = "trim" \/ (v = w /\ kills' = kills + 1)
    BY <1>0, <2>1 DEF OffDisk
  <2>5. CASE pc[w] = "trim" /\ kills' = kills + 1
    <3>1. Head(victims[w]) \in Task
      BY <1>0, <2>5 DEF Listed
    <3>2. Orphans' \subseteq Orphans \cup {Head(victims[w])}
      <4>1. \A v \in active : v # w /\ pc[v] = "trim" => pc'[v] = "trim" /\ victims'[v] = victims[v]
        BY <2>3, <2>4
      <4>2. QED
        BY <2>2, <4>1 DEF Orphans
    <3>3. QED
      BY <1>0, <2>2, <2>5, <3>1, <3>2, OrphansOfTheDead
  <2>6. CASE ~(pc[w] = "trim" /\ kills' = kills + 1)
    <3>1. \A v \in active : pc[v] = "trim" => pc'[v] = "trim" /\ victims'[v] = victims[v]
      BY <2>3, <2>4, <2>6
    <3>2. Orphans' \subseteq Orphans
      BY <2>2, <3>1 DEF Orphans
    <3>3. QED
      BY <1>0, <2>2, <3>2, OrphansOfTheDead
  <2>7. QED
    BY <2>5, <2>6
<1>6. QED
  BY <1>1, <1>2, <1>3, <1>4, <1>5

(***************************************************************************)
(* What may be gone: the directory of a task with enough later ones.  Each *)
(* orphan, and each other process at a removal, may cost a place.          *)
(***************************************************************************)
Dispensable(t) ==
  \A i \in DOMAIN retained : retained[i] = t =>
    i <= Len(retained) - MaxSnapshots + kills + Cardinality(active) - 1

GoneAreOld ==
  \A t \in ToSet(retained) : snapshot[t] \notin {"copying", "whole"} => Dispensable(t)
VictimsAreOld ==
  \A w \in Worker : pc[w] = "trim" => \A t \in ToSet(victims[w]) : Dispensable(t)

(* A set whose elements are all values of a list has at most as many elements. *)
LEMMA ImageIsSmall ==
  ASSUME NEW S, IsFiniteSet(S), NEW T, NEW f, \A t \in T : \E s \in S : f[s] = t
  PROVE  IsFiniteSet(T) /\ Cardinality(T) <= Cardinality(S)
<1> DEFINE S1 == {s \in S : f[s] \in T}
           g  == [s \in S1 |-> f[s]]
<1>1. IsFiniteSet(S1) /\ Cardinality(S1) <= Cardinality(S)
  BY FS_Subset
<1>2. g \in Surjection(S1, T)
  BY DEF Surjection
<1> HIDE DEF S1, g
<1>3. IsFiniteSet(T) /\ Cardinality(T) <= Cardinality(S1)
  BY <1>1, <1>2, FS_Surjection
<1>4. Cardinality(S) \in Nat /\ Cardinality(S1) \in Nat /\ Cardinality(T) \in Nat
  BY <1>1, <1>3, FS_CardinalityType
<1>5. QED
  BY <1>1, <1>3, <1>4

(* A list without repetition has as many values as it has places. *)
LEMMA ImageIsLarge ==
  ASSUME NEW S, IsFiniteSet(S), NEW f, \A i, j \in S : f[i] = f[j] => i = j
  PROVE  /\ IsFiniteSet({f[i] : i \in S})
         /\ Cardinality(S) <= Cardinality({f[i] : i \in S})
<1> DEFINE T == {f[i] : i \in S}
           g == [i \in S |-> f[i]]
<1>1. \A t \in T : \E s \in S : f[s] = t
  OBVIOUS
<1>2. g \in Injection(S, T)
  BY DEF Injection, IsInjective
<1> HIDE DEF T, g
<1>3. IsFiniteSet(T)
  BY <1>1, ImageIsSmall
<1>4. Cardinality(S) <= Cardinality(T)
  BY <1>2, <1>3, FS_Injection
<1>5. QED
  BY <1>3, <1>4 DEF T

(* No directory is older than itself. *)
LEMMA SortedIsInjective ==
  ASSUME Present, NEW n \in Nat, NEW listed, DOMAIN listed = 1 .. n, Sorted(listed)
  PROVE  \A i, j \in 1 .. n : listed[i] = listed[j] => i = j
<1>1. ASSUME NEW c, Older(c, c)
      PROVE  FALSE
  BY <1>1 DEF Older, Present, IsInjective
<1>2. \A i, j \in 1 .. n : i < j => Older(listed[i], listed[j])
  BY DEF Sorted
<1>3. SUFFICES ASSUME NEW i \in 1 .. n, NEW j \in 1 .. n, listed[i] = listed[j], i # j
               PROVE  FALSE
  OBVIOUS
<1>4. CASE i < j
  BY <1>1, <1>2, <1>3, <1>4
<1>5. CASE j < i
  BY <1>1, <1>2, <1>3, <1>5
<1>6. QED
  BY <1>3, <1>4, <1>5

(* Of the husks, those that are not orphans are each at the head of another   *)
(* process's removal.                                                         *)
LEMMA HusksAreCounted ==
  ASSUME Shape, HusksAreFew, NEW w \in active, pc[w] # "trim",
         NEW H \in SUBSET Task, \A t \in H : snapshot[t] = "husk"
  PROVE  Cardinality(H) <= kills + Cardinality(active) - 1
<1>1. active \subseteq Worker /\ kills \in Nat
  BY DEF Shape, TasksOK
<1>2. IsFiniteSet(active)
  BY <1>1, ControlLoopAssumption, FS_Subset DEF ControlLoopAssumption
<1> DEFINE rest  == active \ {w}
           loose == H \cap Orphans
           held  == H \ Orphans
<1>3. IsFiniteSet(rest) /\ Cardinality(rest) = Cardinality(active) - 1
  BY <1>2, FS_RemoveElement
<1>4. IsFiniteSet(held) /\ Cardinality(held) <= Cardinality(rest)
  <2> DEFINE head == [v \in rest |-> Head(victims[v])]
  <2>1. \A t \in held : \E v \in rest : head[v] = t
    BY DEF Orphans
  <2> HIDE DEF head, held, rest
  <2>2. QED
    BY <1>3, <2>1, ImageIsSmall
<1>5. IsFiniteSet(loose) /\ Cardinality(loose) <= Cardinality(Orphans)
  <2>1. Orphans \in SUBSET Task /\ loose \in SUBSET Orphans
    BY DEF Orphans
  <2>2. QED
    BY <2>1, SomeTasks
<1>6. Cardinality(Orphans) <= kills
  BY DEF HusksAreFew
<1>7. H = loose \cup held /\ loose \cap held = {}
  OBVIOUS
<1> HIDE DEF loose, held, rest
<1>8. Cardinality(H) = Cardinality(loose) + Cardinality(held) - Cardinality(loose \cap held)
  BY <1>4, <1>5, <1>7, FS_Union
<1>9. Cardinality(loose \cap held) = 0
  BY <1>7, FS_EmptySet
<1>10. Cardinality(loose) \in Nat /\ Cardinality(held) \in Nat /\ Cardinality(rest) \in Nat
  BY <1>3, <1>4, <1>5, FS_CardinalityType
<1>11. Cardinality(Orphans) \in Nat /\ Cardinality(active) \in Nat
  <2>1. Orphans \in SUBSET Task
    BY DEF Orphans
  <2>2. Cardinality(Orphans) \in Nat
    BY <2>1, SomeTasks
  <2>3. QED
    BY <1>2, <2>2, FS_CardinalityType
<1>12. QED
  BY <1>1, <1>3, <1>4, <1>5, <1>6, <1>8, <1>9, <1>10, <1>11

(* What is removed first has enough directories after it: of the             *)
(* MaxSnapshots that the list has there, those that are no husks were begun  *)
(* later.                                                                    *)
LEMMA OldestAreDispensable ==
  ASSUME Shape, Retained, Present, InOrder, HusksAreFew, GoneAreOld,
         NEW w \in active, pc[w] # "trim",
         NEW n \in Nat, NEW listed \in [1 .. n -> ToSet(dirs)], Sorted(listed),
         NEW p \in 1 .. n - MaxSnapshots
  PROVE  Dispensable(listed[p])
<1> DEFINE t == listed[p]
           L == Len(retained)
<1>0. MaxSnapshots \in Nat \ {0} /\ kills \in Nat
  BY ControlLoopAssumption DEF ControlLoopAssumption, Shape, TasksOK
<1>1. p \in 1 .. n /\ p + MaxSnapshots <= n
  BY <1>0
<1>2. t \in ToSet(dirs) /\ t \in Task /\ t \in ToSet(retained)
  BY <1>1 DEF Present, Retained
<1>3. CASE snapshot[t] \notin {"copying", "whole"}
  BY <1>2, <1>3 DEF GoneAreOld
<1>4. CASE snapshot[t] \in {"copying", "whole"}
  <2>1. SUFFICES ASSUME NEW i \in DOMAIN retained, retained[i] = t
                 PROVE  i <= L - MaxSnapshots + kills + Cardinality(active) - 1
    BY DEF Dispensable
  <2> DEFINE J == p + 1 .. p + MaxSnapshots
             U == {listed[j] : j \in J}
             H == {u \in U : snapshot[u] = "husk"}
             N == U \ H
             K == i + 1 .. L
  <2>2. L \in Nat /\ DOMAIN retained = 1 .. L /\ i \in 1 .. L
    BY <2>1 DEF Retained
  <2>3. \A j \in J : j \in 1 .. n /\ p < j
    BY <1>0, <1>1
  <2>4. \A u \in U : u \in ToSet(dirs) /\ u \in Task /\ Older(t, u)
    <3>1. ASSUME NEW j \in J
          PROVE  listed[j] \in ToSet(dirs) /\ listed[j] \in Task /\ Older(t, listed[j])
      <4>1. j \in 1 .. n /\ p < j /\ DOMAIN listed = 1 .. n
        BY <2>3
      <4>2. Older(t, listed[j])
        BY <1>1, <4>1 DEF Sorted
      <4>3. QED
        BY <4>1, <4>2 DEF Present
    <3>2. QED
      BY <3>1
  <2>5. IsFiniteSet(J) /\ Cardinality(J) = MaxSnapshots
    <3> DEFINE lo == p + 1
               hi == p + MaxSnapshots
    <3>1. lo \in Int /\ hi \in Int /\ ~(lo > hi) /\ hi - lo + 1 = MaxSnapshots
      BY <1>0, <1>1
    <3> HIDE DEF lo, hi
    <3>2. IsFiniteSet(lo .. hi) /\ Cardinality(lo .. hi) = IF lo > hi THEN 0 ELSE hi - lo + 1
      BY <3>1, FS_Interval
    <3>3. J = lo .. hi
      BY DEF lo, hi
    <3>4. QED
      BY <3>1, <3>2, <3>3
  <2>6. IsFiniteSet(U) /\ MaxSnapshots <= Cardinality(U)
    <3>1. \A a, b \in 1 .. n : listed[a] = listed[b] => a = b
      BY SortedIsInjective
    <3>2. \A a, b \in J : listed[a] = listed[b] => a = b
      BY <2>3, <3>1
    <3> HIDE DEF J
    <3>3. QED
      BY <2>5, <3>2, ImageIsLarge
  <2>7. Cardinality(H) <= kills + Cardinality(active) - 1 /\ IsFiniteSet(H)
    <3>1. H \in SUBSET Task /\ \A u \in H : snapshot[u] = "husk"
      BY <2>4
    <3> HIDE DEF H
    <3>2. QED
      BY <3>1, HusksAreCounted, SomeTasks
  <2>8. IsFiniteSet(K) /\ Cardinality(K) = L - i
    <3>1. i + 1 \in Int /\ L \in Int
      BY <2>2
    <3>2. IsFiniteSet(K) /\ Cardinality(K) = IF i + 1 > L THEN 0 ELSE L - (i + 1) + 1
      BY <3>1, FS_Interval
    <3>3. QED
      BY <2>2, <3>2
  <2>9. IsFiniteSet(N) /\ Cardinality(N) <= Cardinality(K)
    <3>1. \A u \in N : \E b \in K : retained[b] = u
      <4>1. SUFFICES ASSUME NEW u \in U, snapshot[u] # "husk"
                     PROVE  \E b \in K : retained[b] = u
        OBVIOUS
      <4>2. Begun(t, u)
        BY <1>2, <1>4, <2>4, <4>1 DEF InOrder
      <4>3. PICK a \in DOMAIN retained, b \in DOMAIN retained :
              a < b /\ retained[a] = t /\ retained[b] = u
        BY <4>2 DEF Begun
      <4>4. a = i
        BY <2>1, <4>3 DEF Retained, IsInjective
      <4>5. b \in K
        BY <2>2, <4>3, <4>4
      <4>6. QED
        BY <4>3, <4>5
    <3> HIDE DEF N, K
    <3>2. QED
      BY <2>8, <3>1, ImageIsSmall
  <2>10. U = N \cup H /\ N \cap H = {}
    OBVIOUS
  <2> HIDE DEF U, H, N, K, J
  <2>11. Cardinality(U) = Cardinality(N) + Cardinality(H) - Cardinality(N \cap H)
    BY <2>7, <2>9, <2>10, FS_Union
  <2>12. Cardinality(N \cap H) = 0
    BY <2>10, FS_EmptySet
  <2>13. Cardinality(U) \in Nat /\ Cardinality(N) \in Nat /\ Cardinality(H) \in Nat
    BY <2>6, <2>7, <2>9, FS_CardinalityType
  <2>14. Cardinality(active) \in Nat
    BY SomeProcesses DEF Shape, TasksOK
  <2>15. QED
    BY <1>0, <2>2, <2>6, <2>7, <2>8, <2>9, <2>11, <2>12, <2>13, <2>14
<1>5. QED
  BY <1>3, <1>4

(* Initially nothing is gone. *)
LEMMA OldInit ==
  ASSUME Init
  PROVE  GoneAreOld /\ VictimsAreOld
<1>1. ToSet(retained) = {}
  BY DEF Init, ToSet
<1>2. \A w \in Worker : pc[w] = "idle"
  BY DEF Init
<1>3. QED
  BY <1>1, <1>2 DEF GoneAreOld, VictimsAreOld

(* A directory that may be gone may be gone ever after. *)
LEMMA DispensableStays ==
  ASSUME Shape, Rows, Retained, NEW w \in Worker, UNCHANGED active,
         retained' = retained \/ RetainSnapshot(w), kills' \in Nat, kills <= kills',
         NEW t \in ToSet(retained), Dispensable(t)
  PROVE  Dispensable(t)'
<1> DEFINE A == Cardinality(active)
<1>1. kills \in Nat /\ A \in Nat /\ MaxSnapshots \in Nat /\ Len(retained) \in Nat
  BY SomeProcesses, ControlLoopAssumption DEF Shape, TasksOK, ControlLoopAssumption, Retained
<1>2. DOMAIN retained = 1 .. Len(retained)
  BY DEF Retained
<1>3. ASSUME NEW i \in DOMAIN retained', retained'[i] = t
      PROVE  /\ i \in DOMAIN retained /\ retained[i] = t
             /\ Len(retained') \in Nat /\ Len(retained) <= Len(retained')
  <2>1. CASE retained' = retained
    BY <1>1, <1>3, <2>1
  <2>2. CASE RetainSnapshot(w)
    <3>1. task[w] \notin ToSet(retained) /\ Extends(retained', retained, Task, task[w])
      BY <2>2, RetainAppends
    <3>2. i # Len(retained) + 1
      BY <1>3, <3>1 DEF Extends
    <3>3. i \in DOMAIN retained
      BY <1>1, <1>2, <1>3, <3>1, <3>2 DEF Extends
    <3>4. QED
      BY <1>1, <1>3, <3>1, <3>3 DEF Extends
  <2>3. QED
    BY <2>1, <2>2
<1> HIDE DEF A
<1>4. SUFFICES ASSUME NEW i \in DOMAIN retained', retained'[i] = t
               PROVE  i <= Len(retained') - MaxSnapshots + kills' + A - 1
  BY DEF Dispensable, A
<1>5. i \in Nat /\ i <= Len(retained) - MaxSnapshots + kills + A - 1
  BY <1>2, <1>3, <1>4 DEF Dispensable, A
<1>6. QED
  BY <1>1, <1>3, <1>4, <1>5

(* Only what is dispensable is removed. *)
LEMMA OldNext ==
  ASSUME Shape, Rows, Retained, Present, InOrder, Listed, HusksAreFew,
         GoneAreOld, VictimsAreOld, NEW w \in active,
         PlannerFails(w) \/ Plan(w) \/ Work(w) \/ Kill(w), UNCHANGED active
  PROVE  GoneAreOld' /\ VictimsAreOld'
<1>0. /\ w \in Worker /\ active \subseteq Worker /\ kills \in Nat
      /\ pc \in [Worker -> Phase] /\ victims = [v \in Worker |-> victims[v]]
      /\ snapshot \in [Task -> Held]
  BY DEF Shape, TasksOK, RoundsOK, FilesOK
<1>1. CASE RetainSnapshot(w)
  <2>1. /\ pc[w] = "retain" /\ Goto(w, "copy") /\ UNCHANGED <<victims, kills>>
        /\ snapshot' = [snapshot EXCEPT ![task[w]] = "copying"]
    BY <1>1 DEF RetainSnapshot, Rest
  <2>2. task[w] \in Task /\ ToSet(retained') = ToSet(retained) \cup {task[w]}
    BY <1>0, <1>1, RetainAppends DEF Extends
  <2>3. \A t \in ToSet(retained) : Dispensable(t) => Dispensable(t)'
    <3>1. kills' \in Nat /\ kills <= kills'
      BY <1>0, <2>1
    <3>2. QED
      BY <1>0, <1>1, <3>1, DispensableStays
  <2>4. GoneAreOld'
    <3>1. ASSUME NEW t \in ToSet(retained'), snapshot'[t] \notin {"copying", "whole"}
          PROVE  Dispensable(t)'
      <4>1. t # task[w]
        BY <1>0, <2>1, <2>2, <3>1
      <4>2. t \in ToSet(retained) /\ snapshot'[t] = snapshot[t]
        BY <1>0, <2>1, <2>2, <3>1, <4>1
      <4>3. QED
        BY <2>3, <3>1, <4>2 DEF GoneAreOld
    <3>2. QED
      BY <3>1 DEF GoneAreOld
  <2>5. VictimsAreOld'
    <3>1. \A v \in Worker : pc'[v] = "trim" => pc[v] = "trim" /\ victims'[v] = victims[v]
      BY <1>0, <2>1 DEF Goto
    <3>2. \A v \in Worker : pc[v] = "trim" => ToSet(victims[v]) \subseteq ToSet(retained)
      BY DEF Listed
    <3>3. QED
      BY <2>3, <3>1, <3>2 DEF VictimsAreOld
  <2>6. QED
    BY <2>4, <2>5
<1>2. CASE CopySnapshot(w)
  <2>1. /\ pc[w] = "copy" /\ UNCHANGED <<retained, kills>>
        /\ snapshot' = [snapshot EXCEPT ![task[w]] = "whole"]
    BY <1>2 DEF CopySnapshot, Rest
  <2>2. \A t \in ToSet(retained) : Dispensable(t) => Dispensable(t)'
    BY <2>1 DEF Dispensable
  <2>3. \A t \in Task :
          snapshot'[t] \notin {"copying", "whole"} => snapshot[t] \notin {"copying", "whole"}
    <3>1. snapshot[task[w]] = "copying"
      BY <1>2 DEF CopySnapshot
    <3>2. QED
      BY <1>0, <2>1, <3>1
  <2>4. \A v \in Worker : pc'[v] = "trim" => pc[v] = "trim" /\ victims'[v] = victims[v]
    BY <1>0, <1>2, <2>1 DEF CopySnapshot, Goto
  <2>5. ToSet(retained) \subseteq Task
    BY DEF Retained, ToSet
  <2>6. \A v \in Worker : pc[v] = "trim" => ToSet(victims[v]) \subseteq ToSet(retained)
    BY DEF Listed
  <2>7. QED
    BY <2>1, <2>2, <2>3, <2>4, <2>5, <2>6 DEF GoneAreOld, VictimsAreOld
<1>3. CASE SortSnapshots(w)
  <2>1. PICK listed \in [DOMAIN victims[w] -> ToSet(victims[w])] :
          /\ Sorted(listed)
          /\ victims' = [victims EXCEPT ![w] = Oldest(listed)]
    BY <1>3 DEF SortSnapshots
  <2>2. /\ pc[w] = "sort" /\ Goto(w, "trim") /\ UNCHANGED <<retained, snapshot, kills>>
        /\ ToSet(victims[w]) \subseteq ToSet(dirs)
    BY <1>3 DEF SortSnapshots, store, disk, Rest
  <2> DEFINE n == Len(victims[w])
  <2>3. /\ n \in Nat /\ n > MaxSnapshots /\ DOMAIN victims[w] = 1 .. n
    BY <1>0, <2>2 DEF Listed
  <2>4. listed \in [1 .. n -> ToSet(dirs)]
    BY <2>1, <2>2, <2>3
  <2> HIDE DEF n
  <2>5. \A p \in 1 .. n - MaxSnapshots : Dispensable(listed[p])
    BY <2>1, <2>2, <2>3, <2>4, OldestAreDispensable
  <2>6. AreOldest(Oldest(listed), listed, n, ToSet(dirs))
    BY <2>3, <2>4, WhatIsOld
  <2>7. \A t \in ToSet(Oldest(listed)) : Dispensable(t)
    BY <2>5, <2>6 DEF ToSet, AreOldest
  <2>8. victims'[w] = Oldest(listed)
    BY <1>0, <2>1
  <2>9. \A v \in Worker : v # w /\ pc'[v] = "trim" => pc[v] = "trim" /\ victims'[v] = victims[v]
    BY <1>0, <2>1, <2>2 DEF Goto
  <2>10. \A v \in Worker : pc'[v] = "trim" => \A t \in ToSet(victims'[v]) : Dispensable(t)
    BY <2>7, <2>8, <2>9 DEF VictimsAreOld
  <2>11. \A t : Dispensable(t) => Dispensable(t)'
    BY <2>2 DEF Dispensable
  <2>12. QED
    BY <2>2, <2>10, <2>11 DEF GoneAreOld, VictimsAreOld
<1>4. CASE TrimSnapshots(w)
  <2> DEFINE d == Head(victims[w])
  <2>1. pc[w] = "trim" /\ UNCHANGED <<retained, kills>>
    BY <1>4 DEF TrimSnapshots, Rest
  <2>2. victims[w] \in Seq(Task) /\ victims[w] # <<>>
    BY <1>0, <2>1 DEF Listed
  <2>3. d \in ToSet(victims[w]) /\ ToSet(Tail(victims[w])) \subseteq ToSet(victims[w])
    <3> DEFINE s == victims[w]
    <3>1. d = s[1] /\ 1 \in DOMAIN s
      BY <2>2
    <3>2. \A i \in DOMAIN Tail(s) : Tail(s)[i] = s[i + 1] /\ i + 1 \in DOMAIN s
      BY <2>2
    <3> HIDE DEF s
    <3>3. ToSet(Tail(s)) \subseteq ToSet(s) /\ d \in ToSet(s)
      BY <3>1, <3>2 DEF ToSet
    <3>4. QED
      BY <3>3 DEF s
  <2>4. Dispensable(d)
    BY <1>0, <2>1, <2>3 DEF VictimsAreOld
  <2>5. \A t : Dispensable(t) => Dispensable(t)'
    BY <2>1 DEF Dispensable
  <2>6. \A t \in Task : t # d => snapshot'[t] = snapshot[t]
    BY <1>0, <1>4 DEF TrimSnapshots, RemoveFiles, RemoveRepo, RemoveDirectory
  <2>7. GoneAreOld'
    <3>1. ToSet(retained) \subseteq Task
      BY DEF Retained, ToSet
    <3>2. QED
      BY <2>1, <2>4, <2>5, <2>6, <3>1 DEF GoneAreOld
  <2>8. \A v \in Worker : pc'[v] = "trim" =>
          pc[v] = "trim" /\ ToSet(victims'[v]) \subseteq ToSet(victims[v])
    <3>1. CASE UNCHANGED <<pc, victims>>
      BY <3>1
    <3>2. CASE /\ victims' = [victims EXCEPT ![w] = Tail(@)]
               /\ IF victims'[w] = <<>> THEN Goto(w, "log") ELSE UNCHANGED pc
      <4>1. victims'[w] = Tail(victims[w]) /\ \A v \in Worker \ {w} : victims'[v] = victims[v]
        BY <1>0, <3>2
      <4>2. \A v \in Worker : pc'[v] = "trim" => pc[v] = "trim"
        BY <1>0, <3>2 DEF Goto
      <4>3. QED
        BY <2>3, <4>1, <4>2
    <3>3. QED
      BY <1>4, <3>1, <3>2 DEF TrimSnapshots, RemoveFiles, RemoveRepo, RemoveDirectory
  <2>9. VictimsAreOld'
    BY <2>5, <2>8 DEF VictimsAreOld
  <2>10. QED
    BY <2>7, <2>9
<1>5. CASE ~RetainSnapshot(w) /\ ~CopySnapshot(w) /\ ~SortSnapshots(w) /\ ~TrimSnapshots(w)
  <2>1. OffDisk(w)
    BY <1>0, <1>5, StepsOffDisk
  <2>2. UNCHANGED <<retained, snapshot>> /\ kills' \in Nat /\ kills <= kills'
    BY <2>1 DEF OffDisk
  <2>3. \A v \in Worker : pc'[v] = "trim" => pc[v] = "trim" /\ victims'[v] = victims[v]
    BY <2>1 DEF OffDisk, AtDisk
  <2>4. \A t \in ToSet(retained) : Dispensable(t) => Dispensable(t)'
    BY <1>0, <2>2, DispensableStays
  <2>5. \A v \in Worker : pc[v] = "trim" => ToSet(victims[v]) \subseteq ToSet(retained)
    BY DEF Listed
  <2>6. QED
    BY <2>2, <2>3, <2>4, <2>5 DEF GoneAreOld, VictimsAreOld
<1>6. QED
  BY <1>1, <1>2, <1>3, <1>4, <1>5

(***************************************************************************)
(* A process that is alone finds what it listed, and removes all of it.    *)
(***************************************************************************)
Bounded ==
  \A w \in Worker : active = {w} =>
    /\ pc[w] = "sort" => victims[w] = dirs
    /\ pc[w] = "trim" => /\ IsInjective(victims[w]) /\ ToSet(victims[w]) \subseteq ToSet(dirs)
                         /\ Len(dirs) = MaxSnapshots + Len(victims[w])
    /\ pc[w] = "log"  => Len(dirs) <= MaxSnapshots

(* The rest of a list without repetition does not have its head. *)
LEMMA TailWithoutHead ==
  ASSUME NEW S, NEW s \in Seq(S), s # <<>>, IsInjective(s)
  PROVE  /\ IsInjective(Tail(s)) /\ ToSet(Tail(s)) \subseteq ToSet(s) \ {Head(s)}
         /\ Head(s) \in ToSet(s) /\ Len(Tail(s)) = Len(s) - 1
<1>1. /\ 1 \in DOMAIN s /\ Head(s) = s[1] /\ Len(Tail(s)) = Len(s) - 1
       /\ \A i \in DOMAIN Tail(s) :
            Tail(s)[i] = s[i + 1] /\ i + 1 \in DOMAIN s /\ i + 1 # 1 /\ i \in Nat
  OBVIOUS
<1> DEFINE t == Tail(s)
<1> HIDE DEF t
<1>2. /\ 1 \in DOMAIN s /\ Head(s) = s[1] /\ Len(t) = Len(s) - 1
      /\ \A i \in DOMAIN t : t[i] = s[i + 1] /\ i + 1 \in DOMAIN s /\ i + 1 # 1 /\ i \in Nat
  BY <1>1 DEF t
<1>3. IsInjective(t)
  <2>1. SUFFICES ASSUME NEW i \in DOMAIN t, NEW j \in DOMAIN t, t[i] = t[j]
                 PROVE  i = j
    BY DEF IsInjective
  <2>2. i + 1 = j + 1 /\ i \in Nat /\ j \in Nat
    BY <1>2, <2>1 DEF IsInjective
  <2>3. QED
    BY <2>2
<1>4. ToSet(t) \subseteq ToSet(s) \ {Head(s)}
  <2>1. SUFFICES ASSUME NEW i \in DOMAIN t
                 PROVE  t[i] \in ToSet(s) /\ t[i] # Head(s)
    BY DEF ToSet
  <2>2. QED
    BY <1>2 DEF ToSet, IsInjective
<1>5. Head(s) \in ToSet(s)
  BY <1>2 DEF ToSet
<1>6. QED
  BY <1>2, <1>3, <1>4, <1>5 DEF t

(* A step of a process that is alone keeps its account of the directory. *)
LEMMA BoundedNext ==
  ASSUME Shape, Rows, Retained, Present, InOrder, Listed, Bounded, NEW w \in active,
         PlannerFails(w) \/ Plan(w) \/ Work(w) \/ Kill(w), UNCHANGED active
  PROVE  Bounded'
<1>0. /\ w \in Worker /\ MaxSnapshots \in Nat
      /\ pc \in [Worker -> Phase] /\ victims = [v \in Worker |-> victims[v]]
      /\ snapshot \in [Task -> Held]
  BY ControlLoopAssumption DEF Shape, TasksOK, RoundsOK, FilesOK, ControlLoopAssumption
<1>1. SUFFICES ASSUME active = {w}
               PROVE  /\ pc'[w] = "sort" => victims'[w] = dirs'
                      /\ pc'[w] = "trim" =>
                           /\ IsInjective(victims'[w]) /\ ToSet(victims'[w]) \subseteq ToSet(dirs')
                           /\ Len(dirs') = MaxSnapshots + Len(victims'[w])
                      /\ pc'[w] = "log"  => Len(dirs') <= MaxSnapshots
  BY DEF Bounded
<1>2. CASE RetainSnapshot(w)
  <2>1. pc'[w] = "copy"
    BY <1>0, <1>2 DEF RetainSnapshot, Goto
  <2>2. QED
    BY <2>1
<1>3. CASE CopySnapshot(w)
  <2>1. /\ UNCHANGED dirs
        /\ \/ Len(dirs) <= MaxSnapshots /\ pc'[w] = "log"
           \/ pc'[w] = "sort" /\ victims'[w] = dirs
    BY <1>0, <1>3 DEF CopySnapshot, Goto
  <2>2. QED
    BY <2>1
<1>4. CASE SortSnapshots(w)
  <2>1. PICK listed \in [DOMAIN victims[w] -> ToSet(victims[w])] :
          /\ Sorted(listed)
          /\ victims' = [victims EXCEPT ![w] = Oldest(listed)]
    BY <1>4 DEF SortSnapshots
  <2>2. pc[w] = "sort" /\ pc'[w] = "trim" /\ UNCHANGED dirs
    BY <1>0, <1>4 DEF SortSnapshots, store, disk, Goto
  <2>3. victims[w] = dirs /\ dirs \in Seq(Task) /\ Len(dirs) > MaxSnapshots
    <3>1. victims[w] = dirs
      BY <1>0, <1>1, <2>2 DEF Bounded
    <3>2. Len(victims[w]) > MaxSnapshots
      BY <1>0, <2>2 DEF Listed
    <3>3. QED
      BY <3>1, <3>2 DEF Present
  <2> DEFINE n == Len(dirs)
             old == Oldest(listed)
  <2>4. n \in Nat /\ n > MaxSnapshots /\ DOMAIN dirs = 1 .. n
    BY <2>3
  <2>5. listed \in [1 .. n -> ToSet(dirs)]
    BY <2>1, <2>3, <2>4
  <2> HIDE DEF n, old
  <2>6. AreOldest(old, listed, n, ToSet(dirs))
    BY <2>4, <2>5, WhatIsOld DEF old
  <2>7. \A i, j \in 1 .. n : listed[i] = listed[j] => i = j
    <3>1. DOMAIN listed = 1 .. n
      BY <2>5
    <3>2. QED
      BY <2>1, <2>4, <3>1, SortedIsInjective
  <2>8. victims'[w] = old
    BY <1>0, <2>1 DEF old
  <2>9. /\ DOMAIN old = 1 .. n - MaxSnapshots
        /\ \A p \in DOMAIN old : p \in 1 .. n /\ old[p] \in ToSet(dirs)
    BY <1>0, <2>4, <2>6 DEF AreOldest
  <2>10. IsInjective(old)
    BY <2>6, <2>7, <2>9 DEF IsInjective, AreOldest
  <2>11. ToSet(old) \subseteq ToSet(dirs)
    BY <2>9 DEF ToSet
  <2>12. n = MaxSnapshots + Len(old)
    BY <1>0, <2>4, <2>6 DEF AreOldest
  <2>13. QED
    BY <2>2, <2>8, <2>10, <2>11, <2>12 DEF n
<1>5. CASE TrimSnapshots(w)
  <2> DEFINE vs == victims[w]
             d == Head(vs)
  <2>1. /\ pc[w] = "trim" /\ IsInjective(vs) /\ ToSet(vs) \subseteq ToSet(dirs)
        /\ Len(dirs) = MaxSnapshots + Len(vs) /\ vs \in Seq(Task) /\ vs # <<>>
    BY <1>0, <1>1, <1>5 DEF TrimSnapshots, Bounded, Listed
  <2>2. /\ IsInjective(Tail(vs)) /\ ToSet(Tail(vs)) \subseteq ToSet(vs) \ {d}
        /\ d \in ToSet(vs) /\ Len(Tail(vs)) = Len(vs) - 1
    BY <2>1, TailWithoutHead
  <2>3. dirs \in Seq(Task) /\ IsInjective(dirs) /\ d \in ToSet(dirs) /\ d \in Task
    BY <2>1, <2>2 DEF Present
  <2> DEFINE r == RemoveFirst(dirs, d)
  <2>4. r \in Seq(Task) /\ Len(r) = Len(dirs) - 1 /\ ToSet(r) = ToSet(dirs) \ {d}
    BY <2>3, RemoveFirstKeepsOrder
  <2>5. CASE RemoveFiles(w, d)
    <3>1. UNCHANGED <<pc, dirs, victims>>
      BY <2>5 DEF RemoveFiles
    <3>2. QED
      BY <2>1, <3>1
  <2>6. CASE RemoveRepo(w, d)
    <3>1. UNCHANGED <<pc, victims>> /\ dirs' = Append(r, d)
      BY <2>6 DEF RemoveRepo
    <3> HIDE DEF r
    <3>2. Len(dirs) \in Nat /\ Len(dirs') = Len(dirs)
      <4>1. Len(dirs) \in Nat /\ Len(Append(r, d)) = Len(r) + 1
        BY <2>3, <2>4
      <4>2. QED
        BY <2>4, <3>1, <4>1 DEF r
    <3>3. ToSet(dirs) \subseteq ToSet(dirs')
      <4>1. /\ \A i \in DOMAIN r : i \in DOMAIN Append(r, d) /\ Append(r, d)[i] = r[i]
            /\ Len(r) + 1 \in DOMAIN Append(r, d) /\ Append(r, d)[Len(r) + 1] = d
        BY <2>3, <2>4
      <4>2. ToSet(r) \cup {d} \subseteq ToSet(Append(r, d))
        BY <4>1 DEF ToSet
      <4>3. QED
        BY <2>4, <3>1, <4>2
    <3>4. QED
      BY <2>1, <3>1, <3>2, <3>3
  <2>7. CASE RemoveDirectory(w, d)
    <3>1. /\ victims'[w] = Tail(vs) /\ dirs' = r
          /\ IF victims'[w] = <<>> THEN Goto(w, "log") ELSE UNCHANGED pc
      BY <1>0, <2>7 DEF RemoveDirectory
    <3>2. /\ ToSet(Tail(vs)) \subseteq ToSet(dirs')
          /\ Len(dirs') = MaxSnapshots + Len(Tail(vs))
      <4>1. Len(vs) \in Nat /\ Len(dirs) \in Nat
        BY <2>1, <2>3
      <4>2. Len(r) = MaxSnapshots + Len(Tail(vs))
        BY <1>0, <2>1, <2>2, <2>4, <4>1
      <4>3. QED
        BY <2>1, <2>2, <2>4, <3>1, <4>2
    <3>3. CASE Tail(vs) = <<>>
      <4>1. pc'[w] = "log"
        BY <1>0, <3>1, <3>3 DEF Goto
      <4>2. Len(dirs') = MaxSnapshots + Len(<<>>)
        BY <3>2, <3>3
      <4>3. QED
        BY <1>0, <4>1, <4>2
    <3>4. CASE Tail(vs) # <<>>
      <4>1. pc'[w] = "trim"
        BY <2>1, <3>1, <3>4
      <4>2. QED
        BY <2>2, <3>1, <3>2, <4>1
    <3>5. QED
      BY <3>3, <3>4
  <2>8. QED
    BY <1>5, <2>5, <2>6, <2>7 DEF TrimSnapshots
<1>6. CASE ~RetainSnapshot(w) /\ ~CopySnapshot(w) /\ ~SortSnapshots(w) /\ ~TrimSnapshots(w)
  <2>1. OffDisk(w)
    BY <1>0, <1>6, StepsOffDisk
  <2>2. UNCHANGED dirs
    BY <2>1 DEF OffDisk
  <2>3. pc'[w] \in AtDisk => pc[w] = pc'[w] /\ victims[w] = victims'[w]
    BY <1>0, <2>1 DEF OffDisk
  <2>4. QED
    BY <1>0, <1>1, <2>2, <2>3 DEF Bounded, AtDisk
<1>7. QED
  BY <1>2, <1>3, <1>4, <1>5, <1>6

(* Initially a process that is alone has nothing to account for. *)
LEMMA BoundedInit ==
  ASSUME Init
  PROVE  Bounded
BY DEF Init, Bounded

(***************************************************************************)
(* The tables hold what their columns may hold, and of a task either a     *)
(* pruned branch or outcomes alone.                                        *)
(***************************************************************************)
Stored ==
  /\ outcomes \subseteq logged \ DOMAIN reservoir
  /\ \A w \in Worker : pc[w] \in BeforeRow => task[w] \notin outcomes
  /\ \A t \in DOMAIN reservoir : reservoir[t] \in Reason
  /\ tainted \cup skipped \subseteq Task
  /\ visited \cup cut \subseteq 0 .. MaxTasks
  /\ kills <= MaxKills

(* Initially nothing is stored. *)
LEMMA StoredInit ==
  ASSUME Init
  PROVE  Stored
<1>1. reservoir = <<>> /\ outcomes = {} /\ tainted = {} /\ skipped = {} /\ visited = {} /\ cut = {}
  BY DEF Init
<1>2. DOMAIN reservoir = {} /\ \A w \in Worker : pc[w] = "idle"
  BY <1>1 DEF Init
<1>3. kills <= MaxKills
  BY ControlLoopAssumption DEF Init, ControlLoopAssumption
<1>4. QED
  BY <1>1, <1>2, <1>3 DEF Stored, BeforeRow

(* A count of tasks is one of at most MaxTasks. *)
LEMMA CountsAreBounded ==
  ASSUME logged \subseteq Task, visited \cup cut \subseteq 0 .. MaxTasks,
         NEW counts \in {visited, cut}
  PROVE  Noting(counts) \subseteq 0 .. MaxTasks
<1>1. MaxTasks \in Nat
  BY ControlLoopAssumption DEF ControlLoopAssumption
<1>2. Cardinality(Task) = MaxTasks /\ IsFiniteSet(Task)
  <2>1. IsFiniteSet(Task) /\ Cardinality(Task) = IF 1 > MaxTasks THEN 0 ELSE MaxTasks - 1 + 1
    BY <1>1, FS_Interval DEF Task
  <2>2. QED
    BY <1>1, <2>1
<1>3. Cardinality(logged) \in Nat /\ Cardinality(logged) <= MaxTasks
  <2>1. IsFiniteSet(logged) /\ Cardinality(logged) <= Cardinality(Task)
    BY <1>2, FS_Subset
  <2>2. Cardinality(logged) \in Nat
    BY <2>1, FS_CardinalityType
  <2>3. QED
    BY <1>2, <2>1, <2>2
<1>4. count_tasks \in 0 .. MaxTasks
  BY <1>1, <1>3 DEF count_tasks
<1>5. QED
  BY <1>4 DEF Noting

(* A step of a process stores what may be stored. *)
LEMMA StoredNext ==
  ASSUME Shape, Rows, Stored, NEW w \in Worker,
         PlannerFails(w) \/ Plan(w) \/ Work(w) \/ Kill(w), UNCHANGED active
  PROVE  Stored'
<1>0. Noting(visited) \subseteq 0 .. MaxTasks /\ Noting(cut) \subseteq 0 .. MaxTasks
  BY CountsAreBounded DEF Stored, Shape, FilesOK
<1> USE DEF Shape, TasksOK, RoundsOK, FilesOK, Rows, BeforeRow, Phase, Task, Stored,
        Goto, Return, Leave, Rest, store, disk, tables, notes, past
<1>1. CASE PlannerFails(w)
  BY <1>1 DEF PlannerFails
<1>2. CASE Plan(w)
  <2>1. /\ pc[w] = "idle" /\ task' = [task EXCEPT ![w] = started + 1] /\ Goto(w, "retain")
        /\ UNCHANGED <<outcomes, reservoir, tainted, skipped, visited, cut, kills>>
        /\ logged \subseteq logged'
    BY <1>2 DEF Plan
  <2>2. started + 1 \notin outcomes
    OBVIOUS
  <2>3. QED
    BY <2>1, <2>2
<1>3. CASE RetainSnapshot(w)
  BY <1>3 DEF RetainSnapshot
<1>4. CASE CopySnapshot(w)
  <2>1. /\ pc[w] = "copy" /\ (Goto(w, "log") \/ Goto(w, "sort"))
        /\ UNCHANGED <<task, outcomes, logged, reservoir, tainted, skipped, visited, cut, kills>>
    BY <1>4 DEF CopySnapshot
  <2>2. QED
    BY <2>1
<1>5. CASE CopyRaises(w)
  BY <1>0, <1>5 DEF CopyRaises
<1>6. CASE SortSnapshots(w)
  BY <1>6 DEF SortSnapshots
<1>7. CASE StatRaises(w)
  BY <1>0, <1>7 DEF StatRaises
<1>8. CASE TrimSnapshots(w)
  <2>1. /\ pc[w] = "trim" /\ (pc' = pc \/ Goto(w, "log"))
        /\ UNCHANGED <<task, outcomes, logged, reservoir, tainted, skipped, visited, cut, kills>>
    BY <1>8 DEF TrimSnapshots, RemoveFiles, RemoveRepo, RemoveDirectory
  <2>2. QED
    BY <2>1
<1>9. CASE LogPruned(w)
  <2>1. /\ pc[w] = "log" /\ Goto(w, "controls") /\ task[w] \in logged
        /\ UNCHANGED <<task, outcomes, logged, tainted, skipped, visited, cut, kills>>
    BY <1>9 DEF LogPruned
  <2>2. PICK why \in Reason :
          reservoir' = [t \in DOMAIN reservoir \cup {task[w]} |->
                          IF t = task[w] THEN why ELSE reservoir[t]]
    BY <1>9 DEF LogPruned
  <2>3. DOMAIN reservoir' = DOMAIN reservoir \cup {task[w]} /\ task[w] \notin outcomes
    BY <2>1, <2>2
  <2>4. \A t \in DOMAIN reservoir' : reservoir'[t] \in Reason
    BY <2>2
  <2>5. outcomes' \subseteq logged' \ DOMAIN reservoir'
    BY <2>1, <2>3
  <2>6. \A v \in Worker :
          pc'[v] \in {"retain", "copy", "sort", "trim", "log"} => task'[v] \notin outcomes'
    BY <2>1
  <2>7. QED
    BY <2>1, <2>4, <2>5, <2>6
<1>10. CASE LogNothing(w)
  <2>1. /\ pc[w] = "log" /\ Goto(w, "controls") /\ outcomes' = outcomes \cup ({task[w]} \cap logged)
        /\ UNCHANGED <<task, logged, reservoir, tainted, skipped, visited, cut, kills>>
    BY <1>10 DEF LogNothing
  <2>2. outcomes' \subseteq logged' \ DOMAIN reservoir'
    BY <2>1
  <2>3. \A v \in Worker : pc'[v] \in {"retain", "copy", "sort", "trim", "log"} =>
          task'[v] \notin outcomes'
    BY <2>1
  <2>4. QED
    BY <2>1, <2>2, <2>3
<1>11. CASE TaskRaises(w)
  BY <1>0, <1>11 DEF TaskRaises
<1>12. CASE StartRound(w)
  <2>1. /\ pc[w] = "controls" /\ Goto(w, "count") /\ visited' = Noting(visited)
        /\ UNCHANGED <<task, outcomes, logged, reservoir, tainted, skipped, cut, kills>>
    BY <1>12 DEF StartRound
  <2>2. QED
    BY <1>0, <2>1
<1>13. CASE NoRound(w)
  BY <1>0, <1>13 DEF NoRound
<1>14. CASE CountReservoir(w)
  <2>1. pc[w] = "count" /\ (Return(w) \/ (Goto(w, "sample") /\ task' = task))
    BY <1>14, CountEnds
  <2>2. UNCHANGED <<outcomes, logged, reservoir, tainted, skipped, visited, cut, kills>>
    BY <1>14 DEF CountReservoir
  <2>3. QED
    BY <2>1, <2>2
<1>15. CASE SampleRows(w)
  <2>1. pc[w] = "sample" /\ (Return(w) \/ (Goto(w, "audit") /\ task' = task))
    BY <1>15, SampleEnds
  <2>2. UNCHANGED <<outcomes, logged, reservoir, tainted, skipped, visited, cut, kills>>
    BY <1>15 DEF SampleRows
  <2>3. QED
    BY <2>1, <2>2
<1>16. CASE SkipReplay(w)
  BY <1>16 DEF SkipReplay, Auditing
<1>17. CASE Replay(w)
  BY <1>17 DEF Replay, Auditing
<1>18. CASE ReplayRaises(w)
  BY <1>18 DEF ReplayRaises, Auditing
<1>19. CASE Mark(w)
  <2>1. pc[w] = "mark" /\ (Return(w) \/ (Goto(w, "audit") /\ task' = task))
    BY <1>19, MarkEnds
  <2>2. UNCHANGED <<outcomes, logged, reservoir, tainted, skipped, visited, cut, kills>>
    BY <1>19 DEF Mark, EndRow
  <2>3. QED
    BY <2>1, <2>2
<1>20. CASE Kill(w)
  <2>1. kills' = kills + 1 /\ kills < MaxKills /\ MaxKills \in Nat
    BY <1>20, ControlLoopAssumption DEF Kill, ControlLoopAssumption
  <2>2. kills' <= MaxKills
    BY <2>1
  <2>3. /\ cut' = Noting(cut) /\ Return(w)
        /\ UNCHANGED <<outcomes, logged, reservoir, tainted, skipped, visited>>
    BY <1>20 DEF Kill
  <2>4. QED
    BY <1>0, <2>2, <2>3
<1>21. QED
  BY <1>1, <1>2, <1>3, <1>4, <1>5, <1>6, <1>7, <1>8, <1>9, <1>10, <1>11, <1>12, <1>13, <1>14,
     <1>15, <1>16, <1>17, <1>18, <1>19, <1>20 DEF Work

(***************************************************************************)
(* What holds of the audit directory in every reachable state.             *)
(***************************************************************************)
Directory ==
  /\ Retained /\ Present /\ InOrder /\ Listed
  /\ HusksAreFew /\ GoneAreOld /\ VictimsAreOld
  /\ Bounded /\ Stored

(* It holds initially. *)
LEMMA DirectoryInitially ==
  ASSUME Init
  PROVE  Directory
BY RetainedInit, DirectoryInit, HusksInit, OldInit, BoundedInit, StoredInit DEF Directory

(* Every step keeps it, given what IInv says of tasks and rows. *)
LEMMA DirectoryNext ==
  ASSUME IInv, Directory, [Next]_<<active, vars>>
  PROVE  Directory'
<1> USE DEF IInv, Directory
<1>1. CASE Next
  <2>1. UNCHANGED active
    BY <1>1 DEF Next
  <2>2. PICK w \in active : PlannerFails(w) \/ Plan(w) \/ Work(w) \/ Kill(w)
    BY <1>1 DEF Next
  <2>3. w \in Worker
    BY <2>2 DEF Shape, TasksOK
  <2>4. Retained'
    BY <2>1, <2>2, <2>3, RetainedNext
  <2>5. Present' /\ InOrder'
    BY <2>1, <2>2, <2>3, OrderNext
  <2>6. Listed'
    BY <2>1, <2>2, <2>3, ListedNext
  <2>7. HusksAreFew'
    BY <2>1, <2>2, HusksNext
  <2>8. GoneAreOld' /\ VictimsAreOld'
    BY <2>1, <2>2, OldNext
  <2>9. Bounded'
    BY <2>1, <2>2, BoundedNext
  <2>10. Stored'
    BY <2>1, <2>2, <2>3, StoredNext
  <2>11. QED
    BY <2>4, <2>5, <2>6, <2>7, <2>8, <2>9, <2>10
<1>2. CASE UNCHANGED <<active, vars>>
  <2>1. UNCHANGED <<active, pc, task, victims, started, retained, dirs, snapshot, logged, outcomes,
                    reservoir, tainted, skipped, visited, cut, kills>>
    BY <1>2 DEF vars, store, disk, tables, notes, past
  <2>2. Retained' /\ Present' /\ InOrder' /\ Listed'
    BY <2>1 DEF Retained, Present, InOrder, Older, Begun, Listed
  <2>3. HusksAreFew' /\ GoneAreOld' /\ VictimsAreOld'
    BY <2>1 DEF HusksAreFew, Orphans, GoneAreOld, VictimsAreOld, Dispensable
  <2>4. Bounded' /\ Stored'
    BY <2>1 DEF Bounded, Stored
  <2>5. QED
    BY <2>2, <2>3, <2>4
<1>3. QED
  BY <1>1, <1>2

(* The invariant of the audit directory holds in every reachable state. *)
THEOREM DirectoryInvariant == Spec => [](IInv /\ Directory)
<1>1. Init => IInv /\ Directory
  BY IInvInit, DirectoryInitially
<1>2. IInv /\ Directory /\ [Next]_<<active, vars>> => IInv' /\ Directory'
  BY IInvNext, DirectoryNext
<1>3. QED
  BY <1>1, <1>2, PTL DEF Spec

(* The audit directory holds what a recent audit needs, and not much more:   *)
(* however processes interleave and die, _prune_old_snapshots only takes a   *)
(* snapshot with enough later ones, no row is without its snapshot having    *)
(* been taken, and a process that is alone ends under the cap.               *)
THEOREM RecentSnapshotsAreKept == Spec => []SnapshotsAreKept
<1>1. IInv /\ Directory => SnapshotsAreKept
  <2>1. SUFFICES ASSUME IInv, Directory PROVE SnapshotsAreKept
    OBVIOUS
  <2>2. TypeOK
    <3>1. /\ active \subseteq Worker
          /\ pc \in [Worker -> {"idle", "retain", "copy", "sort", "trim", "log",
                                "controls", "count", "sample", "audit", "mark"}]
          /\ task \in [Worker -> 0 .. MaxTasks] /\ row \in [Worker -> 0 .. MaxTasks]
          /\ todo \in [Worker -> SUBSET Task] /\ limit \in [Worker -> Nat]
          /\ started \in 0 .. MaxTasks /\ audits \in [Task -> Nat]
          /\ snapshot \in [Task -> {"none", "copying", "whole", "torn", "husk"}]
          /\ logged \subseteq Task /\ DOMAIN reservoir \subseteq logged
      BY <2>1 DEF IInv, Shape, TasksOK, RoundsOK, FilesOK, Phase, Held
    <3>2. \A w \in Worker : ToSet(victims[w]) \subseteq Task
      <4>1. \A w \in Worker : victims[w] \in Seq(Task)
        BY <2>1 DEF Directory, Listed
      <4>2. QED
        BY <4>1 DEF ToSet
    <3>3. ToSet(retained) \subseteq Task
      BY <2>1 DEF Directory, Retained, ToSet
    <3>4. ToSet(dirs) = {t \in Task : snapshot[t] # "none"} /\ IsInjective(dirs)
      BY <2>1 DEF Directory, Present
    <3>5. kills \in 0 .. MaxKills
      BY <2>1, ControlLoopAssumption
         DEF IInv, Shape, TasksOK, Directory, Stored, ControlLoopAssumption
    <3>6. /\ outcomes \subseteq logged \ DOMAIN reservoir
          /\ \A t \in DOMAIN reservoir : reservoir[t] \in Reason
          /\ tainted \cup skipped \subseteq Task /\ visited \cup cut \subseteq 0 .. MaxTasks
      BY <2>1 DEF Directory, Stored
    <3>7. sampled \subseteq DOMAIN reservoir /\ missed \subseteq DOMAIN reservoir
      BY <2>1 DEF IInv, Audited
    <3>8. missed \cup tainted \cup skipped \subseteq Task
      BY <3>1, <3>6, <3>7
    <3>9. QED
      BY <3>1, <3>2, <3>3, <3>4, <3>5, <3>6, <3>7, <3>8 DEF TypeOK
  <2>3. RecentTasksAreReplayable
    <3>1. DOMAIN reservoir \subseteq ToSet(retained)
      BY <2>1 DEF Directory, Retained
    <3>2. ASSUME NEW i \in DOMAIN retained, snapshot[retained[i]] \notin {"copying", "whole"}
          PROVE  i <= Len(retained) - MaxSnapshots + kills + Cardinality(active) - 1
      <4>1. retained[i] \in ToSet(retained)
        BY DEF ToSet
      <4>2. QED
        BY <2>1, <3>2, <4>1 DEF Directory, GoneAreOld, Dispensable
    <3>3. /\ Len(retained) \in Nat /\ MaxSnapshots \in Nat /\ kills \in Nat
          /\ DOMAIN retained = 1 .. Len(retained)
      BY <2>1, ControlLoopAssumption
         DEF IInv, Shape, TasksOK, Directory, Retained, ControlLoopAssumption
    <3>4. Cardinality(active) \in Nat
      BY <2>1, SomeProcesses DEF IInv, Shape, TasksOK
    <3>5. ASSUME NEW i \in DOMAIN retained,
                 i > Len(retained) - MaxSnapshots + kills + Cardinality(active) - 1
          PROVE  snapshot[retained[i]] \in {"copying", "whole"}
      BY <3>2, <3>3, <3>4, <3>5
    <3>6. QED
      BY <3>1, <3>5 DEF RecentTasksAreReplayable
  <2>4. SnapshotsAreBounded
    BY <2>1 DEF Directory, Bounded, SnapshotsAreBounded
  <2>5. QED
    BY <2>2, <2>3, <2>4 DEF SnapshotsAreKept
<1>2. QED
  BY <1>1, DirectoryInvariant, PTL

(***************************************************************************)
(* What a step of the control loop may do to the tables and to snapshots   *)
(* that were begun: they only ever get less, and tables only ever more.    *)
(***************************************************************************)
Ages(w) ==
  /\ \A t \in Task : audits[t] <= audits'[t]
  /\ ToSet(retained) \subseteq ToSet(retained')
  /\ outcomes' = outcomes \/ (pc[w] = "log" /\ outcomes' \subseteq outcomes \cup {task[w]})
  /\ outcomes \subseteq outcomes'
  /\ \A t \in ToSet(retained) \cap Task :
       /\ snapshot'[t] = "copying" => snapshot[t] = "copying"
       /\ snapshot[t] = "whole" => snapshot'[t] \in {"whole", "torn"}
       /\ RepoExists(t)' => RepoExists(t)

(* Every step of a process does no more than that. *)
LEMMA StepsAge ==
  ASSUME Shape, Rows, Retained, NEW w \in Worker,
         PlannerFails(w) \/ Plan(w) \/ Work(w) \/ Kill(w), UNCHANGED active
  PROVE  Ages(w)
<1> USE DEF Shape, FilesOK, RepoExists
<1>1. CASE RetainSnapshot(w)
  <2>1. /\ task[w] \notin ToSet(retained)
        /\ ToSet(retained') = ToSet(retained) \cup {task[w]}
    BY <1>1, RetainAppends DEF Extends
  <2>2. /\ snapshot' = [snapshot EXCEPT ![task[w]] = "copying"]
        /\ UNCHANGED <<audits, outcomes>>
    BY <1>1 DEF RetainSnapshot, tables
  <2>3. \A t \in ToSet(retained) \cap Task : snapshot'[t] = snapshot[t]
    BY <2>1, <2>2
  <2>4. QED
    BY <2>1, <2>2, <2>3 DEF Ages
<1>2. CASE CopySnapshot(w)
  <2>1. /\ snapshot[task[w]] = "copying"
        /\ snapshot' = [snapshot EXCEPT ![task[w]] = "whole"]
        /\ UNCHANGED <<audits, outcomes, retained>>
    BY <1>2 DEF CopySnapshot, tables
  <2>2. QED
    BY <2>1 DEF Ages
<1>3. CASE TrimSnapshots(w)
  <2>1. UNCHANGED <<audits, outcomes, retained>>
    BY <1>3 DEF TrimSnapshots, tables
  <2>2. \A t \in Task :
          \/ snapshot'[t] = snapshot[t]
          \/ snapshot[t] \in {"copying", "whole"} /\ snapshot'[t] = "torn"
          \/ snapshot'[t] \in {"husk", "none"} /\ snapshot[t] # "whole"
    BY <1>3 DEF TrimSnapshots, RemoveFiles, RemoveRepo, RemoveDirectory
  <2>3. QED
    BY <2>1, <2>2 DEF Ages
<1>4. CASE ~RetainSnapshot(w) /\ ~CopySnapshot(w) /\ ~TrimSnapshots(w)
  <2>1. UNCHANGED <<retained, snapshot>>
    BY <1>4, StepsOffDisk DEF OffDisk, SortSnapshots, store, disk
  <2>2. /\ \A t \in Task : audits[t] <= audits'[t]
        /\ outcomes' = outcomes \/ (pc[w] = "log" /\ outcomes' \subseteq outcomes \cup {task[w]})
        /\ outcomes \subseteq outcomes'
    <3>1. CASE LogNothing(w)
      BY <3>1 DEF LogNothing
    <3>2. CASE Replay(w)
      <4>1. UNCHANGED outcomes /\ \E r \in todo[w] : audits' = [audits EXCEPT ![r] = @ + 1]
        BY <3>2 DEF Replay
      <4>2. QED
        BY <4>1
    <3>3. CASE ~LogNothing(w) /\ ~Replay(w)
      <4>1. UNCHANGED <<audits, outcomes>>
        BY <1>4, <3>3
           DEF Work, PlannerFails, Plan, CopyRaises, SortSnapshots, StatRaises, LogPruned,
               TaskRaises, StartRound, NoRound, CountReservoir, SampleRows, SkipReplay,
               ReplayRaises, Mark, EndRow, Kill,
               store, tables
      <4>2. QED
        BY <4>1
    <3>4. QED
      BY <3>1, <3>2, <3>3
  <2>3. QED
    BY <2>1, <2>2 DEF Ages
<1>5. QED
  BY <1>1, <1>2, <1>3, <1>4

(***************************************************************************)
(* A task with outcomes alone has its snapshot, complete, from before.     *)
(***************************************************************************)
Executed == \A t \in outcomes : t \in ToSet(retained) /\ snapshot[t] # "copying"

(* A step of a process keeps that: outcomes are logged after the copy. *)
LEMMA ExecutedNext ==
  ASSUME Shape, Rows, Snapshots, Retained, Stored, Executed, NEW w \in Worker, Ages(w)
  PROVE  Executed'
<1>1. SUFFICES ASSUME NEW t \in outcomes'
               PROVE  t \in ToSet(retained') /\ snapshot'[t] # "copying"
  BY DEF Executed
<1>2. t \in ToSet(retained) /\ snapshot[t] # "copying"
  <2>1. CASE t \in outcomes
    BY <2>1 DEF Executed
  <2>2. CASE pc[w] = "log" /\ t = task[w]
    BY <2>2 DEF Snapshots, Retained, AtDisk
  <2>3. QED
    BY <1>1, <2>1, <2>2 DEF Ages
<1>3. t \in Task
  BY <1>2 DEF Retained, ToSet
<1>4. QED
  BY <1>2, <1>3 DEF Ages

(***************************************************************************)
(* The harvest.  What it has asked for was executed or re-executed, and it *)
(* makes at most one example of each row.                                  *)
(***************************************************************************)
HarvestOK ==
  /\ hpc \in {"off", "ready", "rows", "copy", "done", "raised"}
  /\ asked \in [Task -> Nat] /\ rows \in [Task -> Nat] /\ examples \in [Task -> Nat]
  /\ disturbed \in BOOLEAN
  /\ hpc \in {"off", "ready"} =>
       asked = NoRows /\ rows = NoRows /\ examples = NoRows /\ blurred = {}
  /\ hpc = "copy" => at \in Task /\ rows[at] > 0
  /\ hpc = "done" => rows = NoRows

Asked ==
  \A t \in Task :
    /\ asked[t] > 0 => t \in outcomes \/ audits[t] > 0
    /\ asked[t] <= 1 \/ asked[t] <= audits[t]
    /\ examples[t] + rows[t] <= asked[t]

(* As long as no removal is under way, what there was of a snapshot stays as *)
(* it was, and no row whose snapshot there is has been passed over.          *)
Undisturbed ==
  ~disturbed =>
    /\ hpc # "raised" /\ blurred = {}
    /\ hpc \in {"rows", "copy"} => \A t \in Task : snapshot[t] # "torn"
    /\ hpc = "copy" => asked[at] > 0 /\ snapshot[at] = "whole"
    /\ \A t \in Task : asked[t] > 0 =>
         /\ t \in ToSet(retained) /\ snapshot[t] # "copying"
         /\ RepoExists(t) => examples[t] + rows[t] = asked[t]

HInv == HarvestOK /\ Asked /\ Undisturbed

(* Initially nothing has been asked. *)
LEMMA HInvInit ==
  ASSUME Init, HarvestInit
  PROVE  Executed /\ HInv
<1>1. /\ NoRows \in [Task -> Nat] /\ \A t \in Task : NoRows[t] = 0
      /\ hpc \in {"off", "ready"} /\ asked = NoRows /\ rows = NoRows /\ examples = NoRows
      /\ blurred = {} /\ disturbed = FALSE /\ outcomes = {}
  BY DEF Init, HarvestInit, NoRows
<1>2. HarvestOK /\ Executed
  BY <1>1 DEF HarvestOK, Executed
<1>3. Asked /\ Undisturbed
  BY <1>1 DEF Asked, Undisturbed
<1>4. QED
  BY <1>2, <1>3 DEF HInv

(* A step of a process beside the harvest. *)
LEMMA BesideNext ==
  ASSUME Shape, Shape', Retained, HInv, NEW w \in Worker, Ages(w), Beside
  PROVE  HInv'
<1>1. UNCHANGED <<hpc, asked, rows, at, examples, blurred>>
  BY DEF Beside
<1>2. HarvestOK'
  BY <1>1 DEF HInv, HarvestOK, Beside
<1>3. Asked'
  <2>1. ASSUME NEW t \in Task
        PROVE  /\ asked'[t] > 0 => t \in outcomes' \/ audits'[t] > 0
               /\ asked'[t] <= 1 \/ asked'[t] <= audits'[t]
    <3>1. audits[t] \in Nat /\ audits[t] <= audits'[t] /\ outcomes \subseteq outcomes'
      BY DEF Ages, Shape, FilesOK
    <3>2. asked[t] \in Nat /\ asked'[t] = asked[t]
      BY <1>1 DEF HInv, HarvestOK
    <3>3. /\ asked[t] > 0 => t \in outcomes \/ audits[t] > 0
          /\ asked[t] <= 1 \/ asked[t] <= audits[t]
      BY DEF HInv, Asked
    <3>4. audits'[t] \in Nat
      BY DEF Shape, FilesOK
    <3>5. QED
      BY <3>1, <3>2, <3>3, <3>4
  <2>2. QED
    BY <1>1, <2>1 DEF HInv, Asked
<1>4. Undisturbed'
  <2>1. SUFFICES ASSUME ~disturbed' PROVE Undisturbed'
    BY DEF Undisturbed
  <2>2. ~disturbed /\ (hpc \in {"rows", "copy"} => \A t \in Task : snapshot'[t] # "torn")
    BY <2>1 DEF Beside
  <2>3. Undisturbed /\ HarvestOK
    BY DEF HInv
  <2>4. ASSUME NEW t \in Task, asked[t] > 0
        PROVE  /\ t \in ToSet(retained') /\ snapshot'[t] # "copying"
               /\ RepoExists(t)' => examples[t] + rows[t] = asked[t]
               /\ snapshot[t] = "whole" => snapshot'[t] \in {"whole", "torn"}
    BY <2>2, <2>3, <2>4 DEF Undisturbed, Ages
  <2>5. hpc = "copy" => asked[at] > 0 /\ snapshot'[at] = "whole"
    BY <2>2, <2>3, <2>4 DEF Undisturbed, HarvestOK
  <2>6. QED
    BY <1>1, <2>2, <2>3, <2>4, <2>5 DEF Undisturbed
<1>5. QED
  BY <1>2, <1>3, <1>4 DEF HInv

(* A step of the harvest. *)
LEMMA HarvestNext ==
  ASSUME IInv, Directory, Executed, HInv, Harvest, UNCHANGED <<active, vars>>
  PROVE  HInv'
<1>1. /\ UNCHANGED <<retained, snapshot, outcomes, audits>>
      /\ \A t \in Task : audits[t] \in Nat
  BY DEF vars, store, disk, tables, IInv, Shape, FilesOK
<1>2. /\ asked \in [Task -> Nat] /\ rows \in [Task -> Nat] /\ examples \in [Task -> Nat]
      /\ NoRows \in [Task -> Nat] /\ \A t \in Task : NoRows[t] = 0
  BY DEF HInv, HarvestOK, NoRows
<1>3. \A t \in Task : t \in outcomes \/ audits[t] > 0 =>
        t \in ToSet(retained) /\ snapshot[t] # "copying"
  BY DEF IInv, Audited, Snapshots, Directory, Retained, Executed
<1>4. CASE StartHarvest
  <2>1. PICK executed \in SUBSET outcomes :
          asked' = [t \in Task |-> IF t \in executed THEN 1 ELSE audits[t]]
    BY <1>4 DEF StartHarvest
  <2>2. /\ hpc = "ready" /\ hpc' = "rows" /\ rows' = asked' /\ UNCHANGED <<at, examples, blurred>>
        /\ disturbed' = (\E t \in Task : snapshot[t] = "torn")
    BY <1>4 DEF StartHarvest
  <2>3. asked' \in [Task -> Nat]
    BY <1>1, <2>1
  <2>4. examples = NoRows
    BY <2>2 DEF HInv, HarvestOK
  <2>5. HarvestOK'
    BY <1>2, <2>2, <2>3 DEF HInv, HarvestOK
  <2>6. ASSUME NEW t \in Task
        PROVE  /\ asked'[t] > 0 => t \in outcomes \/ audits[t] > 0
               /\ asked'[t] <= 1 \/ asked'[t] <= audits[t]
               /\ examples'[t] + rows'[t] = asked'[t]
    BY <1>1, <1>2, <2>1, <2>2, <2>3, <2>4
  <2>7. Asked'
    BY <1>1, <2>3, <2>6 DEF Asked
  <2>8. blurred = {}
    BY <2>2 DEF HInv, HarvestOK
  <2>9. QED
    BY <1>1, <1>3, <2>2, <2>5, <2>6, <2>7, <2>8 DEF HInv, Undisturbed
<1>5. CASE SkipRow
  <2>1. PICK t \in Task : /\ rows[t] > 0 /\ ~RepoExists(t)
                          /\ rows' = [rows EXCEPT ![t] = @ - 1]
    BY <1>5 DEF SkipRow, Rebuildable
  <2>2. hpc = "rows" /\ UNCHANGED <<hpc, asked, at, examples, blurred, disturbed>>
    BY <1>5 DEF SkipRow
  <2>3. rows' \in [Task -> Nat] /\ rows'[t] = rows[t] - 1
        /\ \A u \in Task \ {t} : rows'[u] = rows[u]
    BY <1>2, <2>1
  <2>4. HarvestOK'
    BY <2>2, <2>3 DEF HInv, HarvestOK
  <2>5. Asked'
    BY <1>1, <1>2, <2>2, <2>3 DEF HInv, Asked
  <2>6. Undisturbed'
    BY <1>1, <2>1, <2>2, <2>3 DEF HInv, Undisturbed, RepoExists
  <2>7. QED
    BY <2>4, <2>5, <2>6 DEF HInv
<1>6. CASE TakeRow
  <2>1. at' \in Task /\ rows[at'] > 0 /\ RepoExists(at') /\ hpc = "rows" /\ hpc' = "copy"
        /\ UNCHANGED <<asked, rows, examples, blurred, disturbed>>
    BY <1>6 DEF TakeRow, Rebuildable
  <2>2. asked[at'] > 0
    BY <1>2, <2>1 DEF HInv, Asked
  <2>3. ~disturbed => snapshot[at'] = "whole"
    BY <2>1, <2>2 DEF HInv, Undisturbed, RepoExists
  <2>4. HarvestOK' /\ Asked'
    BY <1>1, <2>1 DEF HInv, HarvestOK, Asked
  <2>5. Undisturbed'
    BY <1>1, <2>1, <2>2, <2>3 DEF HInv, Undisturbed, RepoExists
  <2>6. QED
    BY <2>4, <2>5 DEF HInv
<1>7. CASE Reconstruct
  <2>1. /\ hpc = "copy" /\ hpc' = "rows" /\ UNCHANGED <<asked, disturbed>>
        /\ examples' = [examples EXCEPT ![at] = @ + 1]
        /\ rows' = [rows EXCEPT ![at] = @ - 1]
        /\ snapshot[at] = "whole" => blurred' = blurred
    BY <1>7 DEF Reconstruct
  <2>2. at \in Task /\ rows[at] > 0
    BY <2>1 DEF HInv, HarvestOK
  <2>3. /\ rows' \in [Task -> Nat] /\ examples' \in [Task -> Nat]
        /\ \A t \in Task : examples'[t] + rows'[t] = examples[t] + rows[t]
    BY <1>2, <2>1, <2>2
  <2>4. HarvestOK'
    BY <2>1, <2>3 DEF HInv, HarvestOK
  <2>5. Asked'
    BY <1>1, <2>1, <2>3 DEF HInv, Asked
  <2>6. Undisturbed'
    BY <1>1, <2>1, <2>3 DEF HInv, Undisturbed, RepoExists
  <2>7. QED
    BY <2>4, <2>5, <2>6 DEF HInv
<1>8. CASE ReconstructRaises
  <2>1. /\ hpc = "copy" /\ snapshot[at] # "whole" /\ hpc' = "raised"
        /\ UNCHANGED <<asked, rows, examples, blurred, disturbed>>
    BY <1>8 DEF ReconstructRaises
  <2>2. disturbed
    BY <2>1 DEF HInv, Undisturbed
  <2>3. QED
    BY <1>1, <2>1, <2>2 DEF HInv, HarvestOK, Asked, Undisturbed
<1>9. CASE FinishHarvest
  <2>1. /\ rows = NoRows /\ hpc' = "done"
        /\ UNCHANGED <<asked, rows, at, examples, blurred, disturbed>>
    BY <1>9 DEF FinishHarvest
  <2>2. HarvestOK' /\ Asked'
    BY <1>1, <2>1 DEF HInv, HarvestOK, Asked
  <2>3. Undisturbed'
    BY <1>1, <2>1 DEF HInv, Undisturbed, RepoExists
  <2>4. QED
    BY <2>2, <2>3 DEF HInv
<1>10. QED
  BY <1>4, <1>5, <1>6, <1>7, <1>8, <1>9 DEF Harvest

(* What holds while a harvest runs beside the control loop.                  *)
FlywheelInv == IInv /\ Directory /\ Executed /\ HInv

(* Every step of either keeps it. *)
LEMMA FlywheelInvNext ==
  ASSUME FlywheelInv, [FlywheelNext]_<<active, vars, harvest_vars>>
  PROVE  FlywheelInv'
<1>1. CASE Beside
  <2>1. Next /\ UNCHANGED active
    BY <1>1 DEF Beside, Next
  <2>2. IInv' /\ Directory'
    BY <2>1, IInvNext, DirectoryNext DEF FlywheelInv
  <2>3. PICK w \in active : PlannerFails(w) \/ Plan(w) \/ Work(w) \/ Kill(w)
    BY <2>1 DEF Next
  <2>4. /\ Shape /\ Rows /\ Snapshots /\ Shape' /\ Retained /\ Stored /\ Executed /\ HInv
        /\ w \in Worker
    BY <2>2, <2>3 DEF FlywheelInv, IInv, Directory, Shape, TasksOK
  <2>5. Ages(w)
    BY <2>1, <2>3, <2>4, StepsAge
  <2>6. Executed'
    BY <2>4, <2>5, ExecutedNext
  <2>7. HInv'
    BY <1>1, <2>4, <2>5, BesideNext
  <2>8. QED
    BY <2>2, <2>6, <2>7 DEF FlywheelInv
<1>2. CASE Harvest /\ UNCHANGED <<active, vars>>
  <2>1. IInv' /\ Directory'
    BY <1>2, IInvNext, DirectoryNext DEF FlywheelInv
  <2>2. Executed'
    BY <1>2 DEF FlywheelInv, Executed, vars, store, disk, tables
  <2>3. HInv'
    BY <1>2, HarvestNext DEF FlywheelInv
  <2>4. QED
    BY <2>1, <2>2, <2>3 DEF FlywheelInv
<1>3. CASE UNCHANGED <<active, vars, harvest_vars>>
  <2>1. IInv' /\ Directory'
    BY <1>3, IInvNext, DirectoryNext DEF FlywheelInv
  <2>2. UNCHANGED <<retained, snapshot, outcomes, audits, hpc, asked, rows, at, examples, blurred,
                    disturbed>>
    BY <1>3 DEF vars, store, disk, tables, harvest_vars
  <2>3. Executed' /\ HInv'
    BY <2>2 DEF FlywheelInv, Executed, HInv, HarvestOK, Asked, Undisturbed, RepoExists
  <2>4. QED
    BY <2>1, <2>3 DEF FlywheelInv
<1>4. QED
  BY <1>1, <1>2, <1>3 DEF FlywheelNext

(* The training set that replay.py harvests is sound, whatever processes do   *)
(* meanwhile: nothing that was never executed teaches, no row does so twice,  *)
(* and beside no removal every row whose snapshot there is gives its example, *)
(* from the whole of the snapshot.                                            *)
THEOREM HarvestsAreSound == FlywheelSpec => []HarvestIsSound
<1>1. FlywheelInit => FlywheelInv
  BY IInvInit, DirectoryInitially, HInvInit DEF FlywheelInit, FlywheelInv
<1>2. FlywheelInv /\ [FlywheelNext]_<<active, vars, harvest_vars>> => FlywheelInv'
  BY FlywheelInvNext
<1>3. FlywheelInv => HarvestIsSound
  <2>1. SUFFICES ASSUME FlywheelInv PROVE HarvestIsSound
    OBVIOUS
  <2>2. HarvestOK /\ Asked /\ Undisturbed
    BY <2>1 DEF FlywheelInv, HInv
  <2>3. /\ outcomes \cap DOMAIN reservoir = {} /\ ResultsAreOfPrunedWork
        /\ \A t \in Task : audits[t] \in Nat
    BY <2>1 DEF FlywheelInv, IInv, Audited, Directory, Stored, Shape, FilesOK
  <2>4. ASSUME NEW t \in Task, examples[t] > 0
        PROVE  /\ t \in DOMAIN reservoir => reservoir[t] # "UNSAFE_PATCH"
               /\ examples[t] <= 1 \/ examples[t] <= audits[t]
    <3>1. /\ examples[t] + rows[t] <= asked[t]
          /\ examples[t] \in Nat /\ rows[t] \in Nat /\ asked[t] \in Nat
      BY <2>2 DEF Asked, HarvestOK
    <3>2. examples[t] <= asked[t] /\ asked[t] > 0
      BY <2>4, <3>1
    <3>3. /\ t \in outcomes \/ audits[t] > 0
          /\ asked[t] <= 1 \/ asked[t] <= audits[t]
      BY <2>2, <3>2 DEF Asked
    <3>4. t \in DOMAIN reservoir => reservoir[t] # "UNSAFE_PATCH"
      BY <2>3, <3>3 DEF ResultsAreOfPrunedWork
    <3>5. QED
      BY <2>3, <3>1, <3>2, <3>3, <3>4
  <2>5. ASSUME ~disturbed
        PROVE  /\ hpc # "raised" /\ blurred = {}
               /\ hpc = "done" => \A t \in Task : RepoExists(t) => examples[t] = asked[t]
    <3>1. hpc # "raised" /\ blurred = {}
      BY <2>2, <2>5 DEF Undisturbed
    <3>2. ASSUME hpc = "done", NEW t \in Task, RepoExists(t)
          PROVE  examples[t] = asked[t]
      <4>1. /\ rows[t] = 0 /\ examples[t] \in Nat /\ asked[t] \in Nat
            /\ examples[t] + rows[t] <= asked[t]
        BY <2>2, <3>2 DEF HarvestOK, NoRows, Asked
      <4>2. asked[t] > 0 => examples[t] + rows[t] = asked[t]
        BY <2>2, <2>5, <3>2 DEF Undisturbed
      <4>3. QED
        BY <4>1, <4>2
    <3>3. QED
      BY <3>1, <3>2
  <2>6. ExamplesAreEarned
    BY <2>4 DEF ExamplesAreEarned
  <2>7. QuietHarvestIsComplete
    BY <2>5 DEF QuietHarvestIsComplete
  <2>8. QED
    BY <2>6, <2>7 DEF HarvestIsSound
<1>4. QED
  BY <1>1, <1>2, <1>3, PTL DEF FlywheelSpec
=============================================================================
