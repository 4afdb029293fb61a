------------------------------ MODULE Training ------------------------------
(***************************************************************************)
(* Training the latent model (models/train.py): the dataset is read or     *)
(* built (data/dataset.py), harvested and real rows are added, the model   *)
(* is cross-validated, fitted on one part of the rows and judged on the    *)
(* other, and saved.  A run may be killed at any point and be started      *)
(* again; servers load the weights meanwhile.                              *)
(*                                                                         *)
(* An example is where it comes from: its file, its label, its origin (the *)
(* mutant, branch or defect it was made of) and the size of its graph.     *)
(* What is fitted is a set of rows; the numbers it ends with are external. *)
(***************************************************************************)
EXTENDS LatentModel, Sequences, SequencesExt

CONSTANTS
  Mutants,     \* the mutants of the seed sources, in order: [file, origin, nodes]
  Harvests,    \* what the replay flywheel may bring: sequences of examples
  Reals,       \* the files of real defects that may be given: sequences of examples
  K,           \* --cv
  TestTenths,  \* --test-frac, in tenths
  MaxRuns      \* bound: training runs

(* What an instance has to assume: an origin is a mutant, a branch or a defect. *)
Examples == [file : STRING, label : {0, 1}, origin : STRING, nodes : Nat]

TrainingAssumption ==
  /\ K \subseteq Nat \ {0} /\ TestTenths \subseteq 1 .. 9 /\ MaxRuns \in Nat
  /\ Mutants \in Seq([file : STRING, origin : STRING, nodes : Nat])
  /\ Harvests \subseteq Seq(Examples) /\ Reals \subseteq Seq(Examples)
  /\ \A m, n \in DOMAIN Mutants : Mutants[m].origin = Mutants[n].origin => m = n
  /\ \A r \in Reals : \A e \in DOMAIN r :
       /\ \A m \in DOMAIN Mutants : Mutants[m].origin # r[e].origin
       /\ \A h \in Harvests : \A b \in DOMAIN h : h[b].origin # r[e].origin

VARIABLES
  pc,        \* "idle", "load", "build", "write", "merge", "cv", "grouped", "fold",
             \* "split", "fit", "judge", "save", "done", "raised", "killed"
  dataset,   \* the labels in mutation_seed.jsonl and whether it ends in half a line
  labels,    \* the labels of this run's build
  examples, real,   \* the rows of this run: mutants and harvest, real defects
  folds,     \* the cross-validation under way: fold of each row, their number, current
  oof,       \* for each row, the training sets of the models it was scored with
  half,      \* the split: "train" or "test" for each row, for each real row
  fitted,    \* the rows the model was fitted on: <<"seed" or "real", index>>
  runs,      \* runs started
  labelled,  \* history: the labels of the last build that was written out
  cut        \* history: files that a killed run left unfinished

files      == <<dataset, labelled, cut, runs>>
given      == <<examples, real>>
validation == <<folds, oof>>
outcome    == <<half, fitted>>
model      == <<weights, server>>
train_vars == <<pc, files, labels, given, validation, outcome>>

File(ls, torn) == [present |-> TRUE, labels |-> ls, torn |-> torn]
Absent  == [present |-> FALSE, labels |-> <<>>, torn |-> FALSE]
NoFolds == [grouped |-> FALSE, of |-> <<>>, count |-> 0, at |-> 0]
NoHalf  == [seed |-> <<>>, real |-> <<>>]

AsExample(m, label) ==
  [file |-> Mutants[m].file, label |-> label, origin |-> Mutants[m].origin,
   nodes |-> Mutants[m].nodes]
AsExamples(ls) == [m \in DOMAIN ls |-> AsExample(m, ls[m])]

(* What the process keeps in memory, gone with it. *)
Forget ==
  /\ labels' = <<>> /\ examples' = <<>> /\ real' = <<>>
  /\ folds' = NoFolds /\ oof' = <<>> /\ half' = NoHalf /\ fitted' = {}

TrainingInit ==
  /\ pc = "idle" /\ runs = 0 /\ cut = {} /\ labelled = <<>>
  /\ dataset = Absent
  /\ labels = <<>> /\ examples = <<>> /\ real = <<>>
  /\ folds = NoFolds /\ oof = <<>> /\ half = NoHalf /\ fitted = {}
  /\ weights \in {"absent", "other", "old"} /\ server = "down"

Start ==
  /\ pc \in {"idle", "done", "raised", "killed"} /\ runs < MaxRuns
  /\ pc' = "load" /\ runs' = runs + 1
  /\ Forget
  /\ UNCHANGED <<dataset, labelled, cut, model>>

-----------------------------------------------------------------------------
(* load_or_build, read_jsonl: half a line does not parse. *)
ReadDataset ==
  /\ pc = "load" /\ dataset.present
  /\ IF dataset.torn
       THEN pc' = "raised" /\ UNCHANGED examples
       ELSE pc' = "merge" /\ examples' = AsExamples(dataset.labels)
  /\ UNCHANGED <<files, labels, real, validation, outcome, model>>

(* No dataset, or --rebuild. *)
Rebuild ==
  /\ pc = "load"
  /\ pc' = "build"
  /\ UNCHANGED <<files, labels, given, validation, outcome, model>>

(* build_examples: the sandbox labels one mutant after the other. *)
LabelMutant ==
  /\ pc = "build" /\ Len(labels) < Len(Mutants)
  /\ \E label \in {0, 1} : labels' = Append(labels, label)
  /\ UNCHANGED <<pc, files, given, validation, outcome, model>>

SandboxRaises ==
  /\ pc = "build" /\ Len(labels) < Len(Mutants)
  /\ pc' = "raised"
  /\ UNCHANGED <<files, labels, given, validation, outcome, model>>

(* write_jsonl. *)
Appending == File(dataset.labels, dataset.torn)   \* mutant of Truncated
Truncated == File(<<>>, FALSE)

OpenDataset ==
  /\ pc = "build" /\ Len(labels) = Len(Mutants)
  /\ pc' = "write" /\ dataset' = Truncated
  /\ examples' = AsExamples(labels) /\ labelled' = labels
  /\ UNCHANGED <<cut, runs, labels, real, validation, outcome, model>>

(* What is in the file is what the buffer passed on: any part of a line. *)
WriteOn ==
  /\ pc = "write" /\ labels # <<>>
  /\ \/ ~dataset.torn /\ dataset' = [dataset EXCEPT !.torn = TRUE] /\ UNCHANGED labels
     \/ /\ dataset' = File(Append(dataset.labels, Head(labels)), FALSE)
        /\ labels' = Tail(labels)
  /\ UNCHANGED <<pc, labelled, cut, runs, given, validation, outcome, model>>

CloseDataset ==
  /\ pc = "write" /\ labels = <<>>
  /\ pc' = "merge" /\ cut' = cut \ {"dataset"}
  /\ UNCHANGED <<dataset, labelled, runs, labels, given, validation, outcome, model>>

-----------------------------------------------------------------------------
(* --replay and --real. *)
Merge ==
  /\ pc = "merge"
  /\ \E harvested \in Harvests : examples' = examples \o harvested
  /\ real' \in Reals
  /\ pc' = "cv"
  /\ UNCHANGED <<files, labels, validation, outcome, model>>

(* The snapshots go while the harvest copies them, or the file of real defects *)
(* is missing.                                                                 *)
MergeRaises ==
  /\ pc = "merge"
  /\ pc' = "raised"
  /\ UNCHANGED <<files, labels, given, validation, outcome, model>>

-----------------------------------------------------------------------------
Indices        == DOMAIN examples
OfClass(es, c) == {e \in DOMAIN es : es[e].label = c}

(* stratified_kfold: each class is shuffled and dealt out from the first fold on. *)
Dealt(n, k, f) == Cardinality({j \in 0 .. n - 1 : j % k = f})
StratifiedFolds(k) ==
  {of \in [Indices -> 0 .. k - 1] : \A c \in {0, 1}, f \in 0 .. k - 1 :
     Cardinality({e \in OfClass(examples, c) : of[e] = f})
       = Dealt(Cardinality(OfClass(examples, c)), k, f)}

(* grouped_folds_by_file: a fold for each file, in the order of their first rows. *)
FirstRows == {e \in Indices : \A d \in Indices : examples[d].file = examples[e].file => e <= d}
FileFolds ==
  [e \in Indices |-> Cardinality({d \in FirstRows : \E b \in Indices :
     examples[b].file = examples[e].file /\ \A h \in Indices :
       (examples[h].file = examples[e].file => b <= h) /\ d < b})]

Validate(grouped, of, count) ==
  /\ folds' = [grouped |-> grouped, of |-> of, count |-> count, at |-> 0]
  /\ oof' = [e \in Indices |-> <<>>]
  /\ pc' = "fold"
  /\ UNCHANGED <<files, labels, given, outcome, model>>

Stratified == pc = "cv" /\ \E k \in K : \E of \in StratifiedFolds(k) : Validate(FALSE, of, k)
Grouped    == pc = "grouped" /\ Validate(TRUE, FileFolds, Cardinality(FirstRows))

NoValidation ==
  /\ \/ pc = "cv" /\ pc' = "grouped"
     \/ pc = "grouped" /\ pc' = "split"
  /\ UNCHANGED <<files, labels, given, validation, outcome, model>>

(* cross_validate: a fresh model for every fold, from the rows that are not in it. *)
AllRows(test)   == Indices   \* mutant of TrainSet
TrainSet(test)  == Indices \ test

Fold ==
  /\ pc = "fold" /\ folds.at < folds.count
  /\ LET test == {e \in Indices : folds.of[e] = folds.at}
     IN  oof' = [e \in Indices |->
                   IF e \in test /\ TrainSet(test) # {}
                     THEN Append(oof[e], TrainSet(test)) ELSE oof[e]]
  /\ folds' = [folds EXCEPT !.at = @ + 1]
  /\ UNCHANGED <<pc, files, labels, given, outcome, model>>

(* The pooled scores are printed. *)
Validated ==
  /\ pc = "fold" /\ folds.at = folds.count
  /\ pc' = IF folds.grouped THEN "split" ELSE "grouped"
  /\ folds' = NoFolds /\ oof' = <<>>
  /\ UNCHANGED <<files, labels, given, outcome, model>>

-----------------------------------------------------------------------------
(* stratified_split: of each class, n_test rows are held out, at least one. *)
(* round() rounds a half to the even neighbour.                             *)
RoundTenths(t) ==
  IF t % 10 > 5 \/ (t % 10 = 5 /\ (t \div 10) % 2 = 1) THEN t \div 10 + 1 ELSE t \div 10
Floored(n, frac) == (n * frac) \div 10   \* mutant of NTest
NTest(n, frac) ==
  IF n = 0 THEN 0
  ELSE IF RoundTenths(n * frac) > 1 THEN RoundTenths(n * frac) ELSE 1

Halves(es, frac) ==
  {h \in [DOMAIN es -> {"train", "test"}] : \A c \in {0, 1} :
     Cardinality({e \in OfClass(es, c) : h[e] = "test"})
       = NTest(Cardinality(OfClass(es, c)), frac)}

Split ==
  /\ pc = "split"
  /\ \E frac \in TestTenths :
       \E s \in Halves(examples, frac), r \in Halves(real, frac) :
         half' = [seed |-> s, real |-> r]
  /\ pc' = "fit"
  /\ UNCHANGED <<files, labels, given, validation, fitted, model>>

In(h, part)  == {e \in DOMAIN h : h[e] = part}
TrainSeed    == {"seed"} \X In(half.seed, "train")
TrainReal    == {"real"} \X In(half.real, "train")
AllReal      == {"real"} \X DOMAIN half.real   \* mutant of RealRows
RealRows     == TrainReal

(* _batch_graphs: the graphs of the rows one after the other, a neutral node for *)
(* a row that has none.  Every node stands for the example it is a node of.      *)
StoredSize(e) == e.nodes   \* mutant of BlockSize
BlockSize(e)  == IF e.nodes = 0 THEN 1 ELSE e.nodes
Offset(es, i) == RunningSum([j \in 0 .. Len(es) - 1 |-> BlockSize(es[j + 1])], i - 1)
Batch(es) ==
  UNION {{<<Offset(es, i) + k, i>> : k \in 0 .. (IF es[i].nodes = 0 THEN 0 ELSE es[i].nodes - 1)} :
         i \in DOMAIN es}

(* train and curriculum_train: pretrained on the mutants, then on both.  Nothing *)
(* can be fitted on no rows.                                                     *)
Fit ==
  /\ pc = "fit"
  /\ \E curriculum \in BOOLEAN :
       LET rows == TrainSeed \cup RealRows
           first == IF curriculum /\ TrainReal # {} THEN TrainSeed ELSE rows
       IN  IF first = {} THEN pc' = "raised" /\ UNCHANGED fitted
           ELSE pc' = "judge" /\ fitted' = rows
  /\ UNCHANGED <<files, labels, given, validation, half, model>>

(* Scored against the heuristic on both held-out sets; then save_model opens the file. *)
Judge ==
  /\ pc = "judge"
  /\ pc' = "save" /\ OpenWeights
  /\ UNCHANGED <<files, labels, given, validation, outcome, server>>

Save ==
  /\ pc = "save"
  /\ \/ WriteWeights /\ UNCHANGED <<pc, cut>>
     \/ CloseWeights /\ pc' = "done" /\ cut' = cut \ {"weights"}
  /\ UNCHANGED <<dataset, labelled, runs, labels, given, validation, outcome, server>>

Kill ==
  /\ pc \notin {"idle", "done", "raised", "killed"}
  /\ pc' = "killed"
  /\ cut' = cut \cup (IF pc = "write" THEN {"dataset"}
                      ELSE IF pc = "save" THEN {"weights"} ELSE {})
  /\ Forget
  /\ UNCHANGED <<dataset, labelled, runs, model>>

(* An Orchestrator is constructed. *)
Serve == Load /\ UNCHANGED train_vars
Stop  == server # "down" /\ server' = "down" /\ UNCHANGED <<weights, train_vars>>

TrainingNext ==
  \/ Start \/ ReadDataset \/ Rebuild \/ LabelMutant \/ SandboxRaises
  \/ OpenDataset \/ WriteOn \/ CloseDataset \/ Merge \/ MergeRaises
  \/ Stratified \/ Grouped \/ NoValidation \/ Fold \/ Validated
  \/ Split \/ Fit \/ Judge \/ Save \/ Kill
  \/ Serve \/ Stop

TrainingSpec == TrainingInit /\ [][TrainingNext]_<<train_vars, model>>

-----------------------------------------------------------------------------
(* Cross-validation scores a row with a model that was fitted without it, and *)
(* without any row of its file where the folds are files ("the honest test of *)
(* cross-file generalization", train.py:258); no row is scored twice, and all *)
(* rows are as soon as two folds have any: two rows of different classes are  *)
(* dealt to the same fold, and one fold has nothing to be trained on.         *)
OutOfFold ==
  pc = "fold" =>
    /\ \A e \in Indices :
         /\ Len(oof[e]) <= 1
         /\ \A s \in DOMAIN oof[e] :
              /\ e \notin oof[e][s]
              /\ folds.grouped => \A d \in oof[e][s] : examples[d].file # examples[e].file
    /\ folds.at = folds.count =>
         LET apart == IF folds.grouped THEN Cardinality({examples[e].file : e \in Indices}) > 1
                      ELSE folds.count > 1 /\ \E c \in {0, 1} :
                             Cardinality(OfClass(examples, c)) > 1
         IN  \A e \in Indices : (Len(oof[e]) = 1) <=> apart

RowOf(r)   == IF r[1] = "seed" THEN examples[r[2]] ELSE real[r[2]]
HeldOut    == ({"seed"} \X In(half.seed, "test")) \cup ({"real"} \X In(half.real, "test"))
Origins(h) == {RowOf(r).origin : r \in h}

(* "a trained model only wins if it beats the heuristic on data it never saw" *)
(* (train.py:9): no held-out row is fitted.  Only rows of one origin, a       *)
(* branch that was harvested twice or the fix and the regression that git     *)
(* mining makes of one commit, are dealt out as if they were strangers.       *)
NothingLeaks ==
  pc \in {"judge", "save", "done"} =>
    /\ fitted \cap HeldOut = {}
    /\ \A o \in Origins(fitted) \cap Origins(HeldOut) :
         \/ Cardinality({e \in Indices : examples[e].origin = o}) > 1
         \/ Cardinality({e \in DOMAIN real : real[e].origin = o}) > 1

(* Each class the rows have is held out in part, and is fitted too unless it  *)
(* has one row or most rows are held out.                                     *)
BothSidesSeeEveryClass ==
  pc = "judge" =>
    \A c \in {0, 1} : OfClass(examples, c) # {} =>
      /\ \E e \in OfClass(examples, c) : <<"seed", e>> \in HeldOut
      /\ \/ \E e \in OfClass(examples, c) : <<"seed", e>> \in fitted
         \/ Cardinality(OfClass(examples, c)) = 1
         \/ \E frac \in TestTenths : frac > 5

(* The comparison at the end of a run is one of unseen rows.                  *)
HeldOutIsUnseen == NothingLeaks /\ BothSidesSeeEveryClass

(* The two files a training run writes in place.  Whatever raises, and up to  *)
(* where a run is killed, the dataset holds the labels of the last build that *)
(* was written out, all of them, and the weights are those of some run; only  *)
(* the kill of a run that was writing the file leaves less, and a short       *)
(* dataset is then trained on as if it were all, until the next rebuild.      *)
(* Weights that are absent or of another architecture never stop a server     *)
(* ("degrade to the heuristic ... instead of crashing", latent_model.py:275). *)
FilesSurvive ==
  /\ dataset.present /\ pc # "write" /\ "dataset" \notin cut =>
       dataset = File(labelled, FALSE) /\ Len(labelled) = Len(Mutants)
  /\ dataset.present => IsPrefix(dataset.labels, labelled)
  /\ weights \in {"empty", "partial"} => pc = "save" \/ "weights" \in cut
  /\ runs = 0 => server # "crashed"
  /\ pc = "cv" /\ "dataset" \notin cut => \A m \in DOMAIN Mutants :
       examples[m] = AsExample(m, labelled[m])

(* In the batched graph of the rows, whatever their sizes, no node stands for *)
(* two rows and every row has its nodes: each row is fitted on its own graph. *)
GraphsStayApart ==
  pc = "cv" => \A a, b \in Batch(examples) : a[1] = b[1] => a = b

(* Each row is fitted on its own graph, and what an ensemble says of its own  *)
(* uncertainty is so (checked once, before the first training run).           *)
EnsembleIsHonest == GraphsStayApart /\ (pc = "idle" => AnswersAreHonest)
=============================================================================
