--------------------------- MODULE MCTrainingData ---------------------------
(* The makers of training data and what is made of it: Mining scans a git     *)
(* history, Distill labels the rows of a dataset, MemoryGraph follows a       *)
(* repository, Training fits, judges and saves a model.  job says which; the  *)
(* others are at rest.                                                        *)
EXTENDS Mining

(* Mining: two source files, a test and a document; four commits.             *)

(* Distill: two files whose mutators agree on descriptions; the first has two *)
(* methods of one name, an operator swap that changes nothing and one that    *)
(* repeats another; the rows have a twin and one that no mutant describes,    *)
(* and bring along no label, or some.                                         *)
CONSTANTS Sources, Raw, Baseline, Rows, BatchSize, Answers, NoLabel, Earlier

Mutant(t, w) == [text |-> t, what |-> w]
Row(f, w)    == [file |-> f, what |-> w]

MCSources == <<"m", "s">>
MCRaw ==
  [m |-> <<Mutant(1, "swap 0"), Mutant(0, "swap 1"), Mutant(1, "cmp 0"),
           Mutant(2, "const 0"), Mutant(3, "noop in init"), Mutant(4, "noop in init")>>,
   s |-> <<Mutant(1, "swap 0"), Mutant(2, "const 0"), Mutant(3, "const 1")>>]
MCRows == <<Row("m", "swap 0"), Row("m", "noop in init"), Row("s", "swap 0"),
            Row("s", "const 1"), Row("s", "const 1"), Row("s", "gone")>>
MCEarlier ==
  {[r \in DOMAIN MCRows |-> IF r \in labelled_before THEN 60 ELSE NoLabel] :
     labelled_before \in {{}, {1, 5, 6}}}

(* MemoryGraph: two files of six texts, with names that are defined twice in  *)
(* a file and in both files, a method, nested functions, recursion, imports   *)
(* and a text that does not parse.                                            *)
CONSTANTS Path, Text

Definition(k, n, w, c) == [kind |-> k, name |-> n, within |-> w, calls |-> c]
Fun(n, w, c)           == Definition("function", n, w, c)
Class(n)               == Definition("class", n, 0, {})
TextOf(imports, defs)  == [parses |-> TRUE, imports |-> imports, defs |-> defs]

MCPath == {"a", "b"}
MCText ==
  {[parses |-> FALSE, imports |-> {}, defs |-> <<>>],
   TextOf({}, <<Fun("f", 0, {"g"}), Class("K"), Fun("m", 2, {"f"})>>),
   TextOf({"b"}, <<Fun("f", 0, {}), Fun("h", 1, {"g"}), Fun("f", 0, {"h"})>>),
   TextOf({}, <<Fun("g", 0, {"h", "g"}), Fun("h", 0, {})>>),
   TextOf({"a"}, <<Class("K"), Fun("f", 1, {"m"}), Fun("h", 0, {"f"}), Fun("m", 0, {})>>),
   TextOf({"a"}, <<Fun("p", 0, {"f", "h"}), Fun("q", 1, {})>>)}

(* Training: two mutants of each of two files, one without a graph; nothing   *)
(* harvested, one example, or two of one branch; no defects, one, or two, a   *)
(* fix and a regression each.                                                 *)
CONSTANTS M, Probes, Mutants, Harvests, Reals, K, TestTenths, MaxRuns

MutantOf(f, o, n)   == [file |-> f, origin |-> o, nodes |-> n]
Example(f, l, o, n) == [file |-> f, label |-> l, origin |-> o, nodes |-> n]
Pair(f, commit)     == <<Example(f, 1, commit, 0), Example(f, 0, commit, 0)>>

MCMutants ==
  <<MutantOf("m", "m1", 2), MutantOf("m", "m2", 2), MutantOf("s", "s1", 0),
    MutantOf("s", "s2", 3)>>
MCHarvests ==
  {<<>>, <<Example("m", 1, "branch", 1)>>,
   <<Example("d", 0, "branch", 1), Example("d", 0, "branch", 1)>>}
MCReals == {<<>>, Pair("x", "c1"), Pair("x", "c1") \o Pair("y", "c2")}

VARIABLES
  job,
  step, at, i, earlier, soft, attached, asked, answered,
  repo, g, current,
  weights, server, phase, dataset, labels, rows, real, folds, oof, half, fitted, runs,
  labelled, cut

label_vars == <<step, at, i, earlier, soft, attached, asked, answered>>
graph_vars == <<repo, g, current>>
fit_vars ==
  <<weights, server, phase, dataset, labels, rows, real, folds, oof, half, fitted, runs,
    labelled, cut>>

Labels == INSTANCE Distill WITH pc <- step
Graph  == INSTANCE MemoryGraph
Fits   == INSTANCE Training WITH pc <- phase, examples <- rows

ASSUME LabelsAssumption == Labels!DistillAssumption
ASSUME GraphAssumption  == Graph!MemoryGraphAssumption
ASSUME FitsAssumption   == Fits!LatentModelAssumption /\ Fits!TrainingAssumption

EitherInit ==
  /\ job \in {"mine", "label", "graph", "fit"}
  /\ Init /\ Labels!Init /\ Graph!Init /\ Fits!TrainingInit
  /\ job # "graph" => repo = [f \in Path |-> CHOOSE t \in Text : ~t.parses]
  /\ job # "fit" => weights = "absent"
  /\ job # "label" => earlier = [r \in DOMAIN Rows |-> NoLabel]

EitherNext ==
  /\ UNCHANGED job
  /\ \/ job = "mine" /\ Next /\ UNCHANGED <<label_vars, graph_vars, fit_vars>>
     \/ job = "label" /\ Labels!Next /\ UNCHANGED <<vars, graph_vars, fit_vars>>
     \/ job = "graph" /\ Graph!Next /\ UNCHANGED <<vars, label_vars, fit_vars>>
     \/ job = "fit" /\ Fits!TrainingNext /\ UNCHANGED <<vars, label_vars, graph_vars>>

EitherSpec == EitherInit /\ [][EitherNext]_<<job, vars, label_vars, graph_vars, fit_vars>>

(* The properties of Distill, MemoryGraph and Training, stated there. *)
LabelsAreRight     == Labels!LabelsAreRight
GraphIsRight       == job = "graph" => Graph!TypeOK /\ Graph!GraphIsRight
TrainAndServeAgree == job = "graph" => Graph!TrainAndServeAgree
OutOfFold          == job = "fit" => Fits!OutOfFold
HeldOutIsUnseen    == job = "fit" => Fits!HeldOutIsUnseen
FilesSurvive       == job = "fit" => Fits!FilesSurvive
EnsembleIsHonest   == job = "fit" => Fits!EnsembleIsHonest
=============================================================================
