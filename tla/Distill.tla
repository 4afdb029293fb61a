------------------------------- MODULE Distill -------------------------------
(***************************************************************************)
(* attach_soft_labels (nse/data/distill.py): the mutants of each source    *)
(* file are generated again, the simulator judges them in batches, and its *)
(* answers are matched to the rows of the dataset by file and description. *)
(*                                                                         *)
(* A mutant is the text the mutator made and how it describes it; branch   *)
(* ids are positions in the list of mutants.  A call of the simulator may  *)
(* fail or leave branches out; the ids it invents match nothing.           *)
(***************************************************************************)
EXTENDS Integers, Sequences, FiniteSets

CONSTANTS
  Sources,     \* sources: the files, in order
  Raw,         \* what the five generators yield for each file, in order
  Baseline,    \* the text of an unmutated source
  Rows,        \* examples: the file and the description of each row
  BatchSize,   \* batch_size
  Answers,     \* values of p_t_sim
  NoLabel,     \* soft_label is None
  Earlier      \* soft labels that the rows may bring along, for each row

(* What an instance has to assume. *)
DistillAssumption ==
  /\ BatchSize \in Nat \ {0} /\ NoLabel \notin Answers
  /\ \A labels \in Earlier : DOMAIN labels = DOMAIN Rows
  /\ Len(Sources) \in Nat /\ DOMAIN Sources = 1 .. Len(Sources)
  /\ Len(Rows) \in Nat /\ DOMAIN Rows = 1 .. Len(Rows)
  /\ \A f \in DOMAIN Raw : Len(Raw[f]) \in Nat /\ DOMAIN Raw[f] = 1 .. Len(Raw[f])
  /\ \A k, l \in DOMAIN Sources : Sources[k] = Sources[l] => k = l
  /\ \A k \in DOMAIN Sources : Sources[k] \in DOMAIN Raw

VARIABLES
  pc,        \* "source", "batch", "done", "raised"
  at,        \* the source it is at
  i,         \* mutants of it that are behind the loop
  earlier,   \* soft_label of each row as it was read
  soft,      \* soft_label of each row
  attached,  \* what is returned
  asked,     \* for each file, how often each mutant was given to the simulator
  answered   \* the file and description of every answer

vars == <<pc, at, i, earlier, soft, attached, asked, answered>>

Init ==
  /\ pc = "source" /\ at = 1 /\ i = 0
  /\ earlier \in Earlier /\ soft = earlier
  /\ attached = 0
  /\ asked = [f \in DOMAIN Raw |-> [m \in DOMAIN Raw[f] |-> 0]]
  /\ answered = {}

(* generate_mutations: no mutant is the source itself or an earlier mutant. *)
Fresh(raw, m) == raw[m].text # Baseline /\ \A l \in 1 .. m - 1 : raw[l].text # raw[m].text
generate_mutations(raw) ==
  LET S     == {m \in DOMAIN raw : Fresh(raw, m)}
      At(k) == CHOOSE m \in S : Cardinality({l \in S : l <= m}) = k
  IN  [k \in 1 .. Cardinality(S) |-> raw[At(k)]]

file    == Sources[at]
mutants == generate_mutations(Raw[file])

ReadSource ==
  /\ pc = "source" /\ at <= Len(Sources)
  /\ pc' = "batch" /\ i' = 0
  /\ UNCHANGED <<at, earlier, soft, attached, asked, answered>>

Done ==
  /\ pc = "source" /\ at > Len(Sources)
  /\ pc' = "done"
  /\ UNCHANGED <<at, i, earlier, soft, attached, asked, answered>>

(* branches[i : i + batch_size] *)
ShortSlice == {m \in DOMAIN mutants : i < m /\ m < i + BatchSize}   \* mutant of Batch
Batch      == {m \in DOMAIN mutants : i < m /\ m <= i + BatchSize}

Simulate ==
  /\ pc = "batch" /\ i < Len(mutants)
  /\ asked' = [asked EXCEPT ![file] =
                 [m \in DOMAIN @ |-> IF m \in Batch THEN @[m] + 1 ELSE @[m]]]
  /\ i' = i + BatchSize

(* index: of rows alike, the last one is found. *)
index(what) ==
  {r \in DOMAIN Rows : /\ Rows[r] = [file |-> file, what |-> what]
                       /\ \A s \in DOMAIN Rows : Rows[s] = Rows[r] => s <= r}

(* preds, read in some order: of two answers for one row, one is kept. *)
Answered ==
  /\ Simulate
  /\ \E M \in SUBSET Batch, kept \in [DOMAIN Rows -> Answers] :
       LET whats   == {mutants[m].what : m \in M}
           matched == UNION {index(w) : w \in whats}
       IN  /\ soft' = [r \in DOMAIN Rows |-> IF r \in matched THEN kept[r] ELSE soft[r]]
           /\ attached' = attached + Cardinality({m \in M : index(mutants[m].what) # {}})
           /\ answered' = answered \cup {[file |-> file, what |-> w] : w \in whats}
  /\ UNCHANGED <<pc, at, earlier>>

(* "a flaky batch leaves those rows undistilled, not a crash" *)
AgentFails ==
  /\ Simulate
  /\ UNCHANGED <<pc, at, earlier, soft, attached, answered>>

(* Anything that is not an AgentError. *)
Raises ==
  /\ Simulate
  /\ pc' = "raised"
  /\ UNCHANGED <<at, earlier, soft, attached, answered>>

NextSource ==
  /\ pc = "batch" /\ i >= Len(mutants)
  /\ pc' = "source" /\ at' = at + 1
  /\ UNCHANGED <<i, earlier, soft, attached, asked, answered>>

Next == ReadSource \/ Done \/ Answered \/ AgentFails \/ Raises \/ NextSource

Spec == Init /\ [][Next]_vars

-----------------------------------------------------------------------------
(* Every mutant of every source is given to the simulator once, whatever the  *)
(* batch size and whichever batches fail: none is lost between two slices, no *)
(* call is paid for twice.                                                    *)
EveryMutantIsJudgedOnce ==
  pc = "done" =>
    \A k \in DOMAIN Sources : \A m \in DOMAIN Raw[Sources[k]] :
      asked[Sources[k]][m] =
        (IF m <= Cardinality({l \in DOMAIN Raw[Sources[k]] : Fresh(Raw[Sources[k]], l)})
           THEN 1 ELSE 0)

(* A mutant of the row's file and description was answered for, and no later *)
(* row is its twin.                                                           *)
SpokenOf(r) ==
  Rows[r] \in answered /\ \A s \in DOMAIN Rows : Rows[s] = Rows[r] => s <= r

(* The teacher's labels are on the rows it spoke of, and every other row has  *)
(* what it had before, a label or none.  What is returned counts answers, and *)
(* so every row that was labelled at least once.                              *)
LabelsAreWhereTheyBelong ==
  /\ \A r \in DOMAIN Rows :
       IF SpokenOf(r) THEN soft[r] \in Answers ELSE soft[r] = earlier[r]
  /\ attached >= Cardinality({r \in DOMAIN Rows : SpokenOf(r)})

(* Every label that was paid for is where it belongs.                         *)
LabelsAreRight == EveryMutantIsJudgedOnce /\ LabelsAreWhereTheyBelong
=============================================================================
