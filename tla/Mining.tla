------------------------------- MODULE Mining -------------------------------
(***************************************************************************)
(* build_real_examples (nse/data/git_mining.py): candidate fix commits are *)
(* taken newest first; of each the fixed tree (the commit) and the buggy   *)
(* tree (its source files put back to the parent) are built and run in the *)
(* sandbox, and a pair that turns the suite from red to green becomes two  *)
(* training examples.  The examples are returned when the scan is over.    *)
(*                                                                         *)
(* A file of a tree is at the parent's text, at the commit's, or absent.   *)
(* git names a moved file by its new name alone.                           *)
(***************************************************************************)
EXTENDS Integers, Sequences, FiniteSets

CONSTANTS
  Source,    \* Python files that are no tests
  Test,      \* Python test files
  Other,     \* the rest
  Limit,     \* limit: candidates the prefilter lets through
  MaxPairs,  \* max_pairs
  History    \* bound: commits in the history

File == Source \cup Test \cup Other

ASSUME MiningAssumption ==
  /\ IsFiniteSet(File) /\ Source \cap Test = {} /\ (Source \cup Test) \cap Other = {}
  /\ Limit \in Nat \ {0} /\ MaxPairs \in Nat /\ History \in Nat

Changes == {"same", "edited", "added", "deleted", "moved_away"}
Texts   == {"parent", "commit", "absent"}

VARIABLES
  pc,        \* "next", "candidate", "revert", "run", "verify", "returned", "raised"
  seen,      \* commits of the history looked at
  matched,   \* those whose subject matched
  parents,   \* parents of the candidate; git log leaves merges out
  change,    \* what it did to each file
  todo,      \* source files still to put back
  fixed, buggy, \* the two trees
  red, green,   \* the buggy run failed, the fixed run passed
  verified,  \* pairs kept
  examples   \* the commit, kind and label of each

trees == <<fixed, buggy>>
vars  == <<pc, seen, matched, parents, change, todo, trees, red, green, verified, examples>>

NoTree == [f \in File |-> "absent"]

Init ==
  /\ pc = "next" /\ seen = 0 /\ matched = 0 /\ parents = 0
  /\ change = [f \in File |-> "same"] /\ todo = {}
  /\ fixed = NoTree /\ buggy = NoTree
  /\ red = FALSE /\ green = FALSE
  /\ verified = 0 /\ examples = {}

(* find_fix_commits is asked once; its answer is read one commit at a time. *)
Enough    == verified >= MaxPairs
Exhausted == seen = History \/ matched = Limit

NextCommit ==
  /\ pc = "next" /\ ~Enough /\ ~Exhausted
  /\ seen' = seen + 1
  /\ \/ UNCHANGED <<pc, matched, parents, change>>     \* the subject does not match
     \/ /\ matched' = matched + 1
        /\ parents' \in {0, 1}
        /\ change' \in [File -> Changes]
        /\ \A f \in File : change'[f] = "moved_away" => \E g \in File : change'[g] = "added"
        /\ pc' = "candidate"
  /\ UNCHANGED <<todo, trees, red, green, verified, examples>>

Return ==
  /\ pc = "next" /\ (Enough \/ Exhausted)
  /\ pc' = "returned"
  /\ UNCHANGED <<seen, matched, parents, change, todo, trees, red, green, verified,
                 examples>>

(* The next candidate; the temporary trees are removed. *)
GoOn ==
  /\ pc' = "next" /\ parents' = 0 /\ change' = [f \in File |-> "same"] /\ todo' = {}
  /\ fixed' = NoTree /\ buggy' = NoTree /\ red' = FALSE /\ green' = FALSE

-----------------------------------------------------------------------------
(* extract_pair: git diff --name-only, split into sources and tests. *)
Named == {f \in File : change[f] \in {"edited", "added", "deleted"}}
AllPython    == Named \ Other   \* mutant of source_files
source_files == Named \cap Source

NoPair ==
  /\ pc = "candidate" /\ (parents = 0 \/ source_files = {})
  /\ GoOn
  /\ UNCHANGED <<seen, matched, verified, examples>>

AtCommit(f) == CASE change[f] = "same" -> "parent"
                 [] change[f] \in {"edited", "added"} -> "commit"
                 [] OTHER -> "absent"
AtParent(f) == IF change[f] = "added" THEN "absent" ELSE "parent"

(* _materialize_tree, then the copy that _build_buggy_tree starts from. *)
Materialize ==
  /\ pc = "candidate" /\ parents = 1 /\ source_files # {}
  /\ fixed' = [f \in File |-> AtCommit(f)]
  /\ buggy' = fixed'
  /\ todo' = source_files
  /\ pc' = "revert"
  /\ UNCHANGED <<seen, matched, parents, change, red, green, verified, examples>>

Reverted(f) == AtParent(f)

(* One source file is put back to the parent, removed if it was added. *)
Revert ==
  /\ pc = "revert"
  /\ \E f \in todo :
       /\ buggy' = [buggy EXCEPT ![f] = Reverted(f)]
       /\ todo' = todo \ {f}
  /\ pc' = IF todo' = {} THEN "run" ELSE pc
  /\ UNCHANGED <<seen, matched, parents, change, fixed, red, green, verified, examples>>

EitherRun == ~red /\ ~green   \* mutant of Unverified
Unverified == ~red \/ ~green

(* The two sandbox runs. *)
Run ==
  /\ pc = "run"
  /\ red' \in BOOLEAN /\ green' \in BOOLEAN
  /\ pc' = "verify"
  /\ UNCHANGED <<seen, matched, parents, change, todo, trees, verified, examples>>

Skip ==
  /\ pc = "verify" /\ Unverified
  /\ GoOn
  /\ UNCHANGED <<seen, matched, verified, examples>>

(* changed_function_names reads each source file in both trees. *)
Readable == \A f \in source_files : buggy[f] # "absent" /\ fixed[f] # "absent"

Emit ==
  /\ pc = "verify" /\ ~Unverified /\ Readable
  /\ examples' = examples \cup {[sha |-> seen, kind |-> k, label |-> k = "real_fix"] :
                                  k \in {"real_fix", "real_regression"}}
  /\ verified' = verified + 1
  /\ GoOn
  /\ UNCHANGED <<seen, matched>>

FileNotFound ==
  /\ pc = "verify" /\ ~Unverified /\ ~Readable
  /\ pc' = "raised"
  /\ UNCHANGED <<seen, matched, parents, change, todo, trees, red, green, verified,
                 examples>>

(* git archive or the sandbox raises: nothing is caught. *)
Raises ==
  /\ pc \in {"candidate", "run"} /\ parents = 1 /\ source_files # {}
  /\ pc' = "raised"
  /\ UNCHANGED <<seen, matched, parents, change, todo, trees, red, green, verified,
                 examples>>

Step ==
  \/ NextCommit \/ Return \/ NoPair \/ Materialize \/ Revert \/ Run \/ Skip \/ Emit
  \/ FileNotFound
Next == Step \/ Raises

Spec == Init /\ [][Next]_vars

-----------------------------------------------------------------------------
(* What is mined is what the tests saw: when a pair is emitted, the two trees *)
(* differ in the files of its diff and nowhere else, so that the change the   *)
(* example shows is the one that turned the suite green.                      *)
TheDiffIsTheDifference ==
  [][verified' > verified =>
       /\ red /\ green
       /\ \A f \in File : buggy[f] # fixed[f] <=> f \in Source /\ change[f] = "edited"]_vars

(* The tests of the commit are in both trees when they are run: the defect    *)
(* stays observable (git_mining.py:17-18).                                    *)
TestsStayAtTheFix ==
  pc \in {"run", "verify"} => \A f \in Test : buggy[f] = fixed[f]

(* The scan stops at whichever bound it meets first, with two examples of     *)
(* opposite label for each verified pair and none of any other commit.        *)
PairsAreBalanced ==
  /\ verified <= MaxPairs /\ matched <= Limit
  /\ Cardinality(examples) = 2 * verified
  /\ \A e \in examples : \E o \in examples : o.sha = e.sha /\ o.label # e.label

(* A mined pair shows one defect, once with it and once without.              *)
PairsAreSound == TestsStayAtTheFix /\ PairsAreBalanced

-----------------------------------------------------------------------------
(* git_mining.py:361-362: it "scans up to limit candidate commits and keeps   *)
(* the first max_pairs" that the sandbox confirms.  A confirmed fix that adds *)
(* a source file does not stop the scan.                                      *)
ConfirmedPairsAreKept ==
  [][pc = "verify" /\ red /\ green => pc' # "raised"]_vars
=============================================================================
