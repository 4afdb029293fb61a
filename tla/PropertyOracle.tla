--------------------------- MODULE PropertyOracle ---------------------------
(***************************************************************************)
(* The property oracle (nse/tools/property_oracle.py): the pristine        *)
(* function (golden) and the patched one (candidate) are called in turn on *)
(* generated arguments, and a crash of the candidate where golden worked   *)
(* prunes the branch.  There are two ways to run it: differential_check,   *)
(* in the process of the caller, on the objects of _VALUE_POOL themselves; *)
(* and the generated pytest harness in the sandbox, whose inputs are       *)
(* literals, objects of their own.                                         *)
(*                                                                         *)
(* The functions take two lists.  What matters of a list is its length, of *)
(* a function how many elements it needs in all, how many it takes out of  *)
(* its first argument, and what it adds to the total that it returns.      *)
(***************************************************************************)
EXTENDS Integers, Sequences, FiniteSets

CONSTANTS
  Pool,       \* lengths of the lists of _VALUE_POOL
  Inputs,     \* the argument lists generated: pairs of positions in Pool
  Candidates   \* [needs, takes, adds] of the functions considered

(* What an instance has to assume. *)
PropertyOracleAssumption ==
  /\ Pool \in Seq(Nat)
  /\ Inputs \in Seq((DOMAIN Pool) \X (DOMAIN Pool))
  /\ Candidates \subseteq [needs : Nat, takes : Nat, adds : Nat]

VARIABLES
  way,      \* "process" or "sandbox"
  golden, candidate,
  loads,    \* which of the two load: "both", "golden" alone, or "none" of use
  heap,     \* lengths of the objects the arguments refer to
  i,        \* the input being tried
  pc,       \* "load", "golden", "candidate", "done"
  returned, \* what golden returned for it
  comparable, new_crashes, divergences,
  ok        \* no new crash; in the sandbox, tests_passed

vars == <<way, golden, candidate, loads, heap, i, pc, returned, comparable,
          new_crashes, divergences, ok>>

(* The objects input k is made of: shared in process, its own in the sandbox. *)
Objects == IF way = "process" THEN DOMAIN Pool ELSE (DOMAIN Inputs) \X {1, 2}
Object(k, j) == IF way = "process" THEN Inputs[k][j] ELSE <<k, j>>
Initial(k, j) == Pool[Inputs[k][j]]

Init ==
  /\ way \in {"process", "sandbox"}
  /\ golden \in Candidates /\ candidate \in Candidates
  /\ loads \in {"both", "golden", "none"}
  /\ heap = <<>> /\ i = 1 /\ pc = "load" /\ returned = 0
  /\ comparable = 0 /\ new_crashes = 0 /\ divergences = 0 /\ ok = TRUE

(* The harness imports the patched module by its stem and looks the function  *)
(* up while pytest collects: a patched function that is not found there fails *)
(* the whole run.                                                             *)
Uncollected == way = "sandbox" /\ loads = "golden"

(* In process a function that does not load says nothing; and without golden  *)
(* there is no harness, so no verdict.                                        *)
Load ==
  /\ pc = "load"
  /\ heap' = [o \in Objects |-> IF way = "process" THEN Pool[o] ELSE Pool[Inputs[o[1]][o[2]]]]
  /\ \/ loads = "both" /\ pc' = "golden" /\ ok' = ok
     \/ loads # "both" /\ pc' = "done" /\ ok' = ~Uncollected
  /\ UNCHANGED <<way, golden, candidate, loads, i, returned, comparable, new_crashes,
                 divergences>>

Raises(f, x, y)  == x + y < f.needs
Result(f, x, y)  == x + y + f.adds
Rest(f, x)       == IF x >= f.takes THEN x - f.takes ELSE 0

X == heap[Object(i, 1)]
Y == heap[Object(i, 2)]
After(f) == [heap EXCEPT ![Object(i, 1)] = Rest(f, @)]

Trying == i <= Len(Inputs)

CrashIsACrash ==   \* mutant of GoldenRaises
  /\ pc = "golden" /\ Trying /\ Raises(golden, X, Y)
  /\ pc' = "candidate"
  /\ comparable' = comparable + 1
  /\ UNCHANGED <<way, golden, candidate, loads, heap, i, returned, new_crashes,
                 divergences, ok>>

(* "Original can't handle it": next input. *)
GoldenRaises ==
  /\ pc = "golden" /\ Trying /\ Raises(golden, X, Y)
  /\ i' = i + 1
  /\ UNCHANGED <<way, golden, candidate, loads, heap, pc, returned, comparable,
                 new_crashes, divergences, ok>>

GoldenReturns ==
  /\ pc = "golden" /\ Trying /\ ~Raises(golden, X, Y)
  /\ returned' = Result(golden, X, Y)
  /\ heap' = After(golden)
  /\ comparable' = comparable + 1
  /\ pc' = "candidate"
  /\ UNCHANGED <<way, golden, candidate, loads, i, new_crashes, divergences, ok>>

(* In process the crash is counted; the harness raises and is over. *)
CandidateRaises ==
  /\ pc = "candidate" /\ Raises(candidate, X, Y)
  /\ new_crashes' = new_crashes + 1 /\ ok' = FALSE
  /\ i' = i + 1
  /\ pc' = IF way = "process" THEN "golden" ELSE "done"
  /\ UNCHANGED <<way, golden, candidate, loads, heap, returned, comparable, divergences>>

(* The harness has no use for the value. *)
CandidateReturns ==
  /\ pc = "candidate" /\ ~Raises(candidate, X, Y)
  /\ divergences' = IF way = "process" /\ Result(candidate, X, Y) # returned
                      THEN divergences + 1 ELSE divergences
  /\ heap' = After(candidate)
  /\ i' = i + 1 /\ pc' = "golden"
  /\ UNCHANGED <<way, golden, candidate, loads, returned, comparable, new_crashes, ok>>

AllTried ==
  /\ pc = "golden" /\ ~Trying
  /\ pc' = "done"
  /\ UNCHANGED <<way, golden, candidate, loads, heap, i, returned, comparable,
                 new_crashes, divergences, ok>>

Next ==
  \/ Load \/ GoldenRaises \/ GoldenReturns \/ CandidateRaises \/ CandidateReturns
  \/ AllTried

Spec == Init /\ [][Next]_vars

-----------------------------------------------------------------------------
(* The inputs on which golden works and the candidate crashes, each called on *)
(* the arguments as they were generated.                                      *)
Handled    == {k \in DOMAIN Inputs : ~Raises(golden, Initial(k, 1), Initial(k, 2))}
NewCrashes == {k \in Handled : Raises(candidate, Initial(k, 1), Initial(k, 2))}

(* No call changes an argument that a later call is given. *)
Pure == golden.takes = 0 /\ (candidate.takes = 0 \/ way = "sandbox")

TypeOK ==
  /\ way \in {"process", "sandbox"} /\ pc \in {"load", "golden", "candidate", "done"}
  /\ golden \in Candidates /\ candidate \in Candidates
  /\ loads \in {"both", "golden", "none"}
  /\ i \in 1 .. Len(Inputs) + 1 /\ returned \in Nat
  /\ comparable \in 0 .. Len(Inputs) /\ ok \in BOOLEAN
  /\ new_crashes \in 0 .. comparable /\ divergences \in 0 .. comparable
  /\ pc # "load" => heap \in [Objects -> Nat]

(* If no call changes an argument of a later one, a branch is pruned by the   *)
(* oracle exactly for crashes the pristine code did not have, with one        *)
(* exception: in the sandbox a patched function that the harness cannot       *)
(* import is pruned as well, although nothing was called.                     *)
PureFunctionsAreJudgedRight ==
  pc = "done" /\ Pure =>
    (~ok <=> IF loads = "both" THEN NewCrashes # {} ELSE Uncollected)

(* The counts of differential_check are those of independent trials, and a    *)
(* crash is not also a divergence.                                            *)
CountsAreOfIndependentTrials ==
  pc = "done" /\ loads = "both" /\ way = "process" /\ Pure =>
    /\ comparable = Cardinality(Handled)
    /\ new_crashes = Cardinality(NewCrashes)
    /\ divergences = IF golden.adds = candidate.adds THEN 0
                     ELSE Cardinality(Handled \ NewCrashes)

(* The oracle's verdict and its counts are those of an ideal comparison, but  *)
(* for a patched function that the harness cannot import.                     *)
OracleIsRight == TypeOK /\ PureFunctionsAreJudgedRight /\ CountsAreOfIndependentTrials

(* What the docstring of run_property_oracle says of its result: "tests_passed *)
(* False == a new crash was found".                                            *)
PrunedForACrash ==
  pc = "done" /\ way = "sandbox" /\ Pure /\ ~ok => loads = "both" /\ NewCrashes # {}
=============================================================================
