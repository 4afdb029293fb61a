--------------------------- MODULE TrainingProofs ---------------------------
(***************************************************************************)
(* Proofs about the makers of training data and what is made of it: the    *)
(* properties of Mining, Distill, MemoryGraph and Training that            *)
(* MCTrainingData checks, each from the inductive invariant of its         *)
(* component, for every value of the constants.                            *)
(***************************************************************************)
EXTENDS MCTrainingData, FiniteSetTheorems, WellFoundedInduction, TLAPS

(***************************************************************************)
(* Numbers, sequences and finite sets.                                     *)
(***************************************************************************)

(* What a sequence lists. *)
LEMMA ElementsOf ==
  ASSUME NEW S, NEW s \in Seq(S)
  PROVE  Len(s) \in Nat /\ DOMAIN s = 1 .. Len(s) /\ \A k \in 1 .. Len(s) : s[k] \in S
OBVIOUS

(* Sequences of one length with the same elements are the same. *)
LEMMA SameSequences ==
  ASSUME NEW S, NEW s \in Seq(S), NEW t \in Seq(S), Len(s) = Len(t),
         \A k \in 1 .. Len(s) : s[k] = t[k]
  PROVE  s = t
OBVIOUS

(* The module's own copies of what FiniteSets defines. *)
LEMMA SameCounts ==
  /\ \A S : Fits!Cardinality(S) = Cardinality(S)
  /\ \A S : Labels!Cardinality(S) = Cardinality(S)
BY Zenon DEF Fits!Cardinality, Labels!Cardinality, Cardinality

(* A set with two different elements counts more than one. *)
LEMMA TwoAreMoreThanOne ==
  ASSUME NEW S, IsFiniteSet(S), NEW x \in S, NEW y \in S, x # y
  PROVE  Cardinality(S) \in Nat /\ Cardinality(S) > 1
<1>1. Cardinality(S) \in Nat
  BY FS_CardinalityType
<1>2. Cardinality(S) # 0
  BY FS_EmptySet
<1>3. Cardinality(S) # 1
  <2>1. \A z : S # {z}
    OBVIOUS
  <2>2. QED
    BY <2>1, FS_Singleton
<1>4. QED
  BY <1>1, <1>2, <1>3

(* Of some numbers, one is the least. *)
LEMMA LeastOf ==
  ASSUME NEW T, T \subseteq Nat, T # {}
  PROVE  \E x \in T : \A y \in T : x <= y
<1>1. PICK x \in T : \A y \in T : ~ (<<y, x>> \in OpToRel(<, Nat))
  BY WFMin, NatLessThanWellFounded
<1>2. \A y \in T : ~ (y < x)
  BY <1>1 DEF OpToRel
<1>3. QED
  BY <1>2

(* A part of a finite set that lacks an element of it counts less. *)
LEMMA LessCountsLess ==
  ASSUME NEW S, IsFiniteSet(S), NEW T, T \subseteq S, NEW x \in S, x \notin T
  PROVE  /\ Cardinality(T) \in Nat /\ Cardinality(S) \in Nat
         /\ Cardinality(T) < Cardinality(S)
<1>1. T \in SUBSET S /\ T # S
  OBVIOUS
<1>2. /\ IsFiniteSet(T) /\ Cardinality(T) <= Cardinality(S)
      /\ Cardinality(S) = Cardinality(T) => S = T
  BY <1>1, FS_Subset
<1>3. Cardinality(T) \in Nat /\ Cardinality(S) \in Nat
  BY <1>2, FS_CardinalityType
<1>4. QED
  BY <1>1, <1>2, <1>3

(* What holds of no number, or of the next when it holds of one, holds of all: *)
(* a set of numbers with zero and every successor.                             *)
LEMMA AllNumbersIn ==
  ASSUME NEW T, T \subseteq Nat, 0 \in T, \A n \in T : n + 1 \in T
  PROVE  T = Nat
<1> DEFINE U == Nat \ T
<1>1. SUFFICES ASSUME U # {} PROVE FALSE
  OBVIOUS
<1>2. PICK x \in U : \A y \in U : x <= y
  <2>1. U \subseteq Nat
    OBVIOUS
  <2> HIDE DEF U
  <2>2. QED
    BY <1>1, <2>1, LeastOf
<1>3. x \in Nat /\ x # 0 /\ x - 1 \in Nat /\ x - 1 \notin U
  BY <1>2
<1>4. x - 1 \in T
  BY <1>3
<1>5. x - 1 + 1 \in T
  BY <1>4
<1>6. QED
  BY <1>2, <1>3, <1>5

(***************************************************************************)
(* Mining.  The scan of a history, for any files, commits and bounds.      *)
(***************************************************************************)

(* The source files of a candidate, and what the trees hold while the buggy   *)
(* one is made: the files that were put back are at the parent, all others at *)
(* the commit.                                                                *)
Scanning ==
  /\ pc \in {"next", "candidate", "revert", "run", "verify", "returned", "raised"}
  /\ change \in [File -> Changes] /\ parents \in {0, 1}
  /\ todo \in SUBSET source_files /\ (pc # "revert" => todo = {})
  /\ red \in BOOLEAN /\ green \in BOOLEAN

Trees ==
  /\ pc \in {"revert", "run", "verify"} =>
       /\ fixed = [f \in File |-> AtCommit(f)]
       /\ buggy = [f \in File |-> IF f \in source_files \ todo THEN AtParent(f) ELSE AtCommit(f)]

(* The bounds of the scan. *)
Bounds ==
  /\ seen \in Nat /\ matched \in 0 .. Limit /\ verified \in 0 .. MaxPairs
  /\ pc \in {"candidate", "revert", "run", "verify"} => verified < MaxPairs

(* Two examples of each pair, none of the commit that is looked at. *)
Kept ==
  /\ IsFiniteSet(examples) /\ Cardinality(examples) = 2 * verified
  /\ \A e \in examples :
       /\ e.sha \in Nat /\ e.sha <= seen
       /\ pc \in {"candidate", "revert", "run", "verify"} => e.sha < seen
       /\ \E o \in examples : o.sha = e.sha /\ o.label # e.label

MiningInv == Scanning /\ Trees /\ Bounds /\ Kept

(* Every scan begins with nothing. *)
LEMMA MiningStarts == Init => MiningInv
<1> SUFFICES ASSUME Init PROVE MiningInv
  OBVIOUS
<1>1. Limit \in Nat /\ MaxPairs \in Nat
  BY MiningAssumption
<1>2. Scanning
  BY DEF Init, Scanning, Changes
<1>3. Trees /\ Bounds
  BY <1>1 DEF Init, Trees, Bounds
<1>4. Kept
  BY FS_EmptySet DEF Init, Kept
<1>5. QED
  BY <1>2, <1>3, <1>4 DEF MiningInv

(* What a pair adds are two examples that differ in their labels. *)
LEMMA APairIsTwo ==
  ASSUME NEW n \in Nat,
         NEW two, two = {[sha |-> n, kind |-> k, label |-> k = "real_fix"] :
                           k \in {"real_fix", "real_regression"}}
  PROVE  /\ IsFiniteSet(two) /\ Cardinality(two) = 2
         /\ \A e \in two : e.sha = n /\ \E o \in two : o.sha = e.sha /\ o.label # e.label
<1> DEFINE fix == [sha |-> n, kind |-> "real_fix", label |-> TRUE]
           bug == [sha |-> n, kind |-> "real_regression", label |-> FALSE]
<1>1. two = {fix, bug}
  OBVIOUS
<1>2. fix # bug /\ fix.sha = n /\ bug.sha = n /\ fix.label # bug.label
  OBVIOUS
<1> HIDE DEF fix, bug
<1>3. IsFiniteSet({fix}) /\ Cardinality({fix}) = 1
  BY FS_Singleton
<1>4. IsFiniteSet({fix} \cup {bug}) /\ Cardinality({fix} \cup {bug}) = 2
  <2>1. bug \notin {fix}
    BY <1>2
  <2>2. /\ IsFiniteSet({fix} \cup {bug})
        /\ Cardinality({fix} \cup {bug}) = IF bug \in {fix} THEN 1 ELSE 1 + 1
    BY <1>3, FS_AddElement
  <2>3. QED
    BY <2>1, <2>2
<1>5. {fix} \cup {bug} = two
  BY <1>1
<1>6. QED
  BY <1>1, <1>2, <1>4, <1>5

(* When the buggy tree is made, the files put back are those that differ.     *)
LEMMA TreesDiffer ==
  ASSUME NEW f \in File, change \in [File -> Changes]
  PROVE  /\ f \notin source_files => f \notin Source \/ change[f] # "edited"
         /\ f \in source_files =>
              /\ f \in Source /\ change[f] \in {"edited", "added", "deleted"}
              /\ change[f] = "edited" => AtParent(f) = "parent" /\ AtCommit(f) = "commit"
              /\ change[f] = "added" => AtParent(f) = "absent"
              /\ change[f] = "deleted" => AtCommit(f) = "absent"
BY DEF source_files, Named, AtParent, AtCommit, Changes

(* Leaving a candidate keeps what a scan is, with the examples as they are.   *)
LEMMA GoingOn ==
  ASSUME MiningInv, GoOn
  PROVE  Scanning' /\ Trees'
<1>1. /\ pc' = "next" /\ parents' = 0 /\ change' = [f \in File |-> "same"] /\ todo' = {}
      /\ red' = FALSE /\ green' = FALSE
  BY DEF GoOn
<1>2. QED
  BY <1>1 DEF Scanning, Trees, Changes

(* No step of build_real_examples disturbs the scan. *)
LEMMA MiningSteps == MiningInv /\ [Next]_vars => MiningInv'
<1> SUFFICES ASSUME MiningInv, [Next]_vars PROVE MiningInv'
  OBVIOUS
<1>0. Limit \in Nat /\ MaxPairs \in Nat /\ History \in Nat
  BY MiningAssumption
<1>1. CASE NextCommit
  <2>1. pc = "next" /\ seen' = seen + 1 /\ matched # Limit /\ verified < MaxPairs
        /\ UNCHANGED <<todo, trees, red, green, verified, examples>>
    BY <1>0, <1>1 DEF NextCommit, Enough, Exhausted, MiningInv, Bounds
  <2>2. \/ pc' = "next" /\ UNCHANGED <<pc, matched, parents, change>>
        \/ /\ pc' = "candidate" /\ matched' = matched + 1 /\ parents' \in {0, 1}
           /\ change' \in [File -> Changes]
    BY <1>1, <2>1 DEF NextCommit
  <2>3. Bounds'
    BY <1>0, <2>1, <2>2 DEF MiningInv, Bounds
  <2>4. Kept'
    <3>1. \A e \in examples : e.sha \in Nat /\ e.sha < seen + 1 /\ e.sha <= seen + 1
      BY DEF MiningInv, Bounds, Kept
    <3>2. QED
      BY <2>1, <3>1 DEF MiningInv, Kept
  <2>5. Trees'
    BY <2>1, <2>2 DEF Trees
  <2>6. todo = {}
    BY <2>1 DEF MiningInv, Scanning
  <2>7. Scanning'
    BY <2>1, <2>2, <2>6 DEF MiningInv, Scanning
  <2>8. QED
    BY <2>3, <2>4, <2>5, <2>7 DEF MiningInv
<1>2. CASE Return \/ Raises \/ FileNotFound
  <2>1. /\ pc' \in {"returned", "raised"} /\ pc # "revert"
        /\ UNCHANGED <<seen, matched, parents, change, todo, trees, red, green, verified,
                       examples>>
    BY <1>2 DEF Return, Raises, FileNotFound
  <2>2. Scanning'
    BY <2>1 DEF MiningInv, Scanning, source_files, Named
  <2>3. Trees' /\ Bounds' /\ Kept'
    BY <2>1 DEF MiningInv, Trees, Bounds, Kept
  <2>4. QED
    BY <2>2, <2>3 DEF MiningInv
<1>3. CASE NoPair \/ Skip
  <2>1. GoOn /\ UNCHANGED <<seen, matched, verified, examples>> /\ pc' = "next"
    BY <1>3 DEF NoPair, Skip, GoOn
  <2>2. Bounds' /\ Kept'
    BY <2>1 DEF MiningInv, Bounds, Kept
  <2>3. QED
    BY <2>1, <2>2, GoingOn DEF MiningInv
<1>4. CASE Materialize
  <2>1. /\ pc = "candidate" /\ pc' = "revert" /\ fixed' = [f \in File |-> AtCommit(f)]
        /\ buggy' = fixed' /\ todo' = source_files
        /\ UNCHANGED <<seen, matched, parents, change, red, green, verified, examples>>
    BY <1>4 DEF Materialize
  <2>2. UNCHANGED source_files
    BY <2>1 DEF source_files, Named
  <2>3. Scanning'
    BY <2>1, <2>2 DEF MiningInv, Scanning
  <2>4. Trees'
    BY <2>1 DEF Trees, source_files, Named, AtCommit, AtParent
  <2>5. Bounds' /\ Kept'
    BY <2>1 DEF MiningInv, Bounds, Kept
  <2>6. QED
    BY <2>3, <2>4, <2>5 DEF MiningInv
<1>5. CASE Revert
  <2>1. PICK f \in todo : buggy' = [buggy EXCEPT ![f] = AtParent(f)] /\ todo' = todo \ {f}
    BY <1>5 DEF Revert, Reverted
  <2>2. /\ pc = "revert" /\ pc' = IF todo' = {} THEN "run" ELSE pc
        /\ UNCHANGED <<seen, matched, parents, change, fixed, red, green, verified, examples>>
    BY <1>5 DEF Revert
  <2>3. Scanning'
    BY <2>1, <2>2 DEF MiningInv, Scanning, source_files, Named
  <2>4. f \in source_files /\ source_files \in SUBSET File
    BY <2>1 DEF MiningInv, Scanning, source_files, Named
  <2>5. buggy' = [d \in File |-> IF d \in source_files \ todo' THEN AtParent(d) ELSE AtCommit(d)]
    BY <2>1, <2>2, <2>4 DEF MiningInv, Trees
  <2>6. Trees'
    BY <2>2, <2>5 DEF MiningInv, Trees, source_files, Named, AtCommit, AtParent
  <2>7. Bounds' /\ Kept'
    BY <2>2 DEF MiningInv, Bounds, Kept
  <2>8. QED
    BY <2>3, <2>6, <2>7 DEF MiningInv
<1>6. CASE Run
  <2>1. /\ pc = "run" /\ pc' = "verify" /\ red' \in BOOLEAN /\ green' \in BOOLEAN
        /\ UNCHANGED <<seen, matched, parents, change, todo, trees, verified, examples>>
    BY <1>6 DEF Run
  <2>2. Scanning'
    BY <2>1 DEF MiningInv, Scanning, source_files, Named
  <2>3. Trees'
    BY <2>1 DEF MiningInv, Trees, trees, source_files, Named, AtCommit, AtParent
  <2>4. Bounds' /\ Kept'
    BY <2>1 DEF MiningInv, Bounds, Kept
  <2>5. QED
    BY <2>2, <2>3, <2>4 DEF MiningInv
<1>7. CASE Emit
  <2> DEFINE two == {[sha |-> seen, kind |-> k, label |-> k = "real_fix"] :
                       k \in {"real_fix", "real_regression"}}
  <2>1. /\ pc = "verify" /\ pc' = "next" /\ GoOn /\ UNCHANGED <<seen, matched>>
        /\ examples' = examples \cup two /\ verified' = verified + 1
    BY <1>7 DEF Emit, GoOn
  <2>2. seen \in Nat /\ verified \in Nat /\ verified < MaxPairs
    BY <2>1 DEF MiningInv, Bounds
  <2>3. Bounds'
    BY <1>0, <2>1, <2>2 DEF MiningInv, Bounds
  <2>4. /\ IsFiniteSet(two) /\ Cardinality(two) = 2
        /\ \A e \in two : e.sha = seen /\ \E o \in two : o.sha = e.sha /\ o.label # e.label
    BY <2>2, APairIsTwo
  <2> HIDE DEF two
  <2>5. /\ IsFiniteSet(examples) /\ Cardinality(examples) = 2 * verified
        /\ \A e \in examples : e.sha \in Nat /\ e.sha < seen
        /\ \A e \in examples : \E o \in examples : o.sha = e.sha /\ o.label # e.label
    BY <2>1 DEF MiningInv, Kept
  <2>6. examples \cap two = {}
    BY <2>2, <2>4, <2>5
  <2>7. /\ IsFiniteSet(examples')
        /\ Cardinality(examples') = Cardinality(examples) + Cardinality(two) - Cardinality({})
    BY <2>1, <2>4, <2>5, <2>6, FS_Union
  <2>8. Cardinality({}) = 0
    BY FS_EmptySet
  <2>9. Cardinality(examples') = 2 * verified'
    BY <2>1, <2>2, <2>4, <2>5, <2>7, <2>8
  <2>10. \A e \in examples' : e.sha \in Nat /\ e.sha <= seen
    BY <2>1, <2>2, <2>4, <2>5
  <2>11. \A e \in examples' : \E o \in examples' : o.sha = e.sha /\ o.label # e.label
    BY <2>1, <2>4, <2>5
  <2>12. Kept'
    BY <2>1, <2>7, <2>9, <2>10, <2>11 DEF Kept
  <2>13. QED
    BY <2>1, <2>3, <2>12, GoingOn DEF MiningInv
<1>8. CASE UNCHANGED vars
  <2>1. UNCHANGED <<pc, seen, matched, parents, change, todo, trees, red, green, verified,
                    examples>>
    BY <1>8 DEF vars
  <2>2. Scanning'
    BY <2>1 DEF MiningInv, Scanning, source_files, Named
  <2>3. Trees'
    BY <2>1 DEF MiningInv, Trees, trees, source_files, Named, AtCommit, AtParent
  <2>4. Bounds' /\ Kept'
    BY <2>1 DEF MiningInv, Bounds, Kept
  <2>5. QED
    BY <2>2, <2>3, <2>4 DEF MiningInv
<1>9. QED
  BY <1>1, <1>2, <1>3, <1>4, <1>5, <1>6, <1>7, <1>8 DEF Next, Step

(* The examples of build_real_examples are two for each confirmed pair and of *)
(* no other commit, within both bounds, and both runs of a pair see the tests *)
(* of the commit, whichever files it added, deleted or moved.                 *)
THEOREM MinedPairsAreSound == Spec => []PairsAreSound
<1>1. MiningInv => PairsAreSound
  <2> SUFFICES ASSUME MiningInv PROVE PairsAreSound
    OBVIOUS
  <2>1. TestsStayAtTheFix
    BY MiningAssumption
       DEF MiningInv, Trees, TestsStayAtTheFix, File, source_files, Named
  <2>2. PairsAreBalanced
    BY MiningAssumption DEF MiningInv, Bounds, Kept, PairsAreBalanced
  <2>3. QED
    BY <2>1, <2>2 DEF PairsAreSound
<1>2. QED
  BY <1>1, MiningStarts, MiningSteps, PTL DEF Spec

(* When a pair is emitted, its two trees differ in the source files its diff  *)
(* names as edited, and nowhere else (build_real_examples, _build_buggy_tree).  *)
THEOREM MinedDiffsAreDifferences == Spec => TheDiffIsTheDifference
<1> DEFINE Shown == verified' > verified =>
      /\ red /\ green
      /\ \A f \in File : buggy[f] # fixed[f] <=> f \in Source /\ change[f] = "edited"
<1>1. MiningInv /\ [Next]_vars => [Shown]_vars
  <2> SUFFICES ASSUME MiningInv, [Next]_vars, verified' > verified PROVE Shown
    OBVIOUS
  <2>1. verified \in Nat
    BY DEF MiningInv, Bounds
  <2>2. CASE Emit
    <3>1. pc = "verify" /\ red /\ green /\ Readable
      BY <2>2 DEF Emit, Unverified, MiningInv, Scanning
    <3>2. /\ todo = {} /\ fixed = [f \in File |-> AtCommit(f)]
          /\ buggy = [f \in File |-> IF f \in source_files \ todo THEN AtParent(f)
                                     ELSE AtCommit(f)]
      BY <3>1 DEF MiningInv, Trees, Scanning
    <3>3. ASSUME NEW f \in File
          PROVE  buggy[f] # fixed[f] <=> f \in Source /\ change[f] = "edited"
      <4>1. change \in [File -> Changes]
        BY DEF MiningInv, Scanning
      <4>2. CASE f \in source_files
        <5>1. buggy[f] = AtParent(f) /\ fixed[f] = AtCommit(f)
          BY <3>2, <4>2
        <5>2. buggy[f] # "absent" /\ fixed[f] # "absent"
          BY <3>1, <4>2 DEF Readable
        <5>3. QED
          BY <4>1, <4>2, <5>1, <5>2, TreesDiffer
      <4>3. CASE f \notin source_files
        BY <3>2, <4>1, <4>3, TreesDiffer
      <4>4. QED
        BY <4>2, <4>3
    <3>4. QED
      BY <3>1, <3>3
  <2>3. CASE ~Emit
    <3>1. UNCHANGED verified
      BY <2>3 DEF Next, Step, NextCommit, Return, NoPair, Materialize, Revert, Run, Skip,
                  FileNotFound, Raises, vars
    <3>2. QED
      BY <2>1, <3>1
  <2>4. QED
    BY <2>2, <2>3
<1>2. QED
  BY <1>1, MiningStarts, MiningSteps, PTL DEF Spec, TheDiffIsTheDifference

(***************************************************************************)
(* Distillation.  The labels of a teacher, for any sources, mutants, rows and *)
(* batch size.                                                             *)
(***************************************************************************)

(* The mutants of a file that are left when repetitions are dropped, counted. *)
FreshOf(f) == {m \in DOMAIN Raw[f] : Labels!Fresh(Raw[f], m)}
Fresher(f) == Cardinality(FreshOf(f))

(* They are finitely many, and the mutants that are kept are numbered by them. *)
LEMMA MutantsAreCounted ==
  ASSUME NEW f \in DOMAIN Raw
  PROVE  /\ IsFiniteSet(FreshOf(f)) /\ Fresher(f) \in Nat
         /\ DOMAIN Labels!generate_mutations(Raw[f]) = 1 .. Fresher(f)
         /\ Len(Labels!generate_mutations(Raw[f])) = Fresher(f)
<1>1. IsFiniteSet(FreshOf(f))
  <2>1. Len(Raw[f]) \in Nat /\ DOMAIN Raw[f] = 1 .. Len(Raw[f])
    BY LabelsAssumption DEF Labels!DistillAssumption
  <2>2. IsFiniteSet(1 .. Len(Raw[f]))
    <3>1. \A n \in Nat : IsFiniteSet(1 .. n)
      BY FS_Interval
    <3>2. QED
      BY <2>1, <3>1
  <2>3. FreshOf(f) \in SUBSET (1 .. Len(Raw[f]))
    BY <2>1 DEF FreshOf
  <2>4. QED
    BY <2>2, <2>3, FS_Subset
<1>2. Fresher(f) \in Nat
  BY <1>1, FS_CardinalityType DEF Fresher
<1> DEFINE G == Labels!generate_mutations(Raw[f])
<1>3. DOMAIN G = 1 .. Fresher(f) /\ G = [k \in 1 .. Fresher(f) |-> G[k]]
  BY SameCounts DEF Labels!generate_mutations, FreshOf, Fresher
<1>4. Len(G) = Fresher(f)
  <2> HIDE DEF G
  <2>1. G \in [1 .. Fresher(f) -> {G[k] : k \in 1 .. Fresher(f)}]
    BY <1>3
  <2>2. QED
    BY <1>2, <2>1
<1>5. QED
  BY <1>1, <1>2, <1>3, <1>4

(* How often each mutant was given to the simulator: once in the files that   *)
(* are behind, once up to the loop in the one it is at, not yet in the others. *)
Judging ==
  /\ step \in {"source", "batch", "done", "raised"}
  /\ at \in Nat \ {0} /\ i \in Nat
  /\ step = "batch" => at \in DOMAIN Sources
  /\ step = "done" => at > Len(Sources)
  /\ DOMAIN asked = DOMAIN Raw /\ \A f \in DOMAIN Raw : DOMAIN asked[f] = DOMAIN Raw[f]
  /\ step # "raised" =>
       \A k \in DOMAIN Sources : \A m \in DOMAIN Raw[Sources[k]] :
         asked[Sources[k]][m] =
           IF /\ m <= Fresher(Sources[k])
              /\ k < at \/ (k = at /\ step = "batch" /\ m <= i)
             THEN 1 ELSE 0

(* Where the labels are. *)
LastOfItsKind(r) == \A s \in DOMAIN Rows : Rows[s] = Rows[r] => s <= r
Labelled == {r \in DOMAIN Rows : Rows[r] \in answered /\ LastOfItsKind(r)}
Placing ==
  /\ DOMAIN soft = DOMAIN Rows /\ attached \in Nat
  /\ \A r \in DOMAIN Rows : IF r \in Labelled THEN soft[r] \in Answers ELSE soft[r] = earlier[r]
  /\ attached >= Cardinality(Labelled)

LabelsInv == Judging /\ Placing

(* The rows of the dataset are finitely many, numbered from one. *)
LEMMA RowsAreFinite ==
  /\ IsFiniteSet(DOMAIN Rows) /\ DOMAIN Rows \subseteq Nat
  /\ \A S \in SUBSET DOMAIN Rows : IsFiniteSet(S) /\ Cardinality(S) \in Nat
<1>1. Len(Rows) \in Nat /\ DOMAIN Rows = 1 .. Len(Rows)
  BY LabelsAssumption DEF Labels!DistillAssumption
<1>2. IsFiniteSet(DOMAIN Rows)
  <2>1. IsFiniteSet(1 .. Len(Rows))
    BY <1>1, FS_Interval
  <2>2. QED
    BY <1>1, <2>1
<1>3. \A S \in SUBSET DOMAIN Rows : IsFiniteSet(S) /\ Cardinality(S) \in Nat
  BY <1>2, FS_Subset, FS_CardinalityType
<1>4. QED
  BY <1>1, <1>2, <1>3

(* At the start nothing is answered, and each row has what it was read with. *)
LEMMA LabellingStarts == Labels!Init => LabelsInv
<1> SUFFICES ASSUME Labels!Init PROVE LabelsInv
  OBVIOUS
<1>1. Judging
  <2>1. /\ step = "source" /\ at = 1 /\ i = 0
        /\ asked = [f \in DOMAIN Raw |-> [m \in DOMAIN Raw[f] |-> 0]]
    BY DEF Labels!Init
  <2>2. DOMAIN Sources \subseteq Nat \ {0} /\ \A k \in DOMAIN Sources : Sources[k] \in DOMAIN Raw
    BY LabelsAssumption DEF Labels!DistillAssumption
  <2>3. ASSUME NEW k \in DOMAIN Sources, NEW m \in DOMAIN Raw[Sources[k]]
        PROVE  asked[Sources[k]][m] = 0 /\ ~(k < at)
    BY <2>1, <2>2
  <2>4. at \in Nat \ {0} /\ i \in Nat
    BY <2>1
  <2>5. QED
    BY <2>1, <2>3, <2>4 DEF Judging
<1>2. Placing
  <2>1. soft = earlier /\ DOMAIN soft = DOMAIN Rows /\ attached = 0 /\ answered = {}
    BY LabelsAssumption DEF Labels!Init, Labels!DistillAssumption
  <2>2. Labelled = {}
    BY <2>1 DEF Labelled
  <2>3. Cardinality({}) = 0
    BY FS_EmptySet
  <2>4. QED
    BY <2>1, <2>2, <2>3 DEF Placing
<1>3. QED
  BY <1>1, <1>2 DEF LabelsInv

(* A batch gives the simulator the next mutants, once each. *)
LEMMA BatchesKeepJudging ==
  ASSUME Judging, Labels!Simulate, UNCHANGED at, step' \in {"batch", "raised"}
  PROVE  Judging'
<1> DEFINE f == Sources[at]
<1>1. /\ step = "batch" /\ i < Len(Labels!mutants) /\ i' = i + BatchSize
      /\ asked' = [asked EXCEPT ![f] =
                     [m \in DOMAIN @ |-> IF m \in Labels!Batch THEN @[m] + 1 ELSE @[m]]]
  BY DEF Labels!Simulate, Labels!file
<1>2. /\ BatchSize \in Nat \ {0} /\ \A k, l \in DOMAIN Sources : Sources[k] = Sources[l] => k = l
      /\ \A k \in DOMAIN Sources : Sources[k] \in DOMAIN Raw /\ k \in Nat
  BY LabelsAssumption DEF Labels!DistillAssumption
<1>3. at \in DOMAIN Sources /\ f \in DOMAIN Raw /\ i \in Nat /\ at \in Nat \ {0}
  BY <1>1, <1>2 DEF Judging
<1>4. /\ DOMAIN asked = DOMAIN Raw /\ DOMAIN asked[f] = DOMAIN Raw[f]
      /\ \A l \in DOMAIN Raw : DOMAIN asked[l] = DOMAIN Raw[l]
  BY <1>3 DEF Judging
<1>5. \A m : m \in Labels!Batch <=> m \in 1 .. Fresher(f) /\ i < m /\ m <= i + BatchSize
  BY <1>3, MutantsAreCounted DEF Labels!Batch, Labels!mutants, Labels!file
<1>6. /\ DOMAIN asked' = DOMAIN Raw
      /\ \A l \in DOMAIN Raw : l # f => asked'[l] = asked[l]
      /\ asked'[f] = [m \in DOMAIN Raw[f] |-> IF m \in Labels!Batch THEN asked[f][m] + 1
                                              ELSE asked[f][m]]
  <2> HIDE DEF f
  <2>1. QED
    BY <1>1, <1>3, <1>4
<1>7. \A l \in DOMAIN Raw : DOMAIN asked'[l] = DOMAIN Raw[l]
  BY <1>4, <1>6
<1>8. DOMAIN Raw[f] \subseteq Nat \ {0} /\ Fresher(f) \in Nat
  BY <1>3, LabelsAssumption, MutantsAreCounted DEF Labels!DistillAssumption
<1>9. ASSUME NEW k \in DOMAIN Sources, NEW m \in DOMAIN Raw[Sources[k]]
      PROVE  asked'[Sources[k]][m] =
               IF m <= Fresher(Sources[k]) /\ (k < at \/ (k = at /\ m <= i + BatchSize))
                 THEN 1 ELSE 0
  <2>1. asked[Sources[k]][m] =
          IF m <= Fresher(Sources[k]) /\ (k < at \/ (k = at /\ m <= i)) THEN 1 ELSE 0
    BY <1>1 DEF Judging
  <2>2. CASE k = at
    <3>1. asked[f][m] = IF m <= Fresher(f) /\ m <= i THEN 1 ELSE 0
      BY <1>3, <2>1, <2>2
    <3>2. asked'[f][m] = IF m \in 1 .. Fresher(f) /\ i < m /\ m <= i + BatchSize
                           THEN asked[f][m] + 1 ELSE asked[f][m]
      BY <1>5, <1>6, <2>2
    <3>3. m \in Nat \ {0} /\ Fresher(f) \in Nat
      BY <1>8, <2>2
    <3> HIDE DEF f
    <3>4. asked'[f][m] = IF m <= Fresher(f) /\ m <= i + BatchSize THEN 1 ELSE 0
      BY <1>2, <1>3, <3>1, <3>2, <3>3
    <3>5. QED
      BY <1>3, <2>2, <3>4 DEF f
  <2>3. CASE k # at
    <3>1. Sources[k] # f /\ Sources[k] \in DOMAIN Raw
      BY <1>2, <1>3, <2>3
    <3>2. asked'[Sources[k]] = asked[Sources[k]]
      BY <1>6, <3>1
    <3>3. QED
      BY <2>1, <2>3, <3>2
  <2>4. QED
    BY <2>2, <2>3
<1>10. i' \in Nat
  BY <1>1, <1>2, <1>3
<1>11. /\ at' \in Nat \ {0} /\ at' = at
       /\ step' = "batch" => at' \in DOMAIN Sources
  BY <1>3
<1>12. step' \in {"batch", "raised"}
  OBVIOUS
<1>13. step' # "raised" =>
         \A k \in DOMAIN Sources : \A m \in DOMAIN Raw[Sources[k]] :
           asked'[Sources[k]][m] =
             IF /\ m <= Fresher(Sources[k])
                /\ k < at' \/ (k = at' /\ step' = "batch" /\ m <= i')
               THEN 1 ELSE 0
  BY <1>1, <1>9, <1>11, <1>12
<1>14. QED
  BY <1>6, <1>7, <1>10, <1>11, <1>12, <1>13 DEF Judging

(* From file to file nothing is asked. *)
LEMMA SourcesKeepJudging ==
  ASSUME Judging, Labels!ReadSource \/ Labels!Done \/ Labels!NextSource
  PROVE  Judging'
<1>1. /\ Len(Sources) \in Nat /\ DOMAIN Sources = 1 .. Len(Sources)
      /\ \A k \in DOMAIN Sources : Sources[k] \in DOMAIN Raw /\ k \in Nat
      /\ \A f \in DOMAIN Raw : DOMAIN Raw[f] \subseteq Nat \ {0} /\ Fresher(f) \in Nat
  BY LabelsAssumption, MutantsAreCounted DEF Labels!DistillAssumption
<1>2. at \in Nat /\ i \in Nat
  BY DEF Judging
<1>3. CASE Labels!ReadSource \/ Labels!Done
  <2>1. /\ step = "source" /\ UNCHANGED <<at, asked>>
        /\ \/ step' = "batch" /\ i' = 0 /\ at <= Len(Sources)
           \/ step' = "done" /\ i' = i /\ at > Len(Sources)
    BY <1>3 DEF Labels!ReadSource, Labels!Done
  <2>2. ASSUME NEW k \in DOMAIN Sources, NEW m \in DOMAIN Raw[Sources[k]]
        PROVE  asked'[Sources[k]][m] =
                 IF /\ m <= Fresher(Sources[k])
                    /\ k < at' \/ (k = at' /\ step' = "batch" /\ m <= i')
                   THEN 1 ELSE 0
    <3>1. asked[Sources[k]][m] = IF m <= Fresher(Sources[k]) /\ k < at THEN 1 ELSE 0
      BY <2>1 DEF Judging
    <3>2. m \in Nat \ {0} /\ k \in Nat
      BY <1>1
    <3>3. QED
      BY <2>1, <3>1, <3>2
  <2>3. step' = "batch" => at' \in DOMAIN Sources
    <3>1. step' = "batch" => at # 0
      BY <2>1 DEF Judging
    <3>2. QED
      BY <1>1, <1>2, <2>1, <3>1
  <2>4. QED
    BY <1>2, <2>1, <2>2, <2>3 DEF Judging
<1>4. CASE Labels!NextSource
  <2>1. /\ step = "batch" /\ i >= Len(Labels!mutants) /\ step' = "source" /\ at' = at + 1
        /\ UNCHANGED <<i, asked>>
    BY <1>4 DEF Labels!NextSource
  <2>2. at \in DOMAIN Sources
    BY <2>1 DEF Judging
  <2>3. i >= Fresher(Sources[at])
    BY <1>1, <2>1, <2>2, MutantsAreCounted DEF Labels!mutants, Labels!file
  <2>4. ASSUME NEW k \in DOMAIN Sources, NEW m \in DOMAIN Raw[Sources[k]]
        PROVE  asked'[Sources[k]][m] =
                 IF m <= Fresher(Sources[k]) /\ k < at' THEN 1 ELSE 0
    <3>1. asked[Sources[k]][m] =
            IF m <= Fresher(Sources[k]) /\ (k < at \/ (k = at /\ m <= i)) THEN 1 ELSE 0
      BY <2>1 DEF Judging
    <3>2. m \in Nat \ {0} /\ k \in Nat /\ Fresher(Sources[k]) \in Nat
      BY <1>1
    <3>3. k = at /\ m <= Fresher(Sources[k]) => m <= i
      BY <1>2, <2>3, <3>2
    <3>4. QED
      BY <1>2, <2>1, <3>1, <3>2, <3>3
  <2>5. QED
    BY <1>2, <2>1, <2>4 DEF Judging
<1>5. QED
  BY <1>3, <1>4

(* The answers among A that match a row, and the rows they match. *)
MatchedOf(A, what) == {m \in A : Labels!index(what[m]) # {}}
FoundOf(A, what)   == UNION {Labels!index(what[m]) : m \in A}

(* The answers that were matched are as many as the rows they were matched to, *)
(* or more.                                                                    *)
LEMMA AnswersCoverRows ==
  ASSUME NEW A, IsFiniteSet(A), NEW what
  PROVE  /\ IsFiniteSet(FoundOf(A, what)) /\ FoundOf(A, what) \subseteq DOMAIN Rows
         /\ Cardinality(MatchedOf(A, what)) \in Nat
         /\ Cardinality(FoundOf(A, what)) <= Cardinality(MatchedOf(A, what))
<1> DEFINE Heard == {m \in A : Labels!index(what[m]) # {}}
           Hit   == UNION {Labels!index(what[m]) : m \in A}
<1>1. IsFiniteSet(Heard) /\ Heard \subseteq A
  <2>1. Heard \in SUBSET A
    OBVIOUS
  <2>2. QED
    BY <2>1, FS_Subset
<1>2. Hit \subseteq DOMAIN Rows
  BY DEF Labels!index
<1>3. IsFiniteSet(Hit)
  BY <1>2, RowsAreFinite, FS_Subset
<1>4. \A w : \A r, s \in Labels!index(w) : r = s
  BY RowsAreFinite DEF Labels!index
<1> DEFINE rowOf == [m \in Heard |-> CHOOSE r \in Labels!index(what[m]) : TRUE]
<1>5. \A m \in Heard : rowOf[m] \in Labels!index(what[m])
  OBVIOUS
<1>6. rowOf \in Surjection(Heard, Hit)
  <2>1. \A m \in Heard : rowOf[m] \in Hit
    BY <1>1, <1>5
  <2>2. ASSUME NEW r \in Hit PROVE \E m \in Heard : rowOf[m] = r
    <3>1. PICK m \in A : r \in Labels!index(what[m])
      OBVIOUS
    <3>2. m \in Heard
      BY <3>1
    <3>3. rowOf[m] = r
      BY <1>4, <1>5, <3>1, <3>2
    <3>4. QED
      BY <3>2, <3>3
  <2>3. rowOf \in [Heard -> Hit]
    BY <2>1
  <2> HIDE DEF rowOf
  <2>4. QED
    BY <2>2, <2>3 DEF Surjection
<1>7. Cardinality(Hit) <= Cardinality(Heard) /\ Cardinality(Heard) \in Nat
  <2> HIDE DEF rowOf
  <2>1. QED
    BY <1>1, <1>6, FS_Surjection, FS_CardinalityType
<1>8. QED
  BY <1>2, <1>3, <1>7 DEF MatchedOf, FoundOf

(* The answers of a batch are placed where they belong. *)
LEMMA AnswersKeepPlacing ==
  ASSUME Judging, Placing, Labels!Answered
  PROVE  Placing'
<1> DEFINE whats(A)   == {Labels!mutants[m].what : m \in A}
           Hit(A) == UNION {Labels!index(w) : w \in whats(A)}
           Heard(A)   == {m \in A : Labels!index(Labels!mutants[m].what) # {}}
<1>1. PICK A \in SUBSET Labels!Batch, kept \in [DOMAIN Rows -> Answers] :
        /\ soft' = [r \in DOMAIN Rows |-> IF r \in Hit(A) THEN kept[r] ELSE soft[r]]
        /\ attached' = attached + Labels!Cardinality(Heard(A))
        /\ answered' = answered \cup {[file |-> Labels!file, what |-> w] : w \in whats(A)}
  BY DEF Labels!Answered
<1>2. step = "batch"
  BY DEF Labels!Answered, Labels!Simulate
<1>3. IsFiniteSet(A)
  <2>1. at \in DOMAIN Sources /\ Sources[at] \in DOMAIN Raw
    BY <1>2, LabelsAssumption DEF Judging, Labels!DistillAssumption
  <2>2. A \in SUBSET (1 .. Fresher(Sources[at])) /\ Fresher(Sources[at]) \in Nat
    BY <2>1, MutantsAreCounted DEF Labels!Batch, Labels!mutants, Labels!file
  <2>3. IsFiniteSet(1 .. Fresher(Sources[at]))
    BY <2>2, FS_Interval
  <2>4. QED
    BY <2>2, <2>3, FS_Subset
<1>4. /\ IsFiniteSet(Hit(A)) /\ Hit(A) \subseteq DOMAIN Rows
      /\ Cardinality(Heard(A)) \in Nat /\ Cardinality(Hit(A)) <= Cardinality(Heard(A))
  <2> DEFINE what == [m \in A |-> Labels!mutants[m].what]
  <2>1. \A m \in A : what[m] = Labels!mutants[m].what
    OBVIOUS
  <2> HIDE DEF what
  <2>2. Heard(A) = MatchedOf(A, what)
    BY <2>1 DEF MatchedOf
  <2>3. Hit(A) = FoundOf(A, what)
    BY <2>1 DEF FoundOf
  <2> HIDE DEF Heard, Hit
  <2>4. QED
    BY <1>3, <2>2, <2>3, AnswersCoverRows
<1>5. earlier' = earlier
  BY DEF Labels!Answered
<1>6. \A r \in DOMAIN Rows : r \in Hit(A) <=>
        LastOfItsKind(r) /\ \E w \in whats(A) : Rows[r] = [file |-> Labels!file, what |-> w]
  BY DEF Labels!index, LastOfItsKind
<1>7. Labelled' = Labelled \cup Hit(A)
  <2>1. ASSUME NEW r \in DOMAIN Rows
        PROVE  r \in Labelled' <=> r \in Labelled \/ r \in Hit(A)
    <3>1. Rows[r] \in answered' <=>
            \/ Rows[r] \in answered
            \/ \E w \in whats(A) : Rows[r] = [file |-> Labels!file, what |-> w]
      BY <1>1
    <3>2. r \in Hit(A) <=>
            LastOfItsKind(r) /\ \E w \in whats(A) : Rows[r] = [file |-> Labels!file, what |-> w]
      BY <1>6
    <3>3. r \in Labelled' <=> Rows[r] \in answered' /\ LastOfItsKind(r)
      BY DEF Labelled, LastOfItsKind
    <3>4. r \in Labelled <=> Rows[r] \in answered /\ LastOfItsKind(r)
      BY DEF Labelled
    <3> HIDE DEF Hit, whats
    <3>5. QED
      BY <3>1, <3>2, <3>3, <3>4
  <2>2. Labelled \subseteq DOMAIN Rows /\ Labelled' \subseteq DOMAIN Rows
    BY DEF Labelled
  <2> HIDE DEF Hit
  <2>3. QED
    BY <1>4, <2>1, <2>2
<1>8. \A r \in DOMAIN Rows :
        IF r \in Labelled' THEN soft'[r] \in Answers ELSE soft'[r] = earlier'[r]
  <2>1. ASSUME NEW r \in DOMAIN Rows
        PROVE  IF r \in Labelled' THEN soft'[r] \in Answers ELSE soft'[r] = earlier'[r]
    <3>1. IF r \in Labelled THEN soft[r] \in Answers ELSE soft[r] = earlier[r]
      BY DEF Placing
    <3>2. soft'[r] = IF r \in Hit(A) THEN kept[r] ELSE soft[r]
      BY <1>1
    <3> HIDE DEF Hit
    <3>3. QED
      BY <1>5, <1>7, <3>1, <3>2
  <2>2. QED
    BY <2>1
<1>9. attached' \in Nat /\ attached' >= Cardinality(Labelled')
  <2>1. attached' = attached + Cardinality(Heard(A))
    BY <1>1, SameCounts
  <2>2. attached \in Nat /\ attached >= Cardinality(Labelled)
    BY DEF Placing
  <2>3. Labelled \in SUBSET DOMAIN Rows
    BY DEF Labelled
  <2>4. IsFiniteSet(Labelled) /\ Cardinality(Labelled) \in Nat
    BY <2>3, RowsAreFinite
  <2> HIDE DEF Hit, Heard
  <2>5. Labelled \cap Hit(A) \in SUBSET DOMAIN Rows /\ Hit(A) \in SUBSET DOMAIN Rows
    BY <1>4, <2>3
  <2>6. Cardinality(Labelled \cap Hit(A)) \in Nat /\ Cardinality(Hit(A)) \in Nat
    BY <2>5, RowsAreFinite
  <2>7. Cardinality(Labelled') =
          Cardinality(Labelled) + Cardinality(Hit(A)) - Cardinality(Labelled \cap Hit(A))
    BY <1>4, <1>7, <2>4, FS_Union
  <2>8. QED
    BY <1>4, <2>1, <2>2, <2>4, <2>6, <2>7
<1>10. DOMAIN soft' = DOMAIN Rows
  BY <1>1
<1>11. QED
  BY <1>8, <1>9, <1>10 DEF Placing

(* No step of the distillation pays for a mutant twice or misplaces a label. *)
LEMMA LabelSteps == LabelsInv /\ [Labels!Next]_(Labels!vars) => LabelsInv'
<1> SUFFICES ASSUME LabelsInv, [Labels!Next]_(Labels!vars) PROVE LabelsInv'
  OBVIOUS
<1>1. Judging /\ Placing
  BY DEF LabelsInv
<1>2. ASSUME UNCHANGED <<earlier, soft, attached, answered>> PROVE Placing'
  BY <1>1, <1>2 DEF Placing, Labelled, LastOfItsKind
<1>3. CASE Labels!ReadSource \/ Labels!Done \/ Labels!NextSource
  <2>1. UNCHANGED <<earlier, soft, attached, answered>>
    BY <1>3 DEF Labels!ReadSource, Labels!Done, Labels!NextSource
  <2>2. QED
    BY <1>1, <1>2, <1>3, <2>1, SourcesKeepJudging DEF LabelsInv
<1>4. CASE Labels!AgentFails \/ Labels!Raises
  <2>1. /\ Labels!Simulate /\ UNCHANGED at /\ step' \in {"batch", "raised"}
        /\ UNCHANGED <<earlier, soft, attached, answered>>
    BY <1>4 DEF Labels!AgentFails, Labels!Raises, Labels!Simulate
  <2>2. QED
    BY <1>1, <1>2, <2>1, BatchesKeepJudging DEF LabelsInv
<1>5. CASE Labels!Answered
  <2>1. Labels!Simulate /\ UNCHANGED at /\ step' \in {"batch", "raised"}
    BY <1>5 DEF Labels!Answered, Labels!Simulate
  <2>2. QED
    BY <1>1, <1>5, <2>1, BatchesKeepJudging, AnswersKeepPlacing DEF LabelsInv
<1>6. CASE UNCHANGED Labels!vars
  <2>1. UNCHANGED <<step, at, i, earlier, soft, attached, asked, answered>>
    BY <1>6 DEF Labels!vars
  <2>2. Judging'
    BY <1>1, <2>1 DEF Judging
  <2>3. QED
    BY <1>1, <1>2, <2>1, <2>2 DEF LabelsInv
<1>7. QED
  BY <1>3, <1>4, <1>5, <1>6 DEF Labels!Next

(* Every mutant is given to the simulator once, and its answers are on the    *)
(* rows of their file and description; every other row keeps the label it was *)
(* read with, or none (attach_soft_labels).                                   *)
THEOREM TeachersLabelsAreRight == Labels!Spec => []LabelsAreRight
<1>1. ASSUME LabelsInv PROVE Labels!EveryMutantIsJudgedOnce
  <2>1. SUFFICES ASSUME step = "done", NEW k \in DOMAIN Sources,
                        NEW m \in DOMAIN Raw[Sources[k]]
                 PROVE  asked[Sources[k]][m] = (IF m <= Fresher(Sources[k]) THEN 1 ELSE 0)
    BY SameCounts DEF Labels!EveryMutantIsJudgedOnce, Fresher, FreshOf
  <2>2. k < at
    <3>1. k <= Len(Sources) /\ k \in Nat /\ Len(Sources) \in Nat
      BY LabelsAssumption DEF Labels!DistillAssumption
    <3>2. at \in Nat /\ at > Len(Sources)
      BY <1>1, <2>1 DEF LabelsInv, Judging
    <3>3. QED
      BY <3>1, <3>2
  <2>3. QED
    BY <1>1, <2>1, <2>2 DEF LabelsInv, Judging
<1>2. ASSUME LabelsInv PROVE Labels!LabelsAreWhereTheyBelong
  <2>1. \A r \in DOMAIN Rows : Labels!SpokenOf(r) <=> r \in Labelled
    BY DEF Labels!SpokenOf, Labelled, LastOfItsKind
  <2>2. \A r \in DOMAIN Rows :
          IF Labels!SpokenOf(r) THEN soft[r] \in Answers ELSE soft[r] = earlier[r]
    BY <1>2, <2>1 DEF LabelsInv, Placing
  <2>3. {r \in DOMAIN Rows : Labels!SpokenOf(r)} = Labelled
    BY <2>1 DEF Labelled
  <2>4. attached >= Labels!Cardinality({r \in DOMAIN Rows : Labels!SpokenOf(r)})
    BY <1>2, <2>3, SameCounts DEF LabelsInv, Placing
  <2>5. QED
    BY <2>2, <2>4 DEF Labels!LabelsAreWhereTheyBelong
<1>3. LabelsInv => LabelsAreRight
  BY <1>1, <1>2 DEF LabelsAreRight, Labels!LabelsAreRight
<1>4. QED
  BY <1>3, LabellingStarts, LabelSteps, PTL DEF Labels!Spec

(***************************************************************************)
(* The memory graph, for any files and texts: the functions by which it is *)
(* defined are unfolded once, by induction over the definitions of a text and *)
(* over the rounds in which a neighbourhood grows.                         *)
(***************************************************************************)

(* A text is a list of definitions, each in an earlier one or in none. *)
LEMMA TextsAreLists ==
  ASSUME repo \in [Path -> Text], NEW f \in Path
  PROVE  /\ Len(Graph!Def(f)) \in Nat /\ Graph!Index(f) = 1 .. Len(Graph!Def(f))
         /\ DOMAIN Graph!Def(f) = 1 .. Len(Graph!Def(f))
         /\ \A k \in Graph!Index(f) : Graph!Def(f)[k].within \in 0 .. k - 1
BY GraphAssumption DEF Graph!MemoryGraphAssumption, Graph!Def, Graph!Index

(* One unfolding of the recursive function of qualified names. *)
QualOf(f, q, n) ==
  [k \in 1 .. n |-> IF Graph!Def(f)[k].within = 0 THEN <<Graph!Def(f)[k].name>>
                    ELSE Append(q[Graph!Def(f)[k].within], Graph!Def(f)[k].name)]

(* The qualified name of a definition is that of the one it stands in, if it   *)
(* stands in one, and its own name.                                            *)
LEMMA QualNamesExist ==
  ASSUME repo \in [Path -> Text], NEW f \in Path
  PROVE  Graph!QualName(f) = QualOf(f, Graph!QualName(f), Len(Graph!Def(f)))
<1> DEFINE len == Len(Graph!Def(f))
           T   == {n \in Nat : n <= len => \E q : q = QualOf(f, q, n)}
<1>1. len \in Nat /\ Graph!Index(f) = 1 .. len
      /\ \A k \in 1 .. len : Graph!Def(f)[k].within \in 0 .. k - 1
  BY TextsAreLists
<1> HIDE DEF len
<1>2. 0 \in T
  <2>1. QualOf(f, <<>>, 0) = <<>>
    BY DEF QualOf
  <2>2. QED
    BY <2>1
<1>3. ASSUME NEW n \in T PROVE n + 1 \in T
  <2>1. SUFFICES ASSUME n + 1 <= len PROVE \E q : q = QualOf(f, q, n + 1)
    BY <1>3
  <2>2. n \in Nat /\ n <= len
    BY <1>1, <1>3, <2>1
  <2>3. PICK p : p = QualOf(f, p, n)
    BY <1>3, <2>2
  <2> DEFINE q == [k \in 1 .. n + 1 |-> QualOf(f, p, n + 1)[k]]
  <2>4. \A k \in 1 .. n : p[k] = QualOf(f, p, n + 1)[k]
    <3>1. \A k \in 1 .. n : p[k] = QualOf(f, p, n)[k]
      BY <2>3, Zenon
    <3>2. \A k \in 1 .. n : QualOf(f, p, n)[k] = QualOf(f, p, n + 1)[k]
      BY <2>2 DEF QualOf
    <3>3. QED
      BY <3>1, <3>2
  <2>5. \A k \in 1 .. n : q[k] = p[k]
    BY <2>2, <2>4
  <2>6. ASSUME NEW k \in 1 .. n + 1 PROVE q[k] = QualOf(f, q, n + 1)[k]
    <3>1. q[k] = IF Graph!Def(f)[k].within = 0 THEN <<Graph!Def(f)[k].name>>
                 ELSE Append(p[Graph!Def(f)[k].within], Graph!Def(f)[k].name)
      BY DEF QualOf
    <3>2. Graph!Def(f)[k].within # 0 => Graph!Def(f)[k].within \in 1 .. n
      BY <1>1, <2>1, <2>2
    <3> HIDE DEF q
    <3>3. q[k] = IF Graph!Def(f)[k].within = 0 THEN <<Graph!Def(f)[k].name>>
                 ELSE Append(q[Graph!Def(f)[k].within], Graph!Def(f)[k].name)
      BY <2>5, <3>1, <3>2
    <3>4. QED
      BY <3>3 DEF QualOf
  <2>7. q = [k \in 1 .. n + 1 |-> QualOf(f, q, n + 1)[k]]
    <3>1. q = [k \in 1 .. n + 1 |-> q[k]]
      OBVIOUS
    <3> HIDE DEF q
    <3>2. QED
      BY <2>6, <3>1, Zenon
  <2>8. \A r : QualOf(f, r, n + 1) = [k \in 1 .. n + 1 |-> QualOf(f, r, n + 1)[k]]
    BY DEF QualOf
  <2>9. q = QualOf(f, q, n + 1)
    <3> HIDE DEF q
    <3>1. QED
      BY <2>7, <2>8
  <2>10. QED
    BY <2>9
<1>4. T = Nat
  <2>1. T \subseteq Nat
    OBVIOUS
  <2> HIDE DEF T
  <2>2. QED
    BY <1>2, <1>3, <2>1, AllNumbersIn
<1>5. PICK q : q = QualOf(f, q, len)
  BY <1>1, <1>4
<1>6. Graph!QualName(f) = CHOOSE p : p = QualOf(f, p, len)
  BY <1>1 DEF Graph!QualName, QualOf
<1>7. QED
  BY <1>5, <1>6 DEF len

(* A qualified name is a list of names that ends in the definition's own. *)
LEMMA QualNamesEndInNames ==
  ASSUME repo \in [Path -> Text], NEW f \in Path, NEW k \in Graph!Index(f)
  PROVE  /\ Len(Graph!QualName(f)[k]) \in 0 .. k
         /\ Graph!Last(Graph!QualName(f)[k]) = Graph!Def(f)[k].name
<1> DEFINE len   == Len(Graph!Def(f))
           names == {Graph!Def(f)[l].name : l \in 1 .. len}
           q     == Graph!QualName(f)
           Good(l) == q[l] \in Seq(names) /\ Len(q[l]) <= l
           U     == {l \in 1 .. len : ~Good(l)}
<1>1. len \in Nat /\ Graph!Index(f) = 1 .. len
      /\ \A l \in 1 .. len : Graph!Def(f)[l].within \in 0 .. l - 1
  BY TextsAreLists
<1>2. q = QualOf(f, q, len)
  BY QualNamesExist
<1> HIDE DEF len, q
<1>3. ASSUME NEW l \in 1 .. len
      PROVE  q[l] = IF Graph!Def(f)[l].within = 0 THEN <<Graph!Def(f)[l].name>>
                    ELSE Append(q[Graph!Def(f)[l].within], Graph!Def(f)[l].name)
  <2>1. QualOf(f, q, len)[l] =
          IF Graph!Def(f)[l].within = 0 THEN <<Graph!Def(f)[l].name>>
          ELSE Append(q[Graph!Def(f)[l].within], Graph!Def(f)[l].name)
    BY DEF QualOf
  <2>2. q[l] = QualOf(f, q, len)[l]
    BY <1>2, Zenon
  <2>3. QED
    BY <2>1, <2>2
<1>4. U = {}
  <2>1. SUFFICES ASSUME U # {} PROVE FALSE
    OBVIOUS
  <2>2. U \subseteq Nat
    BY <1>1
  <2>3. PICK l \in U : \A m \in U : l <= m
    <3> HIDE DEF U
    <3>1. QED
      BY <2>1, <2>2, LeastOf
  <2>4. l \in 1 .. len /\ Graph!Def(f)[l].name \in names
    BY <2>3
  <2> DEFINE w == Graph!Def(f)[l].within
             n == Graph!Def(f)[l].name
  <2>5. w \in 0 .. l - 1
    BY <1>1, <2>4
  <2>6. q[l] = IF w = 0 THEN <<n>> ELSE Append(q[w], n)
    BY <1>3, <2>4
  <2>7. w # 0 => q[w] \in Seq(names) /\ Len(q[w]) <= w
    <3> HIDE DEF w, names
    <3>1. w # 0 => w \in 1 .. len /\ ~(l <= w)
      BY <1>1, <2>4, <2>5
    <3>2. QED
      BY <2>3, <3>1
  <2>8. Good(l)
    <3> HIDE DEF w, n, names
    <3>1. n \in names
      BY <2>4 DEF n
    <3>2. CASE w = 0
      <4>1. q[l] = <<n>>
        BY <2>6, <3>2
      <4>2. QED
        BY <2>4, <3>1, <4>1
    <3>3. CASE w # 0
      <4>1. q[l] = Append(q[w], n) /\ q[w] \in Seq(names) /\ Len(q[w]) <= w
        BY <2>6, <2>7, <3>3
      <4>2. q[l] \in Seq(names) /\ Len(q[l]) = Len(q[w]) + 1 /\ Len(q[w]) \in Nat
        BY <3>1, <4>1
      <4>3. Len(q[l]) <= l
        BY <1>1, <2>4, <2>5, <4>1, <4>2
      <4>4. QED
        BY <4>2, <4>3
    <3>4. QED
      BY <3>2, <3>3
  <2>9. QED
    BY <2>3, <2>8
<1>5. k \in 1 .. len /\ q[k] \in Seq(names) /\ Len(q[k]) <= k
  BY <1>1, <1>4
<1> DEFINE w == Graph!Def(f)[k].within
           n == Graph!Def(f)[k].name
<1>6. q[k] = IF w = 0 THEN <<n>> ELSE Append(q[w], n)
  BY <1>3, <1>5
<1>7. w # 0 => q[w] \in Seq(names)
  <2>1. w \in 0 .. k - 1
    BY <1>1, <1>5
  <2>2. w # 0 => w \in 1 .. len
    BY <1>1, <1>5, <2>1
  <2>3. QED
    BY <1>4, <2>2
<1>8. n \in names
  BY <1>5
<1> HIDE DEF w, n, names
<1>9. q[k][Len(q[k])] = n
  BY <1>6, <1>7, <1>8
<1>10. Len(q[k]) \in 0 .. k
  <2>1. Len(q[k]) \in Nat
    BY <1>5
  <2>2. QED
    BY <1>1, <1>5, <2>1
<1>11. QED
  BY <1>9, <1>10 DEF Graph!Last, q, n

(* The place of a file in the order of a scan. *)
LEMMA RanksTellFilesApart ==
  ASSUME NEW order \in Graph!ScanOrders, NEW f \in Path
  PROVE  Graph!Rank(order, f) \in Nat /\ order[Graph!Rank(order, f)] = f
<1>1. order \in [1 .. Cardinality(Path) -> Path] /\ {order[k] : k \in DOMAIN order} = Path
  <2>1. Graph!Cardinality(Path) = Cardinality(Path)
    BY Zenon DEF Graph!Cardinality, Cardinality
  <2>2. QED
    BY <2>1 DEF Graph!ScanOrders, Graph!ToSet
<1>2. \E k \in DOMAIN order : order[k] = f
  BY <1>1
<1>3. Graph!Rank(order, f) \in DOMAIN order /\ order[Graph!Rank(order, f)] = f
  BY <1>2 DEF Graph!Rank
<1>4. Cardinality(Path) \in Nat
  BY GraphAssumption, FS_CardinalityType DEF Graph!MemoryGraphAssumption, IsFiniteSet,
     Graph!IsFiniteSet
<1>5. QED
  BY <1>1, <1>3, <1>4

(* Which definition of a name a scan finds first. *)
IsFound(order, name, d) ==
  /\ d \in Graph!Named(name)
  /\ \A h \in Graph!Named(name) :
       IF h[1] = d[1] THEN d[2] <= h[2]
       ELSE Graph!Rank(order, d[1]) < Graph!Rank(order, h[1])

(* What a name resolves to is a function of a file that parses. *)
LEMMA NamesAreOfFunctions ==
  ASSUME NEW name, NEW d \in Graph!Named(name)
  PROVE  /\ d = <<d[1], d[2]>> /\ d[1] \in Path /\ d[1] \in Graph!Parsed
         /\ d[2] \in Graph!FunctionsOf(d[1]) /\ d[2] \in Graph!Index(d[1])
         /\ Graph!Def(d[1])[d[2]].name = name
BY DEF Graph!Named, Graph!Parsed, Graph!FunctionsOf

(* A name that is defined is found, once. *)
LEMMA OneIsFound ==
  ASSUME repo \in [Path -> Text], NEW order \in Graph!ScanOrders, NEW name,
         Graph!Named(name) # {}
  PROVE  \E d : IsFound(order, name, d) /\ \A h : IsFound(order, name, h) => h = d
<1> DEFINE N     == Graph!Named(name)
           rk(d) == Graph!Rank(order, d[1])
<1>1. \A d \in N : /\ rk(d) \in Nat /\ order[rk(d)] = d[1] /\ d[2] \in Nat /\ d[1] \in Path
                   /\ d = <<d[1], d[2]>>
  <2>1. ASSUME NEW d \in N PROVE d[2] \in Nat
    BY NamesAreOfFunctions, TextsAreLists
  <2>2. QED
    BY <2>1, NamesAreOfFunctions, RanksTellFilesApart
<1>2. PICK c \in N : \A h \in N : rk(c) <= rk(h)
  <2> DEFINE R == {rk(d) : d \in N}
  <2>1. R \subseteq Nat /\ R # {}
    BY <1>1
  <2> HIDE DEF R
  <2>2. PICK x \in R : \A y \in R : x <= y
    BY <2>1, LeastOf
  <2>3. QED
    BY <2>2 DEF R
<1>3. PICK d \in N : d[1] = c[1] /\ \A h \in N : h[1] = c[1] => d[2] <= h[2]
  <2> DEFINE R == {h[2] : h \in {e \in N : e[1] = c[1]}}
  <2>1. R \subseteq Nat /\ R # {}
    BY <1>1
  <2> HIDE DEF R
  <2>2. PICK x \in R : \A y \in R : x <= y
    BY <2>1, LeastOf
  <2>3. QED
    BY <2>2 DEF R
<1>4. IsFound(order, name, d)
  <2>1. ASSUME NEW h \in N, h[1] # d[1] PROVE rk(d) < rk(h)
    <3>1. rk(d) = rk(c) /\ rk(c) <= rk(h)
      BY <1>2, <1>3
    <3>2. rk(d) # rk(h)
      BY <1>1, <2>1
    <3>3. rk(d) \in Nat /\ rk(h) \in Nat
      BY <1>1
    <3>4. QED
      BY <3>1, <3>2, <3>3
  <2>2. QED
    BY <1>3, <2>1 DEF IsFound
<1>5. ASSUME NEW h, IsFound(order, name, h) PROVE h = d
  <2>1. h \in N /\ d \in N
    BY <1>5 DEF IsFound
  <2>2. rk(d) \in Nat /\ rk(h) \in Nat /\ d[2] \in Nat /\ h[2] \in Nat
    BY <1>1, <2>1
  <2>3. h[1] = d[1]
    <3>1. SUFFICES ASSUME h[1] # d[1] PROVE FALSE
      OBVIOUS
    <3>2. rk(d) < rk(h) /\ rk(h) < rk(d)
      BY <1>4, <1>5, <2>1, <3>1 DEF IsFound
    <3>3. QED
      BY <2>2, <3>2
  <2>4. d[2] <= h[2] /\ h[2] <= d[2]
    BY <1>4, <1>5, <2>1, <2>3 DEF IsFound
  <2>5. h[2] = d[2]
    BY <2>2, <2>4
  <2>6. QED
    BY <1>1, <2>1, <2>3, <2>5
<1>6. QED
  BY <1>4, <1>5

(* A call of a name has as callee the definition that the scan found. *)
LEMMA CalleesAreFound ==
  ASSUME NEW order, NEW f, NEW name, NEW n
  PROVE  n \in Graph!CalleeOf(order, f, name) <=>
           \E d : IsFound(order, name, d) /\ n = Graph!NodeId(d[1], d[2])
BY DEF Graph!CalleeOf, IsFound

(* What the edges of an extracted graph are. *)
IsEdge(order, e) ==
  \E f \in Graph!Parsed :
    \/ \E k \in Graph!Index(f) : e = <<Graph!Module(f), Graph!NodeId(f, k), "CONTAINS">>
    \/ \E m \in repo[f].imports \cap Graph!Parsed :
         e = <<Graph!Module(f), Graph!Module(m), "IMPORTS">>
    \/ \E k \in Graph!FunctionsOf(f) : \E c \in Graph!CallsIn(f, k) :
         \E callee \in Graph!CalleeOf(order, f, c) :
           e = <<Graph!NodeId(f, k), callee, "CALLS">>

(* They are those of containment, of imports and of calls, and no others. *)
LEMMA EdgesAre ==
  ASSUME NEW order, NEW e
  PROVE  e \in Graph!Extract(order).edge <=> IsEdge(order, e)
BY DEF Graph!Extract, IsEdge

(* Both ends of every edge are nodes. *)
LEMMA EdgesJoinNodes ==
  ASSUME repo \in [Path -> Text], NEW order
  PROVE  \A e \in Graph!Extract(order).edge :
           e[1] \in Graph!Extract(order).node /\ e[2] \in Graph!Extract(order).node
<1> DEFINE N == Graph!Extract(order).node
           E == Graph!Extract(order).edge
<1>1. N = UNION {{Graph!Module(f)} \cup {Graph!NodeId(f, k) : k \in Graph!Index(f)} :
                 f \in Graph!Parsed}
  BY DEF Graph!Extract
<1>2. \A f \in Graph!Parsed :
        Graph!Module(f) \in N /\ \A k \in Graph!Index(f) : Graph!NodeId(f, k) \in N
  BY <1>1
<1>3. \A e \in E : IsEdge(order, e)
  BY EdgesAre
<1>4. ASSUME NEW f, NEW c, NEW callee \in Graph!CalleeOf(order, f, c)
      PROVE  callee \in N
  <2>1. PICK d : IsFound(order, c, d) /\ callee = Graph!NodeId(d[1], d[2])
    BY CalleesAreFound
  <2>2. d[1] \in Graph!Parsed /\ d[2] \in Graph!Index(d[1])
    BY <2>1, NamesAreOfFunctions DEF IsFound
  <2>3. QED
    BY <1>2, <2>1, <2>2
<1>5. \A f : Graph!FunctionsOf(f) \subseteq Graph!Index(f)
  BY DEF Graph!FunctionsOf
<1> HIDE DEF N, E
<1>6. \A e \in E : e[1] \in N /\ e[2] \in N
  BY <1>2, <1>3, <1>4, <1>5 DEF IsEdge
<1>7. QED
  BY <1>6 DEF N, E

(* The graph is empty, or one that was extracted. *)
GraphInv ==
  /\ repo \in [Path -> Text] /\ current \in BOOLEAN
  /\ \A e \in g.edge : e[1] \in g.node /\ e[2] \in g.node
  /\ current => \E order \in Graph!ScanOrders : g = Graph!Extract(order)

(* The empty graph before the first build is sound. *)
LEMMA GraphStarts == Graph!Init => GraphInv
<1> SUFFICES ASSUME Graph!Init PROVE GraphInv
  OBVIOUS
<1>1. repo \in [Path -> Text] /\ current = FALSE /\ g.edge = {}
  BY DEF Graph!Init, Graph!Empty
<1>2. QED
  BY <1>1 DEF GraphInv

(* An edit leaves the graph, and a build or an update extracts one. *)
LEMMA GraphSteps == GraphInv /\ [Graph!Next]_(Graph!vars) => GraphInv'
<1> SUFFICES ASSUME GraphInv, [Graph!Next]_(Graph!vars) PROVE GraphInv'
  OBVIOUS
<1>1. CASE Graph!Edit
  <2>1. PICK f \in Path, t \in Text : repo' = [repo EXCEPT ![f] = t]
    BY <1>1 DEF Graph!Edit
  <2>2. g' = g /\ current' = FALSE
    BY <1>1 DEF Graph!Edit
  <2>3. repo' \in [Path -> Text]
    BY <2>1 DEF GraphInv
  <2>4. QED
    BY <2>2, <2>3 DEF GraphInv
<1>2. CASE Graph!Build \/ Graph!UpdateOnPatch
  <2>1. PICK order \in Graph!ScanOrders : g' = Graph!Added(Graph!Empty, Graph!Extract(order))
    BY <1>2 DEF Graph!Build, Graph!UpdateOnPatch, Graph!Cleared
  <2>2. repo' = repo /\ current' = TRUE
    BY <1>2 DEF Graph!Build, Graph!UpdateOnPatch
  <2>3. Graph!Extract(order) = [node |-> Graph!Extract(order).node,
                                edge |-> Graph!Extract(order).edge]
    BY DEF Graph!Extract
  <2>4. g' = Graph!Extract(order)
    BY <2>1, <2>3 DEF Graph!Added, Graph!Empty
  <2>5. Graph!Extract(order)' = Graph!Extract(order) /\ Graph!ScanOrders' = Graph!ScanOrders
    BY <2>2 DEF Graph!Extract, Graph!Parsed, Graph!Module, Graph!NodeId, Graph!Index,
                Graph!QualName, Graph!FunctionsOf, Graph!CallsIn, Graph!CalleeOf, Graph!Named,
                Graph!Def, Graph!Around, Graph!ScanOrders
  <2>6. \A e \in g'.edge : e[1] \in g'.node /\ e[2] \in g'.node
    BY <2>4, EdgesJoinNodes DEF GraphInv
  <2>7. QED
    BY <2>2, <2>4, <2>5, <2>6 DEF GraphInv
<1>3. CASE UNCHANGED Graph!vars
  <2>1. UNCHANGED <<repo, g, current>>
    BY <1>3 DEF Graph!vars
  <2>2. \A order : Graph!Extract(order)' = Graph!Extract(order)
    BY <2>1 DEF Graph!Extract, Graph!Parsed, Graph!Module, Graph!NodeId, Graph!Index,
                Graph!QualName, Graph!FunctionsOf, Graph!CallsIn, Graph!CalleeOf, Graph!Named,
                Graph!Def, Graph!Around
  <2>3. Graph!ScanOrders' = Graph!ScanOrders
    BY DEF Graph!ScanOrders
  <2>4. QED
    BY <2>1, <2>2, <2>3 DEF GraphInv
<1>4. QED
  BY <1>1, <1>2, <1>3 DEF Graph!Next

(* In an extracted graph, a function that calls a name that is defined has    *)
(* one edge to a definition of that name.                                     *)
LEMMA OneEdgeForEachCall ==
  ASSUME repo \in [Path -> Text], NEW order \in Graph!ScanOrders, g = Graph!Extract(order),
         NEW f \in Graph!Parsed, NEW k \in Graph!FunctionsOf(f), NEW name \in Graph!CallsIn(f, k),
         Graph!Named(name) # {}
  PROVE  Graph!Cardinality(Graph!CalledAs(Graph!NodeId(f, k), name)) = 1
<1>1. PICK d : IsFound(order, name, d) /\ \A h : IsFound(order, name, h) => h = d
  BY OneIsFound
<1> DEFINE n == Graph!NodeId(f, k)
           m == Graph!NodeId(d[1], d[2])
<1>2. <<n, m, "CALLS">> \in g.edge
  <2>1. m \in Graph!CalleeOf(order, f, name)
    BY <1>1, CalleesAreFound
  <2> HIDE DEF m
  <2>2. QED
    BY <2>1, EdgesAre DEF IsEdge
<1>3. m \in g.node
  <2>1. <<n, m, "CALLS">>[2] \in g.node
    BY <1>2, EdgesJoinNodes
  <2>2. QED
    BY <2>1
<1>4. \A c, h : IsFound(order, c, h) => Graph!Last(Graph!NodeId(h[1], h[2])[2]) = c
  <2>1. ASSUME NEW c, NEW h, IsFound(order, c, h)
        PROVE  Graph!Last(Graph!NodeId(h[1], h[2])[2]) = c
    <3>1. h \in Graph!Named(c)
      BY <2>1 DEF IsFound
    <3>2. h[1] \in Path /\ h[2] \in Graph!Index(h[1]) /\ Graph!Def(h[1])[h[2]].name = c
      BY <3>1, NamesAreOfFunctions
    <3>3. Graph!NodeId(h[1], h[2])[2] = Graph!QualName(h[1])[h[2]]
      BY DEF Graph!NodeId
    <3>4. QED
      BY <3>2, <3>3, QualNamesEndInNames
  <2>2. QED
    BY <2>1
<1>5. m \in Graph!CalledAs(n, name)
  BY <1>1, <1>2, <1>3, <1>4 DEF Graph!CalledAs
<1>6. ASSUME NEW x \in Graph!CalledAs(n, name) PROVE x = m
  <2>1. IsEdge(order, <<n, x, "CALLS">>) /\ Graph!Last(x[2]) = name
    BY EdgesAre DEF Graph!CalledAs
  <2> HIDE DEF n
  <2>2. PICK b, c : x \in Graph!CalleeOf(order, b, c)
    BY <2>1 DEF IsEdge
  <2>3. PICK h : IsFound(order, c, h) /\ x = Graph!NodeId(h[1], h[2])
    BY <2>2, CalleesAreFound
  <2>4. c = name
    BY <1>4, <2>1, <2>3
  <2>5. h = d
    BY <1>1, <2>3, <2>4
  <2>6. QED
    BY <2>3, <2>5
<1>7. Graph!CalledAs(n, name) = {m}
  BY <1>5, <1>6
<1>8. Cardinality({m}) = 1
  BY FS_Singleton
<1>9. \A S : Graph!Cardinality(S) = Cardinality(S)
  BY Zenon DEF Graph!Cardinality, Cardinality
<1>10. QED
  BY <1>7, <1>8, <1>9

(* Where no function name is defined in two files, any scan finds the same.   *)
LEMMA ScansFindTheSame ==
  ASSUME NEW p \in Graph!ScanOrders, NEW q \in Graph!ScanOrders,
         \A name \in UNION {{Graph!Def(f)[k].name : k \in Graph!FunctionsOf(f)} :
                            f \in Graph!Parsed} :
           Graph!Cardinality({d[1] : d \in Graph!Named(name)}) = 1
  PROVE  Graph!Extract(p) = Graph!Extract(q)
<1>1. ASSUME NEW name, NEW d \in Graph!Named(name), NEW h \in Graph!Named(name)
      PROVE  d[1] = h[1]
  <2> DEFINE F == {c[1] : c \in Graph!Named(name)}
  <2>1. Graph!Cardinality(F) = 1
    <3>1. /\ d[1] \in Graph!Parsed /\ d[2] \in Graph!FunctionsOf(d[1])
          /\ Graph!Def(d[1])[d[2]].name = name
      BY NamesAreOfFunctions
    <3>2. name \in UNION {{Graph!Def(f)[k].name : k \in Graph!FunctionsOf(f)} :
                          f \in Graph!Parsed}
      BY <3>1
    <3>3. QED
      BY <3>2
  <2>2. Cardinality(F) = 1
    BY <2>1, Zenon DEF Graph!Cardinality, Cardinality
  <2>3. F \in SUBSET Path
    BY NamesAreOfFunctions
  <2>4. IsFiniteSet(F)
    <3>1. IsFiniteSet(Path)
      BY GraphAssumption DEF Graph!MemoryGraphAssumption, IsFiniteSet, Graph!IsFiniteSet
    <3> HIDE DEF F
    <3>2. QED
      BY <2>3, <3>1, FS_Subset
  <2>5. d[1] \in F /\ h[1] \in F
    OBVIOUS
  <2> HIDE DEF F
  <2>6. QED
    BY <2>2, <2>4, <2>5, TwoAreMoreThanOne
<1>2. ASSUME NEW name, NEW d PROVE IsFound(p, name, d) <=> IsFound(q, name, d)
  BY <1>1 DEF IsFound
<1>3. ASSUME NEW f, NEW name PROVE Graph!CalleeOf(p, f, name) = Graph!CalleeOf(q, f, name)
  <2>1. \A n : n \in Graph!CalleeOf(p, f, name) <=> n \in Graph!CalleeOf(q, f, name)
    BY <1>2, CalleesAreFound
  <2>2. \A n \in Graph!CalleeOf(p, f, name) : n \in Graph!CalleeOf(q, f, name)
    BY <2>1
  <2>3. \A n \in Graph!CalleeOf(q, f, name) : n \in Graph!CalleeOf(p, f, name)
    BY <2>1
  <2>4. QED
    BY <2>2, <2>3
<1>4. Graph!Extract(p).edge = Graph!Extract(q).edge
  <2>1. \A e : IsEdge(p, e) <=> IsEdge(q, e)
    BY <1>3 DEF IsEdge
  <2>2. \A e : e \in Graph!Extract(p).edge <=> e \in Graph!Extract(q).edge
    BY <2>1, EdgesAre
  <2>3. QED
    BY <2>2
<1>5. Graph!Extract(p).node = Graph!Extract(q).node
  BY DEF Graph!Extract
<1>6. \A order : Graph!Extract(order) = [node |-> Graph!Extract(order).node,
                                      edge |-> Graph!Extract(order).edge]
  BY DEF Graph!Extract
<1>7. QED
  BY <1>4, <1>5, <1>6

(* What lies at the end of a walk of a length along the edges. *)
Joined(n, m) == \E e \in g.edge : {e[1], e[2]} = {n, m}
IsWalk(seeds, k, path) ==
  /\ path \in [0 .. k -> g.node] /\ path[0] \in seeds
  /\ \A s \in 1 .. k : Joined(path[s - 1], path[s])
Walked(seeds, k) == {n \in g.node : \E path : IsWalk(seeds, k, path) /\ path[k] = n}

(* A walk is one of a step less, and a step. *)
LEMMA WalksGoOn ==
  ASSUME NEW seeds, NEW k \in Nat
  PROVE  /\ Walked(seeds, 0) = seeds \cap g.node
         /\ Walked(seeds, k + 1) = UNION {Graph!Adjacent(n) : n \in Walked(seeds, k)}
<1>1. Walked(seeds, 0) \subseteq seeds \cap g.node
  BY DEF Walked, IsWalk
<1>2. ASSUME NEW n \in seeds \cap g.node PROVE n \in Walked(seeds, 0)
  <2> DEFINE path == [s \in 0 .. 0 |-> n]
  <2>1. path \in [0 .. 0 -> g.node] /\ path[0] = n
    OBVIOUS
  <2> HIDE DEF path
  <2>2. IsWalk(seeds, 0, path)
    BY <2>1 DEF IsWalk
  <2>3. QED
    BY <2>1, <2>2 DEF Walked
<1>3. ASSUME NEW m \in Walked(seeds, k + 1)
      PROVE  \E n \in Walked(seeds, k) : m \in Graph!Adjacent(n)
  <2>1. PICK path : IsWalk(seeds, k + 1, path) /\ path[k + 1] = m
    BY DEF Walked
  <2> DEFINE less == [s \in 0 .. k |-> path[s]]
  <2>2. less \in [0 .. k -> g.node] /\ \A s \in 0 .. k : less[s] = path[s]
    BY <2>1 DEF IsWalk
  <2> HIDE DEF less
  <2>3. /\ path[0] \in seeds /\ path[k] \in g.node /\ m \in g.node
        /\ \A s \in 1 .. k + 1 : Joined(path[s - 1], path[s])
    BY <2>1 DEF IsWalk
  <2>4. IsWalk(seeds, k, less)
    <3>1. less[0] \in seeds
      BY <2>2, <2>3
    <3>2. \A s \in 1 .. k : s \in 1 .. k + 1 /\ less[s - 1] = path[s - 1] /\ less[s] = path[s]
      BY <2>2
    <3>3. QED
      BY <2>2, <2>3, <3>1, <3>2 DEF IsWalk
  <2>5. path[k] \in Walked(seeds, k)
    BY <2>2, <2>3, <2>4 DEF Walked
  <2>6. Joined(path[k], m)
    <3>1. k + 1 \in 1 .. k + 1 /\ k + 1 - 1 = k
      OBVIOUS
    <3>2. QED
      BY <2>1, <2>3, <3>1
  <2>7. QED
    BY <2>3, <2>5, <2>6 DEF Joined, Graph!Adjacent
<1>4. ASSUME NEW n \in Walked(seeds, k), NEW m \in Graph!Adjacent(n)
      PROVE  m \in Walked(seeds, k + 1)
  <2>1. PICK path : IsWalk(seeds, k, path) /\ path[k] = n
    BY DEF Walked
  <2>2. m \in g.node /\ Joined(n, m)
    BY DEF Graph!Adjacent, Joined
  <2> DEFINE more == [s \in 0 .. k + 1 |-> IF s = k + 1 THEN m ELSE path[s]]
  <2>3. more \in [0 .. k + 1 -> g.node]
    BY <2>1, <2>2 DEF IsWalk
  <2>4. more[k + 1] = m /\ \A s \in 0 .. k : more[s] = path[s]
    OBVIOUS
  <2> HIDE DEF more
  <2>5. IsWalk(seeds, k + 1, more)
    <3>1. more[0] \in seeds
      BY <2>1, <2>4 DEF IsWalk
    <3>2. ASSUME NEW s \in 1 .. k + 1 PROVE Joined(more[s - 1], more[s])
      <4>1. CASE s = k + 1
        <5>1. more[s - 1] = n /\ more[s] = m
          BY <2>1, <2>4, <4>1
        <5>2. QED
          BY <2>2, <5>1
      <4>2. CASE s \in 1 .. k
        <5>1. more[s - 1] = path[s - 1] /\ more[s] = path[s]
          BY <2>4, <4>2
        <5>2. QED
          BY <2>1, <4>2, <5>1 DEF IsWalk
      <4>3. QED
        BY <4>1, <4>2
    <3>3. QED
      BY <2>3, <3>1, <3>2 DEF IsWalk
  <2>6. QED
    BY <2>2, <2>4, <2>5 DEF Walked
<1>5. QED
  BY <1>1, <1>2, <1>3, <1>4

(* One unfolding of the rounds in which a neighbourhood grows. *)
GrownOf(seeds, q, depth) ==
  [d \in 0 .. depth |->
     IF d = 0 THEN <<seeds \cap g.node, seeds \cap g.node>>
     ELSE <<q[d - 1][1] \cup UNION {Graph!Adjacent(n) : n \in q[d - 1][2]},
            UNION {Graph!Adjacent(n) : n \in q[d - 1][2]}>>]

(* What walks of at most d edges reach. *)
Reached(seeds, d) == UNION {Walked(seeds, k) : k \in 0 .. d}

(* After d rounds a neighbourhood is what walks of at most d edges reach. *)
LEMMA RoundsAreWalks ==
  ASSUME NEW seeds, NEW depth \in Nat
  PROVE  Graph!Within(seeds, depth) = Reached(seeds, depth)
<1> DEFINE Round(d) == <<Reached(seeds, d), Walked(seeds, d)>>
           q        == [d \in 0 .. depth |-> Round(d)]
<1>1. Round(0) = <<seeds \cap g.node, seeds \cap g.node>>
  <2>1. Reached(seeds, 0) = Walked(seeds, 0)
    BY DEF Reached
  <2>2. QED
    BY <2>1, WalksGoOn
<1>2. ASSUME NEW d \in Nat
      PROVE  Round(d + 1) =
               <<Reached(seeds, d) \cup UNION {Graph!Adjacent(n) : n \in Walked(seeds, d)},
                 UNION {Graph!Adjacent(n) : n \in Walked(seeds, d)}>>
  <2>1. Reached(seeds, d + 1) = Reached(seeds, d) \cup Walked(seeds, d + 1)
    <3>1. 0 .. d + 1 = (0 .. d) \cup {d + 1}
      OBVIOUS
    <3>2. QED
      BY <3>1 DEF Reached
  <2>2. QED
    BY <2>1, WalksGoOn
<1>3. ASSUME NEW d \in 1 .. depth
      PROVE  Round(d) = <<Round(d - 1)[1] \cup UNION {Graph!Adjacent(n) : n \in Round(d - 1)[2]},
                          UNION {Graph!Adjacent(n) : n \in Round(d - 1)[2]}>>
  <2>1. d - 1 \in Nat /\ d - 1 + 1 = d
    OBVIOUS
  <2>2. Round(d - 1)[1] = Reached(seeds, d - 1) /\ Round(d - 1)[2] = Walked(seeds, d - 1)
    OBVIOUS
  <2>3. Round(d - 1 + 1) =
          <<Reached(seeds, d - 1) \cup UNION {Graph!Adjacent(n) : n \in Walked(seeds, d - 1)},
            UNION {Graph!Adjacent(n) : n \in Walked(seeds, d - 1)}>>
    BY <1>2, <2>1
  <2> HIDE DEF Round
  <2>4. QED
    BY <2>1, <2>2, <2>3
<1> HIDE DEF Round
<1>4. q = GrownOf(seeds, q, depth)
  <2>1. ASSUME NEW d \in 0 .. depth PROVE q[d] = GrownOf(seeds, q, depth)[d]
    <3>1. CASE d = 0
      BY <1>1, <3>1 DEF GrownOf
    <3>2. CASE d # 0
      <4>1. d \in 1 .. depth /\ q[d - 1] = Round(d - 1) /\ q[d] = Round(d)
        BY <3>2
      <4> HIDE DEF q
      <4>2. QED
        BY <1>3, <3>2, <4>1 DEF GrownOf
    <3>3. QED
      BY <3>1, <3>2
  <2> DEFINE G == GrownOf(seeds, q, depth)
  <2>2. G = [d \in 0 .. depth |-> G[d]]
    BY DEF GrownOf
  <2>3. q = [d \in 0 .. depth |-> q[d]]
    OBVIOUS
  <2> HIDE DEF q, G
  <2>4. \A d \in 0 .. depth : q[d] = G[d]
    BY <2>1 DEF G
  <2>5. [d \in 0 .. depth |-> q[d]] = [d \in 0 .. depth |-> G[d]]
    BY <2>4
  <2>6. q = G
    BY <2>2, <2>3, <2>5, Zenon
  <2>7. QED
    BY <2>6 DEF G
<1>5. ASSUME NEW p, p = GrownOf(seeds, p, depth) PROVE p[depth] = Round(depth)
  <2> DEFINE T == {d \in Nat : d <= depth => p[d] = Round(d)}
  <2>1. \A d \in 0 .. depth : p[d] = GrownOf(seeds, p, depth)[d]
    BY <1>5, Zenon
  <2>2. 0 \in T
    <3>1. 0 \in 0 .. depth
      OBVIOUS
    <3>2. p[0] = GrownOf(seeds, p, depth)[0]
      BY <2>1, <3>1
    <3>3. GrownOf(seeds, p, depth)[0] = <<seeds \cap g.node, seeds \cap g.node>>
      BY <3>1 DEF GrownOf
    <3>4. p[0] = Round(0)
      BY <1>1, <3>2, <3>3
    <3>5. QED
      BY <3>4
  <2>3. ASSUME NEW d \in T PROVE d + 1 \in T
    <3>1. SUFFICES ASSUME d + 1 <= depth PROVE p[d + 1] = Round(d + 1)
      BY <2>3
    <3>2. p[d] = Round(d) /\ d + 1 \in 1 .. depth /\ d + 1 - 1 = d
      BY <2>3, <3>1
    <3>3. p[d + 1] = <<p[d][1] \cup UNION {Graph!Adjacent(n) : n \in p[d][2]},
                       UNION {Graph!Adjacent(n) : n \in p[d][2]}>>
      <4>1. p[d + 1] = GrownOf(seeds, p, depth)[d + 1]
        BY <2>1, <3>2
      <4>2. d + 1 \in 0 .. depth /\ d + 1 # 0
        BY <3>2
      <4>3. QED
        BY <3>2, <4>1, <4>2 DEF GrownOf
    <3>4. QED
      BY <1>3, <3>2, <3>3
  <2>4. T = Nat
    <3>1. T \subseteq Nat
      OBVIOUS
    <3> HIDE DEF T
    <3>2. QED
      BY <2>2, <2>3, <3>1, AllNumbersIn
  <2>5. QED
    BY <2>4
<1>6. Graph!Within(seeds, depth) = (CHOOSE p : p = GrownOf(seeds, p, depth))[depth][1]
  BY DEF Graph!Within, GrownOf
<1>7. \E p : p = GrownOf(seeds, p, depth)
  BY <1>4
<1>8. (CHOOSE p : p = GrownOf(seeds, p, depth))[depth] = Round(depth)
  BY <1>5, <1>7
<1>9. Round(depth)[1] = Reached(seeds, depth)
  BY DEF Round
<1>10. QED
  BY <1>6, <1>8, <1>9

(* What is cut out of the graph is what lies within the asked distance; a     *)
(* fresh graph has one edge for each call of a name that is defined; and the  *)
(* order of the scan shows only where two files define a name (build_graph,   *)
(* update_graph_on_patch, subgraph_from_seeds).                               *)
THEOREM MemoryGraphIsRight == Graph!Spec => []GraphIsRight
<1>1. Graph!NeighbourhoodIsRight
  <2>1. ASSUME NEW f \in Path, NEW depth \in 0 .. 2
        PROVE  Graph!Within(Graph!OfFile(f), depth) =
                 {n \in g.node : \E k \in 0 .. depth : \E path \in [0 .. k -> g.node] :
                    /\ path[0] \in Graph!OfFile(f) /\ path[k] = n
                    /\ \A s \in 1 .. k : \E e \in g.edge : {e[1], e[2]} = {path[s - 1], path[s]}}
    <3>1. depth \in Nat
      OBVIOUS
    <3>2. Graph!Within(Graph!OfFile(f), depth) = Reached(Graph!OfFile(f), depth)
      BY <3>1, RoundsAreWalks
    <3> DEFINE Seeds == Graph!OfFile(f)
               End(n) == \E k \in 0 .. depth : \E path \in [0 .. k -> g.node] :
                 /\ path[0] \in Seeds /\ path[k] = n
                 /\ \A s \in 1 .. k : \E e \in g.edge : {e[1], e[2]} = {path[s - 1], path[s]}
    <3> HIDE DEF Seeds
    <3>3. ASSUME NEW n \in g.node, End(n) PROVE n \in Reached(Seeds, depth)
      <4>1. PICK k \in 0 .. depth : \E path : IsWalk(Seeds, k, path) /\ path[k] = n
        BY <3>3 DEF IsWalk, Joined
      <4>2. n \in Walked(Seeds, k)
        BY <4>1 DEF Walked
      <4>3. QED
        BY <4>2 DEF Reached
    <3>4. ASSUME NEW n \in Reached(Seeds, depth) PROVE n \in g.node /\ End(n)
      <4>1. PICK k \in 0 .. depth : n \in Walked(Seeds, k)
        BY DEF Reached
      <4>2. PICK path : IsWalk(Seeds, k, path) /\ path[k] = n
        BY <4>1 DEF Walked
      <4>3. n \in g.node
        BY <4>1 DEF Walked
      <4>4. QED
        BY <4>2, <4>3 DEF IsWalk, Joined
    <3> HIDE DEF End
    <3>5. Reached(Seeds, depth) = {n \in g.node : End(n)}
      BY <3>3, <3>4
    <3>6. QED
      BY <3>2, <3>5 DEF End, Seeds
  <2>2. QED
    BY <2>1 DEF Graph!NeighbourhoodIsRight
<1>2. ASSUME GraphInv PROVE Graph!TypeOK /\ Graph!GraphIsFresh
  <2>1. Graph!TypeOK
    BY <1>2 DEF GraphInv, Graph!TypeOK
  <2>2. Graph!GraphIsFresh
    BY <1>2, OneEdgeForEachCall DEF GraphInv, Graph!GraphIsFresh
  <2>3. QED
    BY <2>1, <2>2
<1>3. ASSUME GraphInv PROVE Graph!ScanOrderMattersNot
  BY <1>3, ScansFindTheSame DEF GraphInv, Graph!ScanOrderMattersNot
<1>4. GraphInv => GraphIsRight
  BY <1>1, <1>2, <1>3 DEF GraphIsRight, Graph!GraphIsRight
<1>5. QED
  BY <1>4, GraphStarts, GraphSteps, PTL DEF Graph!Spec

(* Of the functions of one name, one is the last that a walk over the syntax  *)
(* tree meets.                                                                *)
LEMMA LastNamedIsOne ==
  ASSUME repo \in [Path -> Text], NEW f \in Path, NEW j \in Graph!FunctionsOf(f)
  PROVE  Graph!LastNamed(f, j) \in Graph!Namesakes(f, j)
<1> DEFINE len      == Len(Graph!Def(f))
           N        == Graph!Namesakes(f, j)
           depth(k) == Len(Graph!QualName(f)[k])
<1>1. len \in Nat /\ Graph!Index(f) = 1 .. len
  BY TextsAreLists
<1>2. \A k \in N : k \in 1 .. len /\ k \in Graph!Index(f)
  BY <1>1 DEF Graph!Namesakes, Graph!FunctionsOf
<1>3. ASSUME NEW k \in N PROVE depth(k) \in Nat /\ depth(k) <= len
  <2>1. depth(k) \in 0 .. k
    BY <1>2, QualNamesEndInNames
  <2> HIDE DEF depth
  <2>2. QED
    BY <1>1, <1>2, <2>1
<1>4. j \in N
  BY DEF Graph!Namesakes
<1> HIDE DEF depth, N, len
<1>5. PICK c \in N : \A k \in N : depth(k) <= depth(c)
  <2> DEFINE R == {len - depth(k) : k \in N}
  <2>1. R \subseteq Nat /\ R # {}
    BY <1>1, <1>3, <1>4
  <2> HIDE DEF R
  <2>2. PICK x \in R : \A y \in R : x <= y
    BY <2>1, LeastOf
  <2>3. PICK c \in N : \A k \in N : len - depth(c) <= len - depth(k)
    BY <2>2 DEF R
  <2>4. QED
    BY <1>1, <1>3, <2>3
<1>6. PICK d \in N : depth(d) = depth(c) /\ \A k \in N : depth(k) = depth(c) => k <= d
  <2> DEFINE S == {k \in N : depth(k) = depth(c)}
             R == {len - k : k \in S}
  <2>1. R \subseteq Nat /\ R # {}
    BY <1>1, <1>2
  <2> HIDE DEF R
  <2>2. PICK x \in R : \A y \in R : x <= y
    BY <2>1, LeastOf
  <2>3. PICK d \in S : \A k \in S : len - d <= len - k
    BY <2>2 DEF R
  <2>4. QED
    BY <1>1, <1>2, <2>3
<1>7. \A k \in N : ~Graph!Before(f, d, k)
  <2>1. ASSUME NEW k \in N, depth(d) < depth(k) \/ (depth(d) = depth(k) /\ d < k) PROVE FALSE
    BY <1>2, <1>3, <1>5, <1>6, <2>1
  <2>2. \A k : Graph!Before(f, d, k) <=>
          depth(d) < depth(k) \/ (depth(d) = depth(k) /\ d < k)
    BY DEF Graph!Before, depth
  <2>3. QED
    BY <2>1, <2>2
<1>8. QED
  BY <1>7 DEF Graph!LastNamed, N

(* Around code that is in one function, the only one of its name, the builder *)
(* of the dataset and the scorer name the same function.                      *)
LEMMA BothNameTheSame ==
  ASSUME repo \in [Path -> Text], NEW f \in Graph!Parsed, NEW k \in 0 .. Len(Graph!Def(f)),
         NEW part \in Graph!Part, Graph!HeldByOne(f, k, part)
  PROVE  /\ Graph!ChangedNames(f, k, part) = Graph!Scope(f, k)
         /\ Graph!FirstChanged(f, k, part) = Graph!Scope(f, k)
<1> DEFINE A == Graph!Around(f)[k]
           F == A \cap Graph!FunctionsOf(f)
<1>1. f \in Path
  BY DEF Graph!Parsed
<1>2. CASE k = 0
  BY <1>2 DEF Graph!ChangedNames, Graph!FirstChanged, Graph!ChangedFunctions,
              Graph!Holding, Graph!Scope
<1>3. CASE k # 0
  <2>0. /\ \A j \in F : F = {j} /\ Graph!Namesakes(f, j) = {j}
        /\ part = "body" \/ Graph!Def(f)[k].kind = "class"
    BY <1>3 DEF Graph!HeldByOne
  <2>1. ASSUME NEW j \in Graph!FunctionsOf(f)
        PROVE  Graph!LastNamed(f, j) \in A <=> j \in A
    <3> DEFINE l == Graph!LastNamed(f, j)
    <3>1. l \in Graph!FunctionsOf(f) /\ Graph!Def(f)[l].name = Graph!Def(f)[j].name
          /\ l \in Graph!Namesakes(f, j)
      BY <1>1, LastNamedIsOne DEF Graph!Namesakes
    <3>2. ASSUME l \in A PROVE j \in A
      <4>1. Graph!Namesakes(f, l) = {l}
        BY <2>0, <3>1, <3>2
      <4>2. j \in Graph!Namesakes(f, l)
        BY <3>1 DEF Graph!Namesakes
      <4>3. QED
        BY <3>2, <4>1, <4>2
    <3>3. ASSUME j \in A PROVE l \in A
      <4>1. Graph!Namesakes(f, j) = {j}
        BY <2>0, <3>3
      <4>2. QED
        BY <3>1, <3>3, <4>1
    <3>4. QED
      BY <3>2, <3>3
  <2>2. Graph!ChangedFunctions(f, k, part) = F
    <3>1. ASSUME NEW j \in Graph!FunctionsOf(f)
          PROVE  Graph!LastNamed(f, j) \in Graph!Holding(f, k, part) <=>
                   Graph!LastNamed(f, j) \in A
      <4>1. Graph!LastNamed(f, j) \in Graph!FunctionsOf(f)
        BY <1>1, <3>1, LastNamedIsOne DEF Graph!Namesakes
      <4>2. part = "body" \/ Graph!LastNamed(f, j) # k
        BY <2>0, <4>1 DEF Graph!FunctionsOf
      <4>3. QED
        BY <1>3, <4>2 DEF Graph!Holding
    <3>2. QED
      BY <2>1, <3>1 DEF Graph!ChangedFunctions
  <2>3. \A j \in F : F = {j} /\ j \in Nat
    BY <1>1, <2>0, TextsAreLists DEF Graph!FunctionsOf
  <2>4. ASSUME NEW j \in F PROVE ~Graph!Before(f, j, j)
    <3>1. Len(Graph!QualName(f)[j]) \in Nat
      <4>1. j \in Graph!Index(f)
        BY DEF Graph!FunctionsOf
      <4>2. Len(Graph!QualName(f)[j]) \in 0 .. j
        BY <1>1, <4>1, QualNamesEndInNames
      <4>3. QED
        BY <4>2
    <3>2. QED
      BY <2>3, <3>1 DEF Graph!Before
  <2>5. {j \in F : \A h \in F : h <= j} = F
    BY <2>3
  <2>6. {j \in F : \A h \in F : ~Graph!Before(f, h, j)} = F
    BY <2>3, <2>4
  <2> DEFINE Names == {Graph!Def(f)[j].name : j \in F}
  <2>7. Graph!Scope(f, k) = {Graph!Def(f)[j].name : j \in {h \in F : \A e \in F : e <= h}}
    BY <1>3 DEF Graph!Scope
  <2>8. Graph!FirstChanged(f, k, part) =
          {Graph!Def(f)[j].name : j \in {h \in F : \A e \in F : ~Graph!Before(f, e, h)}}
    BY <1>3, <2>2 DEF Graph!FirstChanged
  <2>9. Graph!ChangedNames(f, k, part) = Names
    BY <2>2 DEF Graph!ChangedNames
  <2> HIDE DEF F
  <2>10. Graph!Scope(f, k) = Names /\ Graph!FirstChanged(f, k, part) = Names
    BY <2>5, <2>6, <2>7, <2>8
  <2>11. QED
    BY <2>9, <2>10
<1>4. QED
  BY <1>2, <1>3

(* For code in a function of its own name, in no nested one and in no         *)
(* decorator of a function, the dataset builder, the scorer and the harvest   *)
(* cut out the same graph and compute the same risk                           *)
(* (_scope_map, changed_function_names, build_cpg_features).                  *)
THEOREM TrainingSeesWhatServingSees == Graph!Spec => []TrainAndServeAgree
<1>1. ASSUME GraphInv PROVE Graph!TrainAndServeAgree
  <2>1. repo \in [Path -> Text]
    BY <1>1 DEF GraphInv
  <2>2. QED
    BY <2>1, BothNameTheSame DEF Graph!TrainAndServeAgree
<1>2. GraphInv => TrainAndServeAgree
  BY <1>1 DEF TrainAndServeAgree
<1>3. QED
  BY <1>2, GraphStarts, GraphSteps, PTL DEF Graph!Spec

(***************************************************************************)
(* Training.  The two files a run writes, for any mutants, harvests, real  *)
(* defects and numbers of runs.                                            *)
(***************************************************************************)

Label == {0, 1}
Begins(d, l) == \E rest \in Seq(Label) : l = d \o rest

(* A sequence continued by nothing is itself, and a line that was written is  *)
(* one that is no longer to be written.                                       *)
LEMMA WritingOn ==
  ASSUME NEW d \in Seq(Label), NEW l \in Seq(Label)
  PROVE  /\ d \o <<>> = d /\ <<>> \o l = l
         /\ Begins(d, d \o l)
         /\ l # <<>> => Append(d, Head(l)) \in Seq(Label) /\ Tail(l) \in Seq(Label)
                        /\ Append(d, Head(l)) \o Tail(l) = d \o l
<1>1. d \o <<>> = d /\ <<>> \o l = l
  OBVIOUS
<1>2. Begins(d, d \o l)
  BY DEF Begins
<1>3. ASSUME l # <<>>
      PROVE  Append(d, Head(l)) \in Seq(Label) /\ Tail(l) \in Seq(Label)
             /\ Append(d, Head(l)) \o Tail(l) = d \o l
  <2>1. Append(d, Head(l)) \in Seq(Label) /\ Tail(l) \in Seq(Label) /\ Len(l) \in Nat \ {0}
        /\ Len(Tail(l)) = Len(l) - 1
    BY <1>3
  <2> DEFINE one == Append(d, Head(l)) \o Tail(l)
             two == d \o l
  <2>2. Len(one) = Len(d) + Len(l) /\ Len(two) = Len(d) + Len(l)
    BY <2>1
  <2>3. one \in Seq(Label) /\ two \in Seq(Label)
    BY <2>1
  <2>4. ASSUME NEW k \in 1 .. Len(d) + Len(l) PROVE one[k] = two[k]
    <3>1. CASE k <= Len(d)
      BY <2>1, <3>1
    <3>2. CASE k = Len(d) + 1
      BY <1>3, <2>1, <3>2
    <3>3. CASE k > Len(d) + 1
      <4>1. k - (Len(d) + 1) \in 1 .. Len(Tail(l))
        BY <2>1, <3>3
      <4>2. one[k] = Tail(l)[k - (Len(d) + 1)]
        BY <2>1, <3>3, <4>1
      <4>3. Tail(l)[k - (Len(d) + 1)] = l[k - (Len(d) + 1) + 1]
        BY <1>3, <4>1
      <4>4. two[k] = l[k - Len(d)]
        BY <2>1, <3>3
      <4>5. k - (Len(d) + 1) + 1 = k - Len(d)
        BY <2>1
      <4>6. QED
        BY <4>2, <4>3, <4>4, <4>5
    <3>4. QED
      BY <2>1, <3>1, <3>2, <3>3
  <2>5. one = two
    <3> HIDE DEF one, two
    <3>1. Len(one) = Len(two) /\ \A k \in 1 .. Len(one) : one[k] = two[k]
      BY <2>2, <2>4
    <3>2. QED
      BY <2>3, <3>1, SameSequences
  <2>6. QED
    BY <2>1, <2>5
<1>4. QED
  BY <1>1, <1>2, <1>3

(* What a sequence begins with is its prefix. *)
LEMMA BeginningsArePrefixes ==
  ASSUME NEW d \in Seq(Label), NEW l \in Seq(Label), Begins(d, l)
  PROVE  Len(d) <= Len(l) /\ SubSeq(d, 1, Len(d)) = SubSeq(l, 1, Len(d))
<1>1. PICK rest \in Seq(Label) : l = d \o rest
  BY DEF Begins
<1>2. Len(d) <= Len(l) /\ \A k \in 1 .. Len(d) : l[k] = d[k]
  BY <1>1
<1>3. SubSeq(d, 1, Len(d)) = [k \in 1 .. Len(d) |-> d[k]]
  OBVIOUS
<1>4. SubSeq(l, 1, Len(d)) = [k \in 1 .. Len(d) |-> l[k]]
  BY <1>2
<1>5. QED
  BY <1>2, <1>3, <1>4

(* The rows of a run that are made of labels are examples of the mutants.     *)
LEMMA LabelsMakeExamples ==
  ASSUME NEW ls \in Seq(Label), Len(ls) <= Len(Mutants)
  PROVE  /\ Fits!AsExamples(ls) \in Seq(Fits!Examples)
         /\ Len(Fits!AsExamples(ls)) = Len(ls)
         /\ \A m \in 1 .. Len(ls) :
              /\ Fits!AsExamples(ls)[m] = Fits!AsExample(m, ls[m])
              /\ m \in DOMAIN Mutants /\ Fits!AsExample(m, ls[m]).origin = Mutants[m].origin
<1>1. Mutants \in Seq([file : STRING, origin : STRING, nodes : Nat])
  BY FitsAssumption DEF Fits!TrainingAssumption
<1>2. \A m \in 1 .. Len(ls) :
        /\ m \in DOMAIN Mutants /\ Mutants[m] \in [file : STRING, origin : STRING, nodes : Nat]
        /\ ls[m] \in Label
  <2>1. Len(ls) \in Nat /\ Len(Mutants) \in Nat /\ DOMAIN Mutants = 1 .. Len(Mutants)
    BY <1>1
  <2>2. \A m \in 1 .. Len(ls) : m \in 1 .. Len(Mutants) /\ ls[m] \in Label
    BY <2>1
  <2>3. \A m \in 1 .. Len(Mutants) :
          Mutants[m] \in [file : STRING, origin : STRING, nodes : Nat]
    BY <1>1, ElementsOf
  <2>4. QED
    BY <2>1, <2>2, <2>3
<1>3. \A m \in 1 .. Len(ls) : /\ Fits!AsExample(m, ls[m]) \in Fits!Examples
                              /\ Fits!AsExample(m, ls[m]).origin = Mutants[m].origin
  BY <1>2 DEF Fits!AsExample, Fits!Examples, Label
<1>4. Fits!AsExamples(ls) = [m \in 1 .. Len(ls) |-> Fits!AsExample(m, ls[m])]
  BY DEF Fits!AsExamples
<1>5. Fits!AsExamples(ls) \in [1 .. Len(ls) -> Fits!Examples]
  BY <1>3, <1>4
<1>6. Fits!AsExamples(ls) \in Seq(Fits!Examples) /\ Len(Fits!AsExamples(ls)) = Len(ls)
  BY <1>5
<1>7. QED
  BY <1>2, <1>3, <1>4, <1>6

(* What the variables of a run hold. *)
FilesTyped ==
  /\ phase \in {"idle", "load", "build", "write", "merge", "cv", "grouped", "fold", "split",
                "fit", "judge", "save", "done", "raised", "killed"}
  /\ dataset \in [present : BOOLEAN, labels : Seq(Label), torn : BOOLEAN]
  /\ labels \in Seq(Label) /\ labelled \in Seq(Label)
  /\ Len(labels) <= Len(Mutants) /\ Len(labelled) <= Len(Mutants)
  /\ rows \in Seq(Fits!Examples) /\ cut \in SUBSET {"dataset", "weights"} /\ runs \in Nat

(* The dataset, and what was read of it: the labels of the last build as far  *)
(* as they are written, the others are still to come.                         *)
Written ==
  /\ Begins(dataset.labels, labelled)
  /\ phase = "load" => labels = <<>>
  /\ phase = "write" =>
       /\ dataset.present /\ labelled = dataset.labels \o labels
       /\ Len(labelled) = Len(Mutants) /\ rows = Fits!AsExamples(labelled)
       /\ labels = <<>> => ~dataset.torn
  /\ dataset.present /\ phase # "write" /\ "dataset" \notin cut =>
       dataset.labels = labelled /\ ~dataset.torn /\ Len(labelled) = Len(Mutants)
  /\ phase = "merge" =>
       /\ dataset.present
       /\ "dataset" \notin cut => rows = Fits!AsExamples(labelled)
  /\ phase = "cv" /\ "dataset" \notin cut =>
       \A m \in DOMAIN Mutants : rows[m] = Fits!AsExample(m, labelled[m])

(* The weights. *)
Stored ==
  /\ weights \in {"absent", "other", "old", "empty", "partial", "new"}
  /\ weights \in {"empty", "partial"} => phase = "save" \/ "weights" \in cut
  /\ runs = 0 =>
       phase = "idle" /\ weights \in {"absent", "other", "old"} /\ server # "crashed"

FilesInv == FilesTyped /\ Written /\ Stored

(* Before the first run there are weights of earlier days, or none. *)
LEMMA TrainingStarts == Fits!TrainingInit => FilesInv
<1> SUFFICES ASSUME Fits!TrainingInit PROVE FilesInv
  OBVIOUS
<1>1. <<>> \in Seq(Label) /\ <<>> \in Seq(Fits!Examples) /\ Len(<<>>) = 0
  OBVIOUS
<1>2. Len(Mutants) \in Nat
  BY FitsAssumption, ElementsOf DEF Fits!TrainingAssumption
<1>3. Begins(<<>>, <<>>)
  BY <1>1, WritingOn
<1>4. FilesTyped
  BY <1>1, <1>2 DEF Fits!TrainingInit, Fits!Absent, FilesTyped
<1>5. Written
  BY <1>3 DEF Fits!TrainingInit, Fits!Absent, Written
<1>6. Stored
  BY DEF Fits!TrainingInit, Stored
<1>7. QED
  BY <1>4, <1>5, <1>6 DEF FilesInv

(* Starting a run, and reading or making its labels. *)
LEMMA ReadingKeeps ==
  ASSUME FilesInv,
         \/ Fits!Start \/ Fits!ReadDataset \/ Fits!Rebuild \/ Fits!LabelMutant
         \/ Fits!SandboxRaises
  PROVE  FilesInv'
<1> USE DEF Fits!files, Fits!given, Fits!validation, Fits!outcome, Fits!model
<1>1. Len(Mutants) \in Nat /\ <<>> \in Seq(Label) /\ <<>> \in Seq(Fits!Examples) /\ Len(<<>>) = 0
  BY FitsAssumption, ElementsOf DEF Fits!TrainingAssumption
<1>2. CASE Fits!Start
  <2>1. /\ phase \in {"idle", "done", "raised", "killed"} /\ phase' = "load"
        /\ runs' = runs + 1 /\ labels' = <<>> /\ rows' = <<>>
        /\ UNCHANGED <<dataset, labelled, cut, weights, server>>
    BY <1>2 DEF Fits!Start, Fits!Forget
  <2>2. FilesTyped'
    BY <1>1, <2>1 DEF FilesInv, FilesTyped
  <2>3. Written'
    BY <2>1 DEF FilesInv, Written
  <2>4. Stored'
    BY <2>1 DEF FilesInv, FilesTyped, Stored
  <2>5. QED
    BY <2>2, <2>3, <2>4 DEF FilesInv
<1>3. CASE Fits!ReadDataset
  <2>1. /\ phase = "load" /\ dataset.present /\ UNCHANGED <<runs, labels, real>>
        /\ UNCHANGED <<dataset, labelled, cut, weights, server>>
        /\ \/ dataset.torn /\ phase' = "raised" /\ UNCHANGED rows
           \/ /\ ~dataset.torn /\ phase' = "merge"
              /\ rows' = Fits!AsExamples(dataset.labels)
    BY <1>3 DEF Fits!ReadDataset
  <2>2. dataset.labels \in Seq(Label) /\ Len(dataset.labels) <= Len(Mutants)
    <3>1. dataset.labels \in Seq(Label) /\ labelled \in Seq(Label) /\ Len(labelled) <= Len(Mutants)
      BY DEF FilesInv, FilesTyped
    <3>2. Begins(dataset.labels, labelled)
      BY DEF FilesInv, Written
    <3>3. Len(dataset.labels) <= Len(labelled)
      BY <3>1, <3>2, BeginningsArePrefixes
    <3>4. Len(dataset.labels) \in Nat /\ Len(labelled) \in Nat
      BY <3>1
    <3>5. QED
      BY <1>1, <3>1, <3>3, <3>4
  <2>3. Fits!AsExamples(dataset.labels) \in Seq(Fits!Examples)
    BY <2>2, LabelsMakeExamples
  <2>4. FilesTyped'
    BY <2>1, <2>3 DEF FilesInv, FilesTyped
  <2>5. Written'
    BY <2>1 DEF FilesInv, Written
  <2>6. Stored'
    BY <2>1 DEF FilesInv, FilesTyped, Stored
  <2>7. QED
    BY <2>4, <2>5, <2>6 DEF FilesInv
<1>4. CASE Fits!Rebuild \/ Fits!SandboxRaises
  <2>1. /\ phase \in {"load", "build"} /\ phase' \in {"build", "raised"}
        /\ UNCHANGED <<runs, labels, rows, dataset, labelled, cut, weights, server>>
    BY <1>4 DEF Fits!Rebuild, Fits!SandboxRaises
  <2>2. FilesTyped'
    BY <2>1 DEF FilesInv, FilesTyped
  <2>3. Written'
    BY <2>1 DEF FilesInv, Written
  <2>4. Stored'
    BY <2>1 DEF FilesInv, FilesTyped, Stored
  <2>5. QED
    BY <2>2, <2>3, <2>4 DEF FilesInv
<1>5. CASE Fits!LabelMutant
  <2>1. PICK label \in Label : labels' = Append(labels, label)
    BY <1>5 DEF Fits!LabelMutant, Label
  <2>2. /\ phase = "build" /\ phase' = phase /\ Len(labels) < Len(Mutants)
        /\ UNCHANGED <<runs, rows, dataset, labelled, cut, weights, server>>
    BY <1>5 DEF Fits!LabelMutant
  <2>3. labels' \in Seq(Label) /\ Len(labels') = Len(labels) + 1 /\ Len(labels) \in Nat
    BY <2>1 DEF FilesInv, FilesTyped
  <2>4. FilesTyped'
    BY <1>1, <2>2, <2>3 DEF FilesInv, FilesTyped
  <2>5. Written'
    BY <2>2 DEF FilesInv, Written
  <2>6. Stored'
    BY <2>2 DEF FilesInv, FilesTyped, Stored
  <2>7. QED
    BY <2>4, <2>5, <2>6 DEF FilesInv
<1>6. QED
  BY <1>2, <1>3, <1>4, <1>5

(* Writing the dataset. *)
LEMMA WritingKeeps ==
  ASSUME FilesInv, Fits!OpenDataset \/ Fits!WriteOn \/ Fits!CloseDataset
  PROVE  FilesInv'
<1> USE DEF Fits!files, Fits!given, Fits!validation, Fits!outcome, Fits!model
<1>1. Len(Mutants) \in Nat /\ <<>> \in Seq(Label)
  BY FitsAssumption, ElementsOf DEF Fits!TrainingAssumption
<1>2. CASE Fits!OpenDataset
  <2>1. /\ phase = "build" /\ phase' = "write" /\ Len(labels) = Len(Mutants)
        /\ dataset' = [present |-> TRUE, labels |-> <<>>, torn |-> FALSE]
        /\ rows' = Fits!AsExamples(labels) /\ labelled' = labels
        /\ UNCHANGED <<cut, runs, labels, weights, server>>
    BY <1>2 DEF Fits!OpenDataset, Fits!Truncated, Fits!File
  <2>2. labels \in Seq(Label)
    BY DEF FilesInv, FilesTyped
  <2>3. rows' \in Seq(Fits!Examples)
    BY <1>1, <2>1, <2>2, LabelsMakeExamples
  <2>4. FilesTyped'
    BY <1>1, <2>1, <2>2, <2>3 DEF FilesInv, FilesTyped
  <2>5. <<>> \o labels = labels /\ Begins(<<>>, <<>> \o labels)
    BY <1>1, <2>2, WritingOn
  <2>6. Written'
    BY <2>1, <2>5 DEF FilesInv, Written
  <2>7. Stored'
    BY <2>1 DEF FilesInv, FilesTyped, Stored
  <2>8. QED
    BY <2>4, <2>6, <2>7 DEF FilesInv
<1>3. CASE Fits!WriteOn
  <2>1. /\ phase = "write" /\ phase' = "write" /\ labels # <<>>
        /\ UNCHANGED <<labelled, cut, runs, rows, weights, server>>
        /\ \/ ~dataset.torn /\ dataset' = [dataset EXCEPT !.torn = TRUE] /\ UNCHANGED labels
           \/ /\ dataset' = [present |-> TRUE, labels |-> Append(dataset.labels, Head(labels)),
                             torn |-> FALSE]
              /\ labels' = Tail(labels)
    BY <1>3 DEF Fits!WriteOn, Fits!File
  <2>2. labels \in Seq(Label) /\ dataset.labels \in Seq(Label)
    BY DEF FilesInv, FilesTyped
  <2>3. /\ Append(dataset.labels, Head(labels)) \in Seq(Label) /\ Tail(labels) \in Seq(Label)
        /\ Append(dataset.labels, Head(labels)) \o Tail(labels) = dataset.labels \o labels
    BY <2>1, <2>2, WritingOn
  <2>4. Begins(Append(dataset.labels, Head(labels)), dataset.labels \o labels)
    BY <2>3, WritingOn
  <2>5. Len(Tail(labels)) <= Len(Mutants)
    BY <1>1, <2>1, <2>2 DEF FilesInv, FilesTyped
  <2>6. labelled = dataset.labels \o labels /\ Begins(dataset.labels, labelled)
        /\ Len(labelled) = Len(Mutants) /\ rows = Fits!AsExamples(labelled) /\ dataset.present
    BY <2>1 DEF FilesInv, Written
  <2>7. dataset \in [present : BOOLEAN, labels : Seq(Label), torn : BOOLEAN]
    BY DEF FilesInv, FilesTyped
  <2>8. /\ phase' = "write" /\ labels # <<>> /\ UNCHANGED <<labelled, rows>>
    BY <2>1
  <2>9. Stored'
    BY <2>1 DEF FilesInv, FilesTyped, Stored
  <2>10. CASE dataset' = [dataset EXCEPT !.torn = TRUE] /\ UNCHANGED labels
    <3>1. /\ dataset' \in [present : BOOLEAN, labels : Seq(Label), torn : BOOLEAN]
          /\ dataset'.present = dataset.present /\ dataset'.labels = dataset.labels
      BY <2>7, <2>10
    <3>2. FilesTyped'
      BY <2>1, <2>10, <3>1 DEF FilesInv, FilesTyped
    <3>3. Begins(dataset'.labels, labelled') /\ labelled' = dataset'.labels \o labels'
      BY <2>6, <2>10, <2>8, <3>1
    <3>4. labels' # <<>>
      BY <2>10, <2>8
    <3>5. Written'
      BY <2>6, <2>8, <3>1, <3>3, <3>4 DEF Written
    <3>6. QED
      BY <2>9, <3>2, <3>5 DEF FilesInv
  <2>11. CASE /\ dataset' = [present |-> TRUE, labels |-> Append(dataset.labels, Head(labels)),
                            torn |-> FALSE]
             /\ labels' = Tail(labels)
    <3>1. dataset'.present /\ dataset'.labels = Append(dataset.labels, Head(labels))
          /\ ~dataset'.torn
      BY <2>11
    <3>2. dataset' \in [present : BOOLEAN, labels : Seq(Label), torn : BOOLEAN]
      BY <2>3, <2>11
    <3>3. FilesTyped'
      BY <2>1, <2>3, <2>5, <2>11, <3>2 DEF FilesInv, FilesTyped
    <3>4. labelled' = dataset'.labels \o labels'
      BY <2>1, <2>3, <2>6, <2>11, <3>1
    <3>5. Begins(dataset'.labels, labelled')
      BY <2>1, <2>4, <2>6, <3>1
    <3>6. Written'
      BY <2>6, <2>8, <3>1, <3>4, <3>5 DEF Written
    <3>7. QED
      BY <2>9, <3>3, <3>6 DEF FilesInv
  <2>12. QED
    BY <2>1, <2>10, <2>11
<1>4. CASE Fits!CloseDataset
  <2>1. /\ phase = "write" /\ phase' = "merge" /\ labels = <<>> /\ cut' = cut \ {"dataset"}
        /\ UNCHANGED <<dataset, labelled, labels, runs, rows, weights, server>>
    BY <1>4 DEF Fits!CloseDataset
  <2>2. /\ dataset.present /\ labelled = dataset.labels \o <<>> /\ ~dataset.torn
        /\ Len(labelled) = Len(Mutants) /\ rows = Fits!AsExamples(labelled)
    BY <2>1 DEF FilesInv, Written
  <2>3. dataset.labels = labelled
    BY <2>2, WritingOn DEF FilesInv, FilesTyped
  <2>4. FilesTyped'
    BY <2>1 DEF FilesInv, FilesTyped
  <2>5. Written'
    BY <2>1, <2>2, <2>3 DEF FilesInv, Written
  <2>6. Stored'
    BY <2>1 DEF FilesInv, FilesTyped, Stored
  <2>7. QED
    BY <2>4, <2>5, <2>6 DEF FilesInv
<1>5. QED
  BY <1>2, <1>3, <1>4

(* From the merged rows to the saved weights. *)
LEMMA FittingKeeps ==
  ASSUME FilesInv,
         \/ Fits!Merge \/ Fits!MergeRaises \/ Fits!Stratified \/ Fits!Grouped
         \/ Fits!NoValidation \/ Fits!Fold \/ Fits!Validated \/ Fits!Split \/ Fits!Fit
         \/ Fits!Judge \/ Fits!Save
  PROVE  FilesInv'
<1> USE DEF Fits!files, Fits!given, Fits!validation, Fits!outcome, Fits!model
<1>1. CASE Fits!Merge
  <2>1. PICK harvested \in Harvests : rows' = rows \o harvested
    BY <1>1 DEF Fits!Merge
  <2>2. /\ phase = "merge" /\ phase' = "cv"
        /\ UNCHANGED <<dataset, labelled, labels, cut, runs, weights, server>>
    BY <1>1 DEF Fits!Merge
  <2>3. harvested \in Seq(Fits!Examples) /\ rows \in Seq(Fits!Examples)
    BY FitsAssumption DEF Fits!TrainingAssumption, FilesInv, FilesTyped
  <2>4. FilesTyped'
    BY <2>1, <2>2, <2>3 DEF FilesInv, FilesTyped
  <2>5. ASSUME "dataset" \notin cut, NEW m \in DOMAIN Mutants
        PROVE  rows'[m] = Fits!AsExample(m, labelled[m])
    <3>1. /\ rows = Fits!AsExamples(labelled) /\ Len(labelled) = Len(Mutants)
          /\ labelled \in Seq(Label)
      BY <2>2, <2>5 DEF FilesInv, FilesTyped, Written
    <3>2. Len(Mutants) \in Nat /\ DOMAIN Mutants = 1 .. Len(Mutants)
      BY FitsAssumption, ElementsOf DEF Fits!TrainingAssumption
    <3>3. Len(rows) = Len(Mutants) /\ m \in 1 .. Len(rows) /\ m \in 1 .. Len(labelled)
      BY <3>1, <3>2, LabelsMakeExamples
    <3>4. rows[m] = Fits!AsExample(m, labelled[m])
      BY <3>1, <3>2, <3>3, LabelsMakeExamples
    <3>5. rows'[m] = rows[m]
      BY <2>1, <2>3, <3>3
    <3>6. QED
      BY <3>4, <3>5
  <2>6. Written'
    BY <2>2, <2>5 DEF FilesInv, Written
  <2>7. Stored'
    BY <2>2 DEF FilesInv, FilesTyped, Stored
  <2>8. QED
    BY <2>4, <2>6, <2>7 DEF FilesInv
<1>2. CASE \/ Fits!MergeRaises \/ Fits!Stratified \/ Fits!Grouped \/ Fits!NoValidation
           \/ Fits!Fold \/ Fits!Validated \/ Fits!Split \/ Fits!Fit
  <2>1. /\ phase \in {"merge", "cv", "grouped", "fold", "split", "fit"}
        /\ phase' \in {"raised", "grouped", "fold", "split", "fit", "judge"}
        /\ UNCHANGED <<dataset, labelled, labels, cut, runs, rows, weights, server>>
    BY <1>2 DEF Fits!MergeRaises, Fits!Stratified, Fits!Grouped, Fits!NoValidation, Fits!Fold,
                Fits!Validated, Fits!Split, Fits!Fit, Fits!Validate
  <2>2. FilesTyped'
    BY <2>1 DEF FilesInv, FilesTyped
  <2>3. Written'
    BY <2>1 DEF FilesInv, Written
  <2>4. Stored'
    BY <2>1 DEF FilesInv, FilesTyped, Stored
  <2>5. QED
    BY <2>2, <2>3, <2>4 DEF FilesInv
<1>3. CASE Fits!Judge \/ Fits!Save
  <2>1. /\ phase \in {"judge", "save"} /\ phase' \in {"save", "done"}
        /\ UNCHANGED <<dataset, labelled, labels, runs, rows, server>>
        /\ \/ phase' = "save" /\ UNCHANGED cut
           \/ cut' = cut \ {"weights"} /\ weights' = "new"
        /\ weights' \in {"empty", "partial", "new"}
    BY <1>3 DEF Fits!Judge, Fits!Save, Fits!OpenWeights, Fits!WriteWeights, Fits!CloseWeights
  <2>2. FilesTyped'
    BY <2>1 DEF FilesInv, FilesTyped
  <2>3. Written'
    BY <2>1 DEF FilesInv, Written
  <2>4. Stored'
    BY <2>1 DEF FilesInv, FilesTyped, Stored
  <2>5. QED
    BY <2>2, <2>3, <2>4 DEF FilesInv
<1>4. QED
  BY <1>1, <1>2, <1>3

(* A run may be killed, and an Orchestrator may load what there is. *)
LEMMA SurroundingsKeep ==
  ASSUME FilesInv, Fits!Kill \/ Fits!Serve \/ Fits!Stop
  PROVE  FilesInv'
<1> USE DEF Fits!files, Fits!given, Fits!validation, Fits!outcome, Fits!model
<1>1. CASE Fits!Kill
  <2>1. /\ phase \notin {"idle", "done", "raised", "killed"} /\ phase' = "killed"
        /\ labels' = <<>> /\ rows' = <<>>
        /\ cut' = cut \cup (IF phase = "write" THEN {"dataset"}
                            ELSE IF phase = "save" THEN {"weights"} ELSE {})
        /\ UNCHANGED <<dataset, labelled, runs, weights, server>>
    BY <1>1 DEF Fits!Kill, Fits!Forget
  <2>2. /\ <<>> \in Seq(Label) /\ <<>> \in Seq(Fits!Examples) /\ Len(<<>>) = 0
        /\ Len(Mutants) \in Nat
    BY FitsAssumption, ElementsOf DEF Fits!TrainingAssumption
  <2>3. FilesTyped'
    BY <2>1, <2>2 DEF FilesInv, FilesTyped
  <2>4. Written'
    BY <2>1 DEF FilesInv, Written
  <2>5. Stored'
    BY <2>1 DEF FilesInv, FilesTyped, Stored
  <2>6. QED
    BY <2>3, <2>4, <2>5 DEF FilesInv
<1>2. CASE Fits!Serve \/ Fits!Stop
  <2>1. /\ UNCHANGED <<phase, dataset, labelled, labels, cut, runs, rows, weights>>
        /\ weights \in {"absent", "other", "old"} => server' # "crashed"
    BY <1>2 DEF Fits!Serve, Fits!Stop, Fits!Load, Fits!Degrades, Fits!train_vars
  <2>2. FilesTyped'
    BY <2>1 DEF FilesInv, FilesTyped
  <2>3. Written'
    BY <2>1 DEF FilesInv, Written
  <2>4. Stored'
    BY <2>1 DEF FilesInv, FilesTyped, Stored
  <2>5. QED
    BY <2>2, <2>3, <2>4 DEF FilesInv
<1>3. QED
  BY <1>1, <1>2

(* No step of training or of serving disturbs what is said of the files. *)
LEMMA FilesSteps ==
  FilesInv /\ [Fits!TrainingNext]_<<Fits!train_vars, Fits!model>> => FilesInv'
<1>1. ASSUME FilesInv, UNCHANGED <<Fits!train_vars, Fits!model>>
      PROVE  FilesInv'
  <2>1. UNCHANGED <<phase, dataset, labelled, labels, cut, runs, rows, weights, server>>
    BY <1>1 DEF Fits!train_vars, Fits!model, Fits!files, Fits!given
  <2>2. FilesTyped'
    BY <1>1, <2>1 DEF FilesInv, FilesTyped
  <2>3. Written'
    BY <1>1, <2>1 DEF FilesInv, Written
  <2>4. Stored'
    BY <1>1, <2>1 DEF FilesInv, Stored
  <2>5. QED
    BY <2>2, <2>3, <2>4 DEF FilesInv
<1>2. QED
  BY <1>1, ReadingKeeps, WritingKeeps, FittingKeeps, SurroundingsKeep DEF Fits!TrainingNext

(* The dataset on disk is the last build that was written out, all of it, and *)
(* the weights are those of some run, unless a run was killed that was writing *)
(* them; no weights that are absent or of another architecture stop a server  *)
(* (write_jsonl, save_model, load_ensemble).                                  *)
THEOREM FilesOfRunsSurvive == Fits!TrainingSpec => []FilesSurvive
<1>1. ASSUME FilesInv PROVE FilesSurvive
  <2>1. dataset.present /\ phase # "write" /\ "dataset" \notin cut =>
          dataset = Fits!File(labelled, FALSE) /\ Len(labelled) = Len(Mutants)
    BY <1>1 DEF FilesInv, FilesTyped, Written, Fits!File
  <2>2. Fits!IsPrefix(dataset.labels, labelled)
    BY <1>1, BeginningsArePrefixes DEF FilesInv, FilesTyped, Written, Fits!IsPrefix
  <2>3. QED
    BY <1>1, <2>1, <2>2 DEF FilesInv, Written, Stored, FilesSurvive, Fits!FilesSurvive
<1>2. QED
  BY <1>1, TrainingStarts, FilesSteps, PTL DEF Fits!TrainingSpec

(***************************************************************************)
(* The halves of the rows: what is held out and what is fitted.            *)
(***************************************************************************)

(* Of a class, one row at least is held out; and not all of two or more, when *)
(* at most half of the rows are.                                              *)
LEMMA NTestIs ==
  ASSUME NEW n \in Nat \ {0}, NEW frac \in 1 .. 9
  PROVE  /\ Fits!NTest(n, frac) \in Nat /\ Fits!NTest(n, frac) >= 1
         /\ n > 1 /\ frac <= 5 => Fits!NTest(n, frac) < n
<1> DEFINE t == n * frac
<1>1. t \in Nat
  OBVIOUS
<1>2. frac <= 5 => t <= 5 * n
  <2>1. frac \in {1, 2, 3, 4, 5} => n * frac <= 5 * n
    OBVIOUS
  <2>2. QED
    BY <2>1
<1> HIDE DEF t
<1>3. Fits!RoundTenths(t) \in Nat
  BY <1>1 DEF Fits!RoundTenths
<1>4. t <= 5 * n /\ n > 1 => Fits!RoundTenths(t) < n
  BY <1>1 DEF Fits!RoundTenths
<1>5. Fits!NTest(n, frac) = IF Fits!RoundTenths(t) > 1 THEN Fits!RoundTenths(t) ELSE 1
  BY DEF Fits!NTest, t
<1>6. QED
  BY <1>2, <1>3, <1>4, <1>5

(* The rows of a run, and what is done with them: no row of the dataset or of *)
(* the harvest has the origin of a defect, half of the rows are dealt out by  *)
(* one fraction, and what is fitted is one half of both.                      *)
Parted ==
  /\ real = <<>> \/ real \in Reals
  /\ \A e \in DOMAIN rows : \A r \in Reals : \A d \in DOMAIN r : r[d].origin # rows[e].origin
  /\ phase \in {"fit", "judge", "save", "done"} =>
       \E frac \in TestTenths :
         half.seed \in Fits!Halves(rows, frac) /\ half.real \in Fits!Halves(real, frac)
  /\ phase \in {"judge", "save", "done"} => fitted = Fits!TrainSeed \cup Fits!RealRows

HeldOutInv == FilesInv /\ Parted

(* The rows that labels make have the origins of the mutants. *)
LEMMA MutantsAreNoDefects ==
  ASSUME NEW ls \in Seq(Label), Len(ls) <= Len(Mutants), NEW r \in Reals, NEW d \in DOMAIN r,
         NEW e \in DOMAIN Fits!AsExamples(ls)
  PROVE  r[d].origin # Fits!AsExamples(ls)[e].origin
<1>1. e \in 1 .. Len(ls)
  BY DEF Fits!AsExamples
<1>2. e \in DOMAIN Mutants /\ Fits!AsExamples(ls)[e].origin = Mutants[e].origin
  BY <1>1, LabelsMakeExamples
<1>3. Mutants[e].origin # r[d].origin
  BY <1>2, FitsAssumption DEF Fits!TrainingAssumption
<1>4. QED
  BY <1>2, <1>3

(* A step that leaves the rows, or drops them all, keeps what is said of them. *)
LEMMA StayingParted ==
  ASSUME Parted,
         \/ UNCHANGED <<rows, real>>
         \/ rows' = <<>> /\ real' = <<>>,
         phase' \notin {"fit", "judge", "save", "done"}
  PROVE  Parted'
<1>1. real' = <<>> \/ real' \in Reals
  BY DEF Parted
<1>2. \A e \in DOMAIN rows' : \A r \in Reals : \A d \in DOMAIN r :
        r[d].origin # rows'[e].origin
  <2>1. CASE UNCHANGED <<rows, real>>
    BY <2>1 DEF Parted
  <2>2. CASE rows' = <<>>
    BY <2>2
  <2>3. QED
    BY <2>1, <2>2
<1>3. QED
  BY <1>1, <1>2 DEF Parted

(* Labels that are read or made become rows of mutants. *)
LEMMA MakingKeepsParted ==
  ASSUME FilesInv, Parted, Fits!ReadDataset \/ Fits!OpenDataset
  PROVE  Parted'
<1> USE DEF Fits!files, Fits!given, Fits!validation, Fits!outcome, Fits!model
<1>1. PICK ls : /\ ls \in Seq(Label) /\ Len(ls) <= Len(Mutants)
                /\ rows' = rows \/ rows' = Fits!AsExamples(ls)
  <2>1. labels \in Seq(Label) /\ Len(labels) <= Len(Mutants)
    BY DEF FilesInv, FilesTyped
  <2>2. dataset.labels \in Seq(Label) /\ Len(dataset.labels) <= Len(Mutants)
    <3>1. dataset.labels \in Seq(Label) /\ labelled \in Seq(Label) /\ Len(labelled) <= Len(Mutants)
      BY DEF FilesInv, FilesTyped
    <3>2. Len(dataset.labels) <= Len(labelled)
      BY <3>1, BeginningsArePrefixes DEF FilesInv, Written
    <3>3. Len(dataset.labels) \in Nat /\ Len(labelled) \in Nat /\ Len(Mutants) \in Nat
      BY <3>1, FitsAssumption, ElementsOf DEF Fits!TrainingAssumption
    <3>4. QED
      BY <3>1, <3>2, <3>3
  <2>3. CASE Fits!ReadDataset
    <3>1. rows' = rows \/ rows' = Fits!AsExamples(dataset.labels)
      BY <2>3 DEF Fits!ReadDataset
    <3>2. QED
      BY <2>2, <3>1
  <2>4. CASE Fits!OpenDataset
    <3>1. rows' = Fits!AsExamples(labels)
      BY <2>4 DEF Fits!OpenDataset
    <3>2. QED
      BY <2>1, <3>1
  <2>5. QED
    BY <2>3, <2>4
<1>2. real' = real /\ phase' \in {"raised", "merge", "write"}
  BY DEF Fits!ReadDataset, Fits!OpenDataset
<1>3. \A e \in DOMAIN rows' : \A r \in Reals : \A d \in DOMAIN r :
        r[d].origin # rows'[e].origin
  <2>1. CASE rows' = rows
    BY <2>1 DEF Parted
  <2>2. CASE rows' = Fits!AsExamples(ls)
    BY <1>1, <2>2, MutantsAreNoDefects
  <2>3. QED
    BY <1>1, <2>1, <2>2
<1>4. QED
  BY <1>2, <1>3 DEF Parted

(* The harvest joins the rows. *)
LEMMA MergingKeepsParted ==
  ASSUME FilesInv, Parted, Fits!Merge
  PROVE  Parted'
<1>1. PICK harvested \in Harvests : rows' = rows \o harvested
  BY DEF Fits!Merge
<1>2. real' \in Reals /\ phase' = "cv"
  BY DEF Fits!Merge
<1>3. harvested \in Seq(Fits!Examples) /\ rows \in Seq(Fits!Examples)
  BY FitsAssumption DEF Fits!TrainingAssumption, FilesInv, FilesTyped
<1>4. ASSUME NEW e \in DOMAIN rows', NEW r \in Reals, NEW d \in DOMAIN r
      PROVE  r[d].origin # rows'[e].origin
  <2>1. \/ e \in DOMAIN rows /\ rows'[e] = rows[e]
        \/ \E k \in DOMAIN harvested : rows'[e] = harvested[k]
    <3>1. Len(rows) \in Nat /\ Len(harvested) \in Nat /\ DOMAIN rows = 1 .. Len(rows)
          /\ DOMAIN harvested = 1 .. Len(harvested)
          /\ e \in 1 .. Len(rows) + Len(harvested)
      BY <1>1, <1>3
    <3>2. CASE e <= Len(rows)
      BY <1>1, <1>3, <3>1, <3>2
    <3>3. CASE e > Len(rows)
      <4>1. e - Len(rows) \in DOMAIN harvested /\ rows'[e] = harvested[e - Len(rows)]
        BY <1>1, <1>3, <3>1, <3>3
      <4>2. QED
        BY <4>1
    <3>4. QED
      BY <3>1, <3>2, <3>3
  <2>2. \A k \in DOMAIN harvested : harvested[k].origin # r[d].origin
    BY FitsAssumption DEF Fits!TrainingAssumption
  <2>3. QED
    BY <2>1, <2>2 DEF Parted
<1>5. QED
  BY <1>2, <1>4 DEF Parted

(* The halves are made once, and what is fitted is one of them. *)
LEMMA SplittingKeepsParted ==
  ASSUME FilesInv, Parted, Fits!Split \/ Fits!Fit \/ Fits!Judge \/ Fits!Save
  PROVE  Parted'
<1> USE DEF Fits!files, Fits!given, Fits!validation, Fits!outcome, Fits!model
<1>1. UNCHANGED <<rows, real>>
  BY DEF Fits!Split, Fits!Fit, Fits!Judge, Fits!Save
<1>2. (real = <<>> \/ real \in Reals)'
  BY <1>1 DEF Parted
<1>3. \A e \in DOMAIN rows' : \A r \in Reals : \A d \in DOMAIN r :
        r[d].origin # rows'[e].origin
  BY <1>1 DEF Parted
<1>4. CASE Fits!Split
  <2>1. phase' = "fit"
    BY <1>4 DEF Fits!Split
  <2>2. PICK frac \in TestTenths :
          \E s \in Fits!Halves(rows, frac), r \in Fits!Halves(real, frac) :
            half' = [seed |-> s, real |-> r]
    BY <1>4 DEF Fits!Split
  <2>3. half'.seed \in Fits!Halves(rows, frac) /\ half'.real \in Fits!Halves(real, frac)
    BY <2>2
  <2>4. half'.seed \in Fits!Halves(rows', frac) /\ half'.real \in Fits!Halves(real', frac)
    BY <1>1, <2>3
  <2>5. QED
    BY <1>2, <1>3, <2>1, <2>4 DEF Parted
<1>5. CASE Fits!Fit \/ Fits!Judge \/ Fits!Save
  <2>1. /\ phase \in {"fit", "judge", "save"} /\ UNCHANGED half
        /\ \/ phase' = "raised"
           \/ phase' \in {"judge", "save", "done"} /\ fitted' = Fits!TrainSeed \cup Fits!RealRows
    <3>1. CASE Fits!Fit
      BY <3>1 DEF Fits!Fit
    <3>2. CASE Fits!Judge \/ Fits!Save
      BY <3>2 DEF Fits!Judge, Fits!Save, Parted
    <3>3. QED
      BY <1>5, <3>1, <3>2
  <2>2. PICK frac \in TestTenths :
          half.seed \in Fits!Halves(rows, frac) /\ half.real \in Fits!Halves(real, frac)
    BY <2>1 DEF Parted
  <2>3. half'.seed \in Fits!Halves(rows', frac) /\ half'.real \in Fits!Halves(real', frac)
    BY <1>1, <2>1, <2>2
  <2>4. (Fits!TrainSeed \cup Fits!RealRows)' = Fits!TrainSeed \cup Fits!RealRows
    BY <2>1 DEF Fits!TrainSeed, Fits!RealRows, Fits!TrainReal, Fits!In
  <2>5. QED
    BY <1>2, <1>3, <2>1, <2>3, <2>4 DEF Parted
<1>6. QED
  BY <1>4, <1>5

(* No step makes strangers of the halves. *)
LEMMA HeldOutSteps ==
  HeldOutInv /\ [Fits!TrainingNext]_<<Fits!train_vars, Fits!model>> => HeldOutInv'
<1> SUFFICES ASSUME HeldOutInv, [Fits!TrainingNext]_<<Fits!train_vars, Fits!model>>
             PROVE  HeldOutInv'
  OBVIOUS
<1> USE DEF Fits!files, Fits!given, Fits!validation, Fits!outcome, Fits!model
<1>1. FilesInv'
  BY FilesSteps DEF HeldOutInv
<1>2. Parted /\ FilesInv
  BY DEF HeldOutInv
<1>3. CASE Fits!Start \/ Fits!Kill
  <2>1. rows' = <<>> /\ real' = <<>> /\ phase' \in {"load", "killed"}
    BY <1>3 DEF Fits!Start, Fits!Kill, Fits!Forget
  <2>2. QED
    BY <1>1, <1>2, <2>1, StayingParted DEF HeldOutInv
<1>4. CASE \/ Fits!Rebuild \/ Fits!LabelMutant \/ Fits!SandboxRaises \/ Fits!WriteOn
           \/ Fits!CloseDataset \/ Fits!MergeRaises \/ Fits!Stratified \/ Fits!Grouped
           \/ Fits!NoValidation \/ Fits!Fold \/ Fits!Validated
  <2>1. /\ UNCHANGED <<rows, real>>
        /\ phase' \in {"build", "raised", "write", "merge", "grouped", "fold", "split"}
    BY <1>4 DEF Fits!Rebuild, Fits!LabelMutant, Fits!SandboxRaises, Fits!WriteOn,
                Fits!CloseDataset, Fits!MergeRaises, Fits!Stratified, Fits!Grouped,
                Fits!NoValidation, Fits!Fold, Fits!Validated, Fits!Validate
  <2>2. QED
    BY <1>1, <1>2, <2>1, StayingParted DEF HeldOutInv
<1>5. CASE \/ Fits!Serve \/ Fits!Stop \/ UNCHANGED <<Fits!train_vars, Fits!model>>
  <2>1. UNCHANGED <<rows, real, phase, half, fitted>>
    BY <1>5 DEF Fits!Serve, Fits!Stop, Fits!train_vars
  <2>2. Parted'
    BY <1>2, <2>1 DEF Parted, Fits!TrainSeed, Fits!RealRows, Fits!TrainReal, Fits!In
  <2>3. QED
    BY <1>1, <2>2 DEF HeldOutInv
<1>6. CASE Fits!ReadDataset \/ Fits!OpenDataset \/ Fits!Merge
  BY <1>1, <1>2, <1>6, MakingKeepsParted, MergingKeepsParted DEF HeldOutInv
<1>7. CASE Fits!Split \/ Fits!Fit \/ Fits!Judge \/ Fits!Save
  BY <1>1, <1>2, <1>7, SplittingKeepsParted DEF HeldOutInv
<1>8. QED
  BY <1>3, <1>4, <1>5, <1>6, <1>7 DEF Fits!TrainingNext

(* The rows of a class are finitely many. *)
LEMMA ClassesAreFinite ==
  ASSUME NEW es \in Seq(Fits!Examples), NEW c
  PROVE  /\ IsFiniteSet(DOMAIN es) /\ IsFiniteSet(Fits!OfClass(es, c))
         /\ Fits!OfClass(es, c) \subseteq DOMAIN es
<1>1. IsFiniteSet(DOMAIN es)
  <2>1. Len(es) \in Nat /\ DOMAIN es = 1 .. Len(es)
    BY ElementsOf
  <2>2. IsFiniteSet(1 .. Len(es))
    BY <2>1, FS_Interval
  <2>3. QED
    BY <2>1, <2>2
<1>2. Fits!OfClass(es, c) \subseteq DOMAIN es
  BY DEF Fits!OfClass
<1>3. IsFiniteSet(Fits!OfClass(es, c))
  <2>1. Fits!OfClass(es, c) \in SUBSET DOMAIN es
    BY <1>2
  <2>2. QED
    BY <1>1, <2>1, FS_Subset
<1>4. QED
  BY <1>1, <1>2, <1>3

(* Two rows of one origin are more than one. *)
LEMMA OneOriginTwice ==
  ASSUME NEW es \in Seq(Fits!Examples), NEW d \in DOMAIN es, NEW e \in DOMAIN es, d # e,
         NEW o, es[d].origin = o, es[e].origin = o
  PROVE  Fits!Cardinality({k \in DOMAIN es : es[k].origin = o}) > 1
<1> DEFINE Same == {k \in DOMAIN es : es[k].origin = o}
<1>1. Same \subseteq DOMAIN es /\ d \in Same /\ e \in Same
  OBVIOUS
<1>2. IsFiniteSet(Same)
  BY <1>1, ClassesAreFinite, FS_Subset
<1>3. Cardinality(Same) > 1
  BY <1>1, <1>2, TwoAreMoreThanOne
<1>4. QED
  BY <1>3, SameCounts

(* No held-out row is fitted, and what has one origin on both sides are       *)
(* several rows of one kind.                                                  *)
LEMMA NothingLeaksFrom ==
  ASSUME HeldOutInv, phase \in {"judge", "save", "done"}
  PROVE  Fits!NothingLeaks
<1>1. PICK frac \in TestTenths :
        half.seed \in Fits!Halves(rows, frac) /\ half.real \in Fits!Halves(real, frac)
  BY DEF HeldOutInv, Parted
<1>2. half.seed \in [DOMAIN rows -> {"train", "test"}]
      /\ half.real \in [DOMAIN real -> {"train", "test"}]
  BY <1>1 DEF Fits!Halves
<1>3. rows \in Seq(Fits!Examples) /\ real \in Seq(Fits!Examples)
  <2>1. real = <<>> \/ real \in Reals
    BY DEF HeldOutInv, Parted
  <2>2. Reals \subseteq Seq(Fits!Examples)
    BY FitsAssumption DEF Fits!TrainingAssumption
  <2>3. <<>> \in Seq(Fits!Examples)
    OBVIOUS
  <2>4. QED
    BY <2>1, <2>2, <2>3 DEF HeldOutInv, FilesInv, FilesTyped
<1>4. ASSUME NEW r \in fitted
      PROVE  \/ r[1] = "seed" /\ r[2] \in DOMAIN rows /\ half.seed[r[2]] = "train"
             \/ r[1] = "real" /\ r[2] \in DOMAIN real /\ half.real[r[2]] = "train"
  BY <1>2, <1>4 DEF HeldOutInv, Parted, Fits!TrainSeed, Fits!RealRows, Fits!TrainReal, Fits!In
<1>5. ASSUME NEW r \in Fits!HeldOut
      PROVE  \/ r[1] = "seed" /\ r[2] \in DOMAIN rows /\ half.seed[r[2]] = "test"
             \/ r[1] = "real" /\ r[2] \in DOMAIN real /\ half.real[r[2]] = "test"
  BY <1>2, <1>5 DEF Fits!HeldOut, Fits!In
<1>6. fitted \cap Fits!HeldOut = {}
  BY <1>4, <1>5
<1>7. ASSUME NEW o \in Fits!Origins(fitted) \cap Fits!Origins(Fits!HeldOut)
      PROVE  \/ Fits!Cardinality({e \in DOMAIN rows : rows[e].origin = o}) > 1
             \/ Fits!Cardinality({e \in DOMAIN real : real[e].origin = o}) > 1
  <2>1. PICK r \in fitted : Fits!RowOf(r).origin = o
    BY DEF Fits!Origins
  <2>2. PICK q \in Fits!HeldOut : Fits!RowOf(q).origin = o
    BY DEF Fits!Origins
  <2>3. CASE r[1] = "seed" /\ q[1] = "seed"
    <3>1. r[2] \in DOMAIN rows /\ q[2] \in DOMAIN rows /\ r[2] # q[2]
      BY <1>4, <1>5, <2>3
    <3>2. rows[r[2]].origin = o /\ rows[q[2]].origin = o
      BY <2>1, <2>2, <2>3 DEF Fits!RowOf
    <3>3. QED
      BY <1>3, <3>1, <3>2, OneOriginTwice
  <2>4. CASE r[1] = "real" /\ q[1] = "real"
    <3>1. r[2] \in DOMAIN real /\ q[2] \in DOMAIN real /\ r[2] # q[2]
      BY <1>4, <1>5, <2>4
    <3>2. real[r[2]].origin = o /\ real[q[2]].origin = o
      BY <2>1, <2>2, <2>4 DEF Fits!RowOf
    <3>3. QED
      BY <1>3, <3>1, <3>2, OneOriginTwice
  <2>5. CASE r[1] # q[1]
    <3>1. PICK e \in DOMAIN rows, d \in DOMAIN real : rows[e].origin = o /\ real[d].origin = o
      BY <1>4, <1>5, <2>1, <2>2, <2>5 DEF Fits!RowOf
    <3>2. real \in Reals
      BY <3>1 DEF HeldOutInv, Parted
    <3>3. QED
      BY <3>1, <3>2 DEF HeldOutInv, Parted
  <2>6. QED
    BY <1>4, <1>5, <2>3, <2>4, <2>5
<1>8. QED
  BY <1>6, <1>7 DEF Fits!NothingLeaks, Fits!Indices

(* Of a class that has rows, some are held out; and some are fitted, of two   *)
(* or more, where at most half are held out.                                  *)
LEMMA BothSidesFrom ==
  ASSUME HeldOutInv, phase = "judge", NEW c \in {0, 1}, Fits!OfClass(rows, c) # {}
  PROVE  /\ \E e \in Fits!OfClass(rows, c) : <<"seed", e>> \in Fits!HeldOut
         /\ \/ \E e \in Fits!OfClass(rows, c) : <<"seed", e>> \in fitted
            \/ Fits!Cardinality(Fits!OfClass(rows, c)) = 1
            \/ \E frac \in TestTenths : frac > 5
<1>1. PICK frac \in TestTenths : half.seed \in Fits!Halves(rows, frac)
  BY DEF HeldOutInv, Parted
<1> DEFINE C == Fits!OfClass(rows, c)
           T == {e \in C : half.seed[e] = "test"}
           n == Cardinality(C)
<1>2. half.seed \in [DOMAIN rows -> {"train", "test"}]
      /\ Cardinality(T) = Fits!NTest(n, frac)
  BY <1>1, SameCounts DEF Fits!Halves
<1>3. IsFiniteSet(C) /\ C \subseteq DOMAIN rows
  BY ClassesAreFinite DEF HeldOutInv, FilesInv, FilesTyped
<1>4. n \in Nat \ {0} /\ frac \in 1 .. 9
  <2>1. n \in Nat /\ n # 0
    BY <1>3, FS_CardinalityType, FS_EmptySet
  <2>2. frac \in 1 .. 9
    BY FitsAssumption DEF Fits!TrainingAssumption
  <2>3. QED
    BY <2>1, <2>2
<1>5. T # {}
  <2>1. Cardinality(T) >= 1
    BY <1>2, <1>4, NTestIs
  <2>2. Cardinality({}) = 0
    BY FS_EmptySet
  <2>3. QED
    BY <2>1, <2>2
<1>6. \E e \in C : <<"seed", e>> \in Fits!HeldOut
  <2>1. PICK e \in T : TRUE
    BY <1>5
  <2>2. e \in C /\ e \in Fits!In(half.seed, "test")
    BY <1>2, <1>3, <2>1 DEF Fits!In
  <2>3. QED
    BY <2>2 DEF Fits!HeldOut
<1>7. ASSUME n > 1, frac <= 5
      PROVE  \E e \in C : <<"seed", e>> \in fitted
  <2>1. Cardinality(T) # n
    BY <1>2, <1>4, <1>7, NTestIs
  <2>2. T # C
    BY <2>1
  <2>3. PICK e \in C : half.seed[e] # "test"
    BY <2>2
  <2>4. half.seed[e] = "train" /\ e \in DOMAIN rows
    BY <1>2, <1>3, <2>3
  <2>5. e \in Fits!In(half.seed, "train")
    BY <1>2, <2>4 DEF Fits!In
  <2>6. <<"seed", e>> \in Fits!TrainSeed
    BY <2>5 DEF Fits!TrainSeed
  <2>7. fitted = Fits!TrainSeed \cup Fits!RealRows
    BY DEF HeldOutInv, Parted
  <2>8. QED
    BY <2>3, <2>6, <2>7
<1>8. Fits!Cardinality(C) = n
  BY SameCounts
<1>9. n = 1 \/ (n > 1 /\ frac <= 5) \/ frac > 5
  BY <1>4
<1> HIDE DEF n
<1>10. QED
  BY <1>6, <1>7, <1>8, <1>9

(* The model is judged on rows it was not fitted on: what both halves share   *)
(* are several rows of one origin, and each class is on both sides where it   *)
(* can be (stratified_split, train, curriculum_train).                        *)
THEOREM HeldOutRowsAreUnseen == Fits!TrainingSpec => []HeldOutIsUnseen
<1>1. Fits!TrainingInit => HeldOutInv
  <2>1. Fits!TrainingInit => Parted
    BY DEF Fits!TrainingInit, Parted
  <2>2. QED
    BY <2>1, TrainingStarts DEF HeldOutInv
<1>2. ASSUME HeldOutInv PROVE HeldOutIsUnseen
  <2>1. Fits!NothingLeaks
    BY <1>2, NothingLeaksFrom DEF Fits!NothingLeaks
  <2>2. Fits!BothSidesSeeEveryClass
    BY <1>2, BothSidesFrom DEF Fits!BothSidesSeeEveryClass
  <2>3. QED
    BY <2>1, <2>2 DEF HeldOutIsUnseen, Fits!HeldOutIsUnseen
<1>3. QED
  BY <1>1, <1>2, HeldOutSteps, PTL DEF Fits!TrainingSpec

(***************************************************************************)
(* Cross-validation: the folds, and what a row is scored with.             *)
(***************************************************************************)

(* The first row of a file, for a row of it. *)
IsFirst(b, e) ==
  /\ b \in DOMAIN rows /\ rows[b].file = rows[e].file
  /\ \A h \in DOMAIN rows : rows[h].file = rows[e].file => b <= h

(* Every row's file has one first row. *)
LEMMA EveryFileHasAFirstRow ==
  ASSUME rows \in Seq(Fits!Examples), NEW e \in DOMAIN rows
  PROVE  /\ \E b : IsFirst(b, e)
         /\ \A b, d : IsFirst(b, e) /\ IsFirst(d, e) => b = d
         /\ \A b : IsFirst(b, e) => b \in Fits!FirstRows /\ b \in Nat
<1>1. DOMAIN rows \subseteq Nat
  <2>1. Len(rows) \in Nat /\ DOMAIN rows = 1 .. Len(rows)
    BY ElementsOf
  <2>2. QED
    BY <2>1
<1>2. \E b : IsFirst(b, e)
  <2> DEFINE T == {h \in DOMAIN rows : rows[h].file = rows[e].file}
  <2>1. T \subseteq Nat /\ e \in T
    BY <1>1
  <2>2. PICK b \in T : \A h \in T : b <= h
    <3> HIDE DEF T
    <3>1. QED
      BY <2>1, LeastOf
  <2>3. QED
    BY <2>2 DEF IsFirst
<1>3. \A b, d : IsFirst(b, e) /\ IsFirst(d, e) => b = d
  BY <1>1 DEF IsFirst
<1>4. \A b : IsFirst(b, e) => b \in Fits!FirstRows /\ b \in Nat
  BY <1>1 DEF IsFirst, Fits!FirstRows, Fits!Indices
<1>5. QED
  BY <1>2, <1>3, <1>4

(* The first rows before one. *)
Before(b) == {d \in Fits!FirstRows : d < b}

(* A row's fold is the number of first rows before the one of its file. *)
LEMMA FoldOfFile ==
  ASSUME rows \in Seq(Fits!Examples), NEW e \in DOMAIN rows, NEW b, IsFirst(b, e)
  PROVE  Fits!FileFolds[e] = Cardinality(Before(b))
<1> DEFINE R == {d \in Fits!FirstRows : \E c \in DOMAIN rows :
                   rows[c].file = rows[e].file /\ \A h \in DOMAIN rows :
                     (rows[h].file = rows[e].file => c <= h) /\ d < c}
<1>1. Fits!FileFolds[e] = Cardinality(R)
  BY SameCounts DEF Fits!FileFolds, Fits!Indices
<1>2. \A d \in Fits!FirstRows : d \in R <=> d < b
  <2>1. ASSUME NEW d \in Fits!FirstRows PROVE d \in R => d < b
    <3>1. ASSUME NEW c \in DOMAIN rows, rows[c].file = rows[e].file,
                 \A h \in DOMAIN rows : (rows[h].file = rows[e].file => c <= h) /\ d < c
          PROVE  d < b
      <4>1. IsFirst(c, e)
        BY <3>1 DEF IsFirst
      <4>2. c = b
        BY <4>1, EveryFileHasAFirstRow
      <4>3. QED
        BY <3>1, <4>2
    <3>2. QED
      BY <3>1
  <2>2. ASSUME NEW d \in Fits!FirstRows, d < b PROVE d \in R
    BY <2>2 DEF IsFirst
  <2>3. QED
    BY <2>1, <2>2
<1>3. R = Before(b)
  BY <1>2 DEF Before
<1>4. QED
  BY <1>1, <1>3

(* The folds by file are a fold for each file: rows share one if and only if  *)
(* they share the file.                                                       *)
LEMMA FileFoldsAreFiles ==
  ASSUME rows \in Seq(Fits!Examples)
  PROVE  /\ Fits!Cardinality(Fits!FirstRows) \in Nat
         /\ Fits!FileFolds \in [DOMAIN rows -> 0 .. Fits!Cardinality(Fits!FirstRows) - 1]
         /\ \A d, e \in DOMAIN rows :
              Fits!FileFolds[d] = Fits!FileFolds[e] <=> rows[d].file = rows[e].file
<1>1. IsFiniteSet(Fits!FirstRows) /\ Fits!FirstRows \subseteq DOMAIN rows
      /\ Fits!FirstRows \subseteq Nat
  <2>1. Fits!FirstRows \in SUBSET DOMAIN rows
    BY DEF Fits!FirstRows, Fits!Indices
  <2>2. IsFiniteSet(Fits!FirstRows)
    BY <2>1, ClassesAreFinite, FS_Subset
  <2>3. Len(rows) \in Nat /\ DOMAIN rows = 1 .. Len(rows)
    BY ElementsOf
  <2>4. QED
    BY <2>1, <2>2, <2>3
<1>2. Cardinality(Fits!FirstRows) \in Nat
  BY <1>1, FS_CardinalityType
<1>3. ASSUME NEW e \in DOMAIN rows
      PROVE  Fits!FileFolds[e] \in 0 .. Cardinality(Fits!FirstRows) - 1
  <2>1. PICK b : IsFirst(b, e)
    BY EveryFileHasAFirstRow
  <2>2. b \in Fits!FirstRows /\ b \in Nat
    BY <2>1, EveryFileHasAFirstRow
  <2>3. Before(b) \subseteq Fits!FirstRows /\ b \notin Before(b)
    BY <2>2 DEF Before
  <2>4. Cardinality(Before(b)) \in Nat /\ Cardinality(Before(b)) < Cardinality(Fits!FirstRows)
    BY <1>1, <2>2, <2>3, LessCountsLess
  <2>5. Fits!FileFolds[e] = Cardinality(Before(b))
    BY <2>1, FoldOfFile
  <2>6. QED
    BY <1>2, <2>4, <2>5
<1>4. ASSUME NEW c, NEW b, b \in Fits!FirstRows, c \in Fits!FirstRows, b < c
      PROVE  Cardinality(Before(b)) # Cardinality(Before(c))
  <2>1. Before(b) \subseteq Before(c) /\ b \in Before(c) /\ b \notin Before(b)
        /\ Before(c) \in SUBSET Fits!FirstRows
    BY <1>1, <1>4 DEF Before
  <2>2. IsFiniteSet(Before(c))
    BY <1>1, <2>1, FS_Subset
  <2>3. Cardinality(Before(b)) \in Nat /\ Cardinality(Before(c)) \in Nat
        /\ Cardinality(Before(b)) < Cardinality(Before(c))
    BY <2>1, <2>2, LessCountsLess
  <2>4. QED
    BY <2>3
<1>5. ASSUME NEW d \in DOMAIN rows, NEW e \in DOMAIN rows
      PROVE  Fits!FileFolds[d] = Fits!FileFolds[e] <=> rows[d].file = rows[e].file
  <2>1. PICK b : IsFirst(b, d)
    BY EveryFileHasAFirstRow
  <2>2. PICK c : IsFirst(c, e)
    BY EveryFileHasAFirstRow
  <2>3. Fits!FileFolds[d] = Cardinality(Before(b)) /\ Fits!FileFolds[e] = Cardinality(Before(c))
    BY <2>1, <2>2, FoldOfFile
  <2>4. b \in Fits!FirstRows /\ c \in Fits!FirstRows /\ b \in Nat /\ c \in Nat
    BY <2>1, <2>2, EveryFileHasAFirstRow
  <2>5. CASE rows[d].file = rows[e].file
    <3>1. IsFirst(b, e)
      BY <2>1, <2>5 DEF IsFirst
    <3>2. b = c
      BY <2>2, <3>1, EveryFileHasAFirstRow
    <3>3. QED
      BY <2>3, <2>5, <3>2
  <2>6. CASE rows[d].file # rows[e].file
    <3>1. b # c
      BY <2>1, <2>2, <2>6 DEF IsFirst
    <3>2. b < c \/ c < b
      BY <2>4, <3>1
    <3>3. Cardinality(Before(b)) # Cardinality(Before(c))
      BY <1>4, <2>4, <3>2
    <3>4. QED
      BY <2>3, <2>6, <3>3
  <2>7. QED
    BY <2>5, <2>6
<1>6. Fits!FileFolds = [e \in DOMAIN rows |-> Fits!FileFolds[e]]
  BY DEF Fits!FileFolds, Fits!Indices
<1>7. QED
  BY <1>2, <1>3, <1>5, <1>6, SameCounts

(* Of two rows or more, dealt out to two folds or more, the first two folds   *)
(* get some; a single row goes to the first.                                  *)
LEMMA DealtIs ==
  ASSUME NEW n \in Nat, NEW k \in Nat \ {0}
  PROVE  /\ n > 1 /\ k > 1 => Fits!Dealt(n, k, 0) # 0 /\ Fits!Dealt(n, k, 1) # 0
         /\ \A f \in 1 .. k - 1 : n <= 1 => Fits!Dealt(n, k, f) = 0
<1> DEFINE D(f) == {j \in 0 .. n - 1 : j % k = f}
<1>1. \A f : Fits!Dealt(n, k, f) = Cardinality(D(f))
  BY SameCounts DEF Fits!Dealt
<1>2. \A f : IsFiniteSet(D(f))
  <2>1. IsFiniteSet(0 .. n - 1)
    BY FS_Interval
  <2>2. ASSUME NEW f PROVE IsFiniteSet(D(f))
    <3>1. D(f) \in SUBSET (0 .. n - 1)
      OBVIOUS
    <3>2. QED
      BY <2>1, <3>1, FS_Subset
  <2>3. QED
    BY <2>2
<1>3. \A f : Cardinality(D(f)) = 0 <=> D(f) = {}
  <2>1. ASSUME NEW f PROVE Cardinality(D(f)) = 0 <=> D(f) = {}
    <3>1. IsFiniteSet(D(f))
      BY <1>2
    <3> HIDE DEF D
    <3>2. QED
      BY <3>1, FS_EmptySet
  <2>2. QED
    BY <2>1
<1>4. ASSUME n > 1, k > 1 PROVE D(0) # {} /\ D(1) # {}
  <2>1. 0 % k = 0 /\ 1 % k = 1
    BY <1>4
  <2>2. 0 \in 0 .. n - 1 /\ 1 \in 0 .. n - 1
    BY <1>4
  <2>3. QED
    BY <2>1, <2>2
<1>5. ASSUME NEW f \in 1 .. k - 1, n <= 1 PROVE D(f) = {}
  <2>1. 0 % k = 0
    OBVIOUS
  <2>2. \A j \in 0 .. n - 1 : j = 0
    BY <1>5
  <2>3. QED
    BY <1>5, <2>1, <2>2
<1>6. QED
  <2> HIDE DEF D
  <2>1. QED
    BY <1>1, <1>3, <1>4, <1>5

(* The rows of a fold. *)
OfFold(f) == {e \in DOMAIN rows : folds.of[e] = f}

(* Stratified folds give every row a fold, and leave a row outside it unless *)
(* there is one fold only or no class has two rows.                          *)
LEMMA StratifiedFoldsAre ==
  ASSUME rows \in Seq(Fits!Examples), NEW k \in Nat \ {0},
         folds.of \in Fits!StratifiedFolds(k), NEW e \in DOMAIN rows
  PROVE  /\ folds.of \in [DOMAIN rows -> 0 .. k - 1]
         /\ OfFold(folds.of[e]) # DOMAIN rows
              <=> k > 1 /\ \E c \in {0, 1} : Fits!Cardinality(Fits!OfClass(rows, c)) > 1
<1> DEFINE C(c) == Fits!OfClass(rows, c)
           P(c, f) == {d \in C(c) : folds.of[d] = f}
<1>1. folds.of \in [DOMAIN rows -> 0 .. k - 1]
      /\ \A c \in {0, 1}, f \in 0 .. k - 1 :
           Cardinality(P(c, f)) = Fits!Dealt(Cardinality(C(c)), k, f)
  BY SameCounts DEF Fits!StratifiedFolds, Fits!Indices
<1>2. \A c : IsFiniteSet(C(c)) /\ C(c) \subseteq DOMAIN rows
  BY ClassesAreFinite
<1>3. \A c : Cardinality(C(c)) \in Nat
  BY <1>2, FS_CardinalityType
<1>4. \A d \in DOMAIN rows : \E c \in {0, 1} : d \in C(c)
  <2>1. \A d \in DOMAIN rows : rows[d] \in Fits!Examples
    BY ElementsOf
  <2>2. QED
    BY <2>1 DEF Fits!OfClass, Fits!Examples
<1>5. \A c \in {0, 1}, f \in 0 .. k - 1 :
        /\ Fits!Dealt(Cardinality(C(c)), k, f) # 0 => P(c, f) # {}
        /\ Fits!Dealt(Cardinality(C(c)), k, f) = 0 => P(c, f) = {}
  <2>1. ASSUME NEW c \in {0, 1}, NEW f \in 0 .. k - 1
        PROVE  Cardinality(P(c, f)) = 0 <=> P(c, f) = {}
    <3>1. P(c, f) \in SUBSET C(c)
      OBVIOUS
    <3>2. IsFiniteSet(P(c, f))
      BY <1>2, <3>1, FS_Subset
    <3> HIDE DEF P
    <3>3. QED
      BY <3>2, FS_EmptySet
  <2>2. QED
    BY <1>1, <2>1
<1>6. ASSUME k > 1, NEW c \in {0, 1}, Cardinality(C(c)) > 1
      PROVE  OfFold(folds.of[e]) # DOMAIN rows
  <2>1. Fits!Dealt(Cardinality(C(c)), k, 0) # 0 /\ Fits!Dealt(Cardinality(C(c)), k, 1) # 0
    BY <1>3, <1>6, DealtIs
  <2>2. 0 \in 0 .. k - 1 /\ 1 \in 0 .. k - 1
    BY <1>6
  <2>3. P(c, 0) # {} /\ P(c, 1) # {}
    BY <1>5, <2>1, <2>2
  <2>4. PICK d \in DOMAIN rows, b \in DOMAIN rows : folds.of[d] = 0 /\ folds.of[b] = 1
    BY <1>2, <2>3
  <2>5. QED
    BY <2>4 DEF OfFold
<1>7. ASSUME OfFold(folds.of[e]) # DOMAIN rows
      PROVE  k > 1 /\ \E c \in {0, 1} : Cardinality(C(c)) > 1
  <2>1. PICK d \in DOMAIN rows : folds.of[d] # folds.of[e]
    BY <1>7 DEF OfFold
  <2>2. folds.of[d] \in 0 .. k - 1 /\ folds.of[e] \in 0 .. k - 1
    BY <1>1
  <2>3. k > 1
    BY <2>1, <2>2
  <2>4. PICK b \in {d, e} : folds.of[b] # 0
    BY <2>1
  <2>5. b \in DOMAIN rows /\ folds.of[b] \in 1 .. k - 1 /\ folds.of[b] \in 0 .. k - 1
    BY <2>2, <2>4
  <2>6. PICK c \in {0, 1} : b \in C(c)
    BY <1>4, <2>5
  <2>7. P(c, folds.of[b]) # {}
    BY <2>6
  <2>8. Fits!Dealt(Cardinality(C(c)), k, folds.of[b]) # 0
    BY <1>5, <2>5, <2>7
  <2>9. ~ (Cardinality(C(c)) <= 1)
    BY <1>3, <2>5, <2>8, DealtIs
  <2>10. QED
    BY <1>3, <2>3, <2>9
<1>8. QED
  <2>1. \A c : Fits!Cardinality(C(c)) = Cardinality(C(c))
    BY SameCounts
  <2>2. QED
    BY <1>1, <1>6, <1>7, <2>1

(* What a row is scored with: nothing before its fold was the test set, then  *)
(* the model of all other rows, if there are any.                             *)
Validating ==
  /\ folds = [grouped |-> folds.grouped, of |-> folds.of, count |-> folds.count, at |-> folds.at]
  /\ folds.count \in Nat /\ folds.at \in 0 .. folds.count
  /\ folds.of \in [DOMAIN rows -> 0 .. folds.count - 1]
  /\ oof = [e \in DOMAIN rows |->
              IF folds.of[e] < folds.at /\ OfFold(folds.of[e]) # DOMAIN rows
                THEN <<DOMAIN rows \ OfFold(folds.of[e])>> ELSE <<>>]
  /\ folds.grouped => folds.of = Fits!FileFolds
  /\ ~folds.grouped => folds.count \in K /\ folds.of \in Fits!StratifiedFolds(folds.count)

OutOfFoldInv == FilesInv /\ (phase = "fold" => Validating)

(* A cross-validation begins with no row scored. *)
LEMMA ValidationStarts ==
  ASSUME FilesInv, Fits!Stratified \/ Fits!Grouped
  PROVE  Validating'
<1> USE DEF Fits!files, Fits!given, Fits!validation, Fits!outcome, Fits!model
<1>1. rows \in Seq(Fits!Examples) /\ K \subseteq Nat \ {0}
  BY FitsAssumption DEF FilesInv, FilesTyped, Fits!TrainingAssumption
<1>2. ASSUME NEW grouped \in BOOLEAN, NEW of, NEW count \in Nat,
             of \in [DOMAIN rows -> 0 .. count - 1], Fits!Validate(grouped, of, count),
             grouped => of = Fits!FileFolds,
             ~grouped => count \in K /\ of \in Fits!StratifiedFolds(count)
      PROVE  Validating'
  <2>1. /\ folds' = [grouped |-> grouped, of |-> of, count |-> count, at |-> 0]
        /\ oof' = [e \in DOMAIN rows |-> <<>>] /\ rows' = rows
    BY <1>2 DEF Fits!Validate, Fits!Indices
  <2>2. /\ folds'.grouped = grouped /\ folds'.of = of /\ folds'.count = count
        /\ folds'.at = 0
    BY <2>1
  <2>3. \A e \in DOMAIN rows : ~ (of[e] < 0)
    BY <1>2
  <2>4. oof' = [e \in DOMAIN rows' |->
                  IF folds'.of[e] < folds'.at /\ OfFold(folds.of[e])' # DOMAIN rows'
                    THEN <<DOMAIN rows' \ OfFold(folds.of[e])'>> ELSE <<>>]
    BY <2>1, <2>2, <2>3
  <2>5. Fits!FileFolds' = Fits!FileFolds
    BY <2>1 DEF Fits!FileFolds, Fits!FirstRows, Fits!Indices
  <2>6. \A k : Fits!StratifiedFolds(k)' = Fits!StratifiedFolds(k)
    BY <2>1 DEF Fits!StratifiedFolds, Fits!Indices
  <2>7. folds'.grouped => folds'.of = Fits!FileFolds'
    BY <1>2, <2>2, <2>5
  <2>8. ~folds'.grouped =>
          folds'.count \in K /\ folds'.of \in Fits!StratifiedFolds(folds.count)'
    BY <1>2, <2>2, <2>6
  <2>9. folds'.count \in Nat /\ folds'.at \in 0 .. folds'.count
        /\ folds'.of \in [DOMAIN rows' -> 0 .. folds'.count - 1]
        /\ folds' = [grouped |-> folds'.grouped, of |-> folds'.of, count |-> folds'.count,
                     at |-> folds'.at]
    BY <1>2, <2>1, <2>2
  <2>10. QED
    BY <2>4, <2>7, <2>8, <2>9 DEF Validating
<1>3. CASE Fits!Stratified
  <2>1. PICK k \in K : \E of \in Fits!StratifiedFolds(k) : Fits!Validate(FALSE, of, k)
    BY <1>3 DEF Fits!Stratified
  <2>2. PICK of \in Fits!StratifiedFolds(k) : Fits!Validate(FALSE, of, k)
    BY <2>1
  <2>3. k \in Nat /\ of \in [DOMAIN rows -> 0 .. k - 1]
    BY <1>1, <2>2 DEF Fits!StratifiedFolds, Fits!Indices
  <2>4. QED
    BY <1>2, <2>1, <2>2, <2>3
<1>4. CASE Fits!Grouped
  <2>1. Fits!Validate(TRUE, Fits!FileFolds, Fits!Cardinality(Fits!FirstRows))
    BY <1>4 DEF Fits!Grouped
  <2>2. Fits!Cardinality(Fits!FirstRows) \in Nat
        /\ Fits!FileFolds \in [DOMAIN rows -> 0 .. Fits!Cardinality(Fits!FirstRows) - 1]
    BY <1>1, FileFoldsAreFiles
  <2>3. QED
    BY <1>2, <2>1, <2>2
<1>5. QED
  BY <1>3, <1>4

(* A fold scores its own rows. *)
LEMMA FoldsScoreTheirRows ==
  ASSUME FilesInv, Validating, Fits!Fold
  PROVE  Validating'
<1> USE DEF Fits!files, Fits!given, Fits!validation, Fits!outcome, Fits!model
<1>1. /\ folds.at < folds.count /\ folds' = [folds EXCEPT !.at = @ + 1] /\ rows' = rows
      /\ oof' = [e \in DOMAIN rows |->
                   IF e \in OfFold(folds.at) /\ DOMAIN rows \ OfFold(folds.at) # {}
                     THEN Append(oof[e], DOMAIN rows \ OfFold(folds.at)) ELSE oof[e]]
  BY DEF Fits!Fold, Fits!TrainSet, Fits!Indices, OfFold
<1>2. /\ folds = [grouped |-> folds.grouped, of |-> folds.of, count |-> folds.count,
                  at |-> folds.at]
      /\ folds.count \in Nat /\ folds.at \in 0 .. folds.count
      /\ folds.of \in [DOMAIN rows -> 0 .. folds.count - 1]
  BY DEF Validating
<1>3. /\ folds'.grouped = folds.grouped /\ folds'.of = folds.of /\ folds'.count = folds.count
      /\ folds'.at = folds.at + 1
      /\ folds' = [grouped |-> folds'.grouped, of |-> folds'.of, count |-> folds'.count,
                   at |-> folds'.at]
  BY <1>1, <1>2
<1>4. folds'.at \in 0 .. folds'.count
  BY <1>1, <1>2, <1>3
<1>5. \A f : OfFold(f)' = OfFold(f)
  BY <1>1, <1>3 DEF OfFold
<1>6. ASSUME NEW e \in DOMAIN rows
      PROVE  oof'[e] = IF folds.of[e] < folds.at + 1 /\ OfFold(folds.of[e]) # DOMAIN rows
                         THEN <<DOMAIN rows \ OfFold(folds.of[e])>> ELSE <<>>
  <2>1. folds.of[e] \in Nat /\ folds.at \in Nat
    BY <1>2
  <2>2. oof[e] = IF folds.of[e] < folds.at /\ OfFold(folds.of[e]) # DOMAIN rows
                   THEN <<DOMAIN rows \ OfFold(folds.of[e])>> ELSE <<>>
    BY DEF Validating
  <2>3. oof'[e] = IF e \in OfFold(folds.at) /\ DOMAIN rows \ OfFold(folds.at) # {}
                    THEN Append(oof[e], DOMAIN rows \ OfFold(folds.at)) ELSE oof[e]
    BY <1>1
  <2>4. e \in OfFold(folds.at) <=> folds.of[e] = folds.at
    BY DEF OfFold
  <2>5. \A f : OfFold(f) # DOMAIN rows <=> DOMAIN rows \ OfFold(f) # {}
    BY DEF OfFold
  <2>6. CASE folds.of[e] = folds.at
    <3>1. oof[e] = <<>>
      BY <2>1, <2>2, <2>6
    <3>2. \A x : Append(<<>>, x) = <<x>>
      OBVIOUS
    <3>3. folds.of[e] < folds.at + 1
      BY <2>1, <2>6
    <3>4. oof'[e] = IF DOMAIN rows \ OfFold(folds.at) # {}
                      THEN <<DOMAIN rows \ OfFold(folds.at)>> ELSE <<>>
      BY <2>3, <2>4, <2>6, <3>1, <3>2
    <3>5. QED
      BY <2>5, <2>6, <3>3, <3>4
  <2>7. CASE folds.of[e] # folds.at
    <3>1. oof'[e] = oof[e]
      BY <2>3, <2>4, <2>7
    <3>2. folds.of[e] < folds.at + 1 <=> folds.of[e] < folds.at
      BY <2>1, <2>7
    <3>3. QED
      BY <2>2, <3>1, <3>2
  <2>8. QED
    BY <2>6, <2>7
<1>7. oof' = [e \in DOMAIN rows' |->
                IF folds'.of[e] < folds'.at /\ OfFold(folds.of[e])' # DOMAIN rows'
                  THEN <<DOMAIN rows' \ OfFold(folds.of[e])'>> ELSE <<>>]
  <2>1. oof' = [e \in DOMAIN rows' |-> oof'[e]]
    BY <1>1
  <2>2. ASSUME NEW e \in DOMAIN rows'
        PROVE  oof'[e] = IF folds'.of[e] < folds'.at /\ OfFold(folds.of[e])' # DOMAIN rows'
                           THEN <<DOMAIN rows' \ OfFold(folds.of[e])'>> ELSE <<>>
    <3>1. OfFold(folds.of[e])' = OfFold(folds.of[e])
      BY <1>3, <1>5
    <3>2. /\ DOMAIN rows' = DOMAIN rows /\ folds'.of = folds.of /\ e \in DOMAIN rows
          /\ folds'.at = folds.at + 1
      BY <1>1, <1>3
    <3>3. QED
      BY <1>6, <3>1, <3>2, Zenon
  <2>3. QED
    BY <2>1, <2>2, Zenon
<1>8. Fits!FileFolds' = Fits!FileFolds
  BY <1>1 DEF Fits!FileFolds, Fits!FirstRows, Fits!Indices
<1>9. \A k : Fits!StratifiedFolds(k)' = Fits!StratifiedFolds(k)
  BY <1>1 DEF Fits!StratifiedFolds, Fits!Indices
<1>10. folds'.grouped => folds'.of = Fits!FileFolds'
  BY <1>3, <1>8 DEF Validating
<1>11. ~folds'.grouped =>
         folds'.count \in K /\ folds'.of \in Fits!StratifiedFolds(folds.count)'
  BY <1>3, <1>9 DEF Validating
<1>12. folds'.count \in Nat /\ folds'.of \in [DOMAIN rows' -> 0 .. folds'.count - 1]
  BY <1>1, <1>2, <1>3
<1>13. QED
  BY <1>3, <1>4, <1>7, <1>10, <1>11, <1>12 DEF Validating

(* No step scores a row with a model that has seen it. *)
LEMMA OutOfFoldSteps ==
  OutOfFoldInv /\ [Fits!TrainingNext]_<<Fits!train_vars, Fits!model>> => OutOfFoldInv'
<1> SUFFICES ASSUME OutOfFoldInv, [Fits!TrainingNext]_<<Fits!train_vars, Fits!model>>
             PROVE  OutOfFoldInv'
  OBVIOUS
<1> USE DEF Fits!files, Fits!given, Fits!validation, Fits!outcome, Fits!model
<1>1. FilesInv /\ FilesInv'
  BY FilesSteps DEF OutOfFoldInv
<1>2. CASE \/ Fits!Start \/ Fits!ReadDataset \/ Fits!Rebuild \/ Fits!LabelMutant
           \/ Fits!SandboxRaises \/ Fits!OpenDataset \/ Fits!WriteOn \/ Fits!CloseDataset
           \/ Fits!Merge \/ Fits!MergeRaises \/ Fits!NoValidation \/ Fits!Validated
           \/ Fits!Split \/ Fits!Fit \/ Fits!Judge \/ Fits!Save \/ Fits!Kill
  <2>1. phase' # "fold"
    BY <1>2 DEF Fits!Start, Fits!ReadDataset, Fits!Rebuild, Fits!LabelMutant,
                Fits!SandboxRaises, Fits!OpenDataset, Fits!WriteOn, Fits!CloseDataset,
                Fits!Merge, Fits!MergeRaises, Fits!NoValidation, Fits!Validated, Fits!Split,
                Fits!Fit, Fits!Judge, Fits!Save, Fits!Kill
  <2>2. QED
    BY <1>1, <2>1 DEF OutOfFoldInv
<1>3. CASE Fits!Stratified \/ Fits!Grouped
  BY <1>1, <1>3, ValidationStarts DEF OutOfFoldInv
<1>4. CASE Fits!Fold
  <2>1. phase = "fold"
    BY <1>4 DEF Fits!Fold
  <2>2. QED
    BY <1>1, <1>4, <2>1, FoldsScoreTheirRows DEF OutOfFoldInv
<1>5. CASE Fits!Serve \/ Fits!Stop \/ UNCHANGED <<Fits!train_vars, Fits!model>>
  <2>1. UNCHANGED <<phase, rows, folds, oof>>
    BY <1>5 DEF Fits!Serve, Fits!Stop, Fits!train_vars
  <2>2. Validating' <=> Validating
    BY <2>1 DEF Validating, OfFold, Fits!FileFolds, Fits!FirstRows, Fits!Indices,
                Fits!StratifiedFolds
  <2>3. QED
    BY <1>1, <2>1, <2>2 DEF OutOfFoldInv
<1>6. QED
  BY <1>2, <1>3, <1>4, <1>5 DEF Fits!TrainingNext

(* All rows are scored in the end, if any two of them are in different folds. *)
LEMMA AllAreScoredApart ==
  ASSUME FilesInv, Validating, NEW e \in DOMAIN rows
  PROVE  OfFold(folds.of[e]) # DOMAIN rows <=>
           IF folds.grouped THEN Fits!Cardinality({rows[d].file : d \in DOMAIN rows}) > 1
           ELSE folds.count > 1 /\ \E c \in {0, 1} :
                  Fits!Cardinality(Fits!OfClass(rows, c)) > 1
<1>1. rows \in Seq(Fits!Examples) /\ K \subseteq Nat \ {0}
  BY FitsAssumption DEF FilesInv, FilesTyped, Fits!TrainingAssumption
<1>2. CASE ~folds.grouped
  <2>1. folds.count \in Nat \ {0} /\ folds.of \in Fits!StratifiedFolds(folds.count)
    BY <1>1, <1>2 DEF Validating
  <2>2. QED
    BY <1>1, <1>2, <2>1, StratifiedFoldsAre
<1>3. CASE folds.grouped
  <2> DEFINE F == {rows[d].file : d \in DOMAIN rows}
  <2>1. folds.of = Fits!FileFolds
    BY <1>3 DEF Validating
  <2>2. OfFold(folds.of[e]) # DOMAIN rows <=> \E d \in DOMAIN rows : rows[d].file # rows[e].file
    BY <1>1, <2>1, FileFoldsAreFiles DEF OfFold
  <2>3. IsFiniteSet(F)
    <3>1. IsFiniteSet(DOMAIN rows)
      BY <1>1, ClassesAreFinite
    <3> DEFINE f == [d \in DOMAIN rows |-> rows[d].file]
    <3>2. f \in Surjection(DOMAIN rows, F)
      BY DEF Surjection
    <3> HIDE DEF f, F
    <3>3. QED
      BY <3>1, <3>2, FS_Surjection
  <2>4. ASSUME NEW d \in DOMAIN rows, rows[d].file # rows[e].file
        PROVE  Cardinality(F) > 1
    <3>1. rows[d].file \in F /\ rows[e].file \in F
      OBVIOUS
    <3> HIDE DEF F
    <3>2. QED
      BY <2>3, <2>4, <3>1, TwoAreMoreThanOne
  <2>5. ASSUME \A d \in DOMAIN rows : rows[d].file = rows[e].file
        PROVE  ~ (Cardinality(F) > 1)
    <3>1. F = {rows[e].file}
      BY <2>5
    <3>2. Cardinality({rows[e].file}) = 1
      BY FS_Singleton
    <3>3. QED
      BY <3>1, <3>2
  <2>6. Fits!Cardinality(F) = Cardinality(F)
    BY SameCounts
  <2>7. QED
    BY <1>3, <2>2, <2>4, <2>5, <2>6
<1>4. QED
  BY <1>2, <1>3

(* Cross-validation scores no row with a model that has seen it, or its file  *)
(* where the folds are files, none twice, and all as soon as two folds have   *)
(* any (stratified_kfold, grouped_folds_by_file, cross_validate).             *)
THEOREM ScoresAreOutOfFold == Fits!TrainingSpec => []OutOfFold
<1>1. Fits!TrainingInit => OutOfFoldInv
  BY TrainingStarts DEF OutOfFoldInv, Fits!TrainingInit
<1>2. ASSUME OutOfFoldInv, phase = "fold" PROVE Fits!OutOfFold
  <2>1. FilesInv /\ Validating /\ rows \in Seq(Fits!Examples)
    BY <1>2 DEF OutOfFoldInv, FilesInv, FilesTyped
  <2>2. ASSUME NEW e \in DOMAIN rows
        PROVE  oof[e] = IF folds.of[e] < folds.at /\ OfFold(folds.of[e]) # DOMAIN rows
                          THEN <<DOMAIN rows \ OfFold(folds.of[e])>> ELSE <<>>
    BY <2>1 DEF Validating
  <2>3. ASSUME NEW e \in DOMAIN rows PROVE Len(oof[e]) <= 1
    <3>1. \A x : Len(<<x>>) <= 1
      OBVIOUS
    <3>2. Len(<<>>) <= 1
      OBVIOUS
    <3>3. QED
      BY <2>2, <3>1, <3>2, Zenon
  <2>4. ASSUME NEW e \in DOMAIN rows, NEW s \in DOMAIN oof[e]
        PROVE  /\ e \notin oof[e][s]
               /\ folds.grouped => \A d \in oof[e][s] : rows[d].file # rows[e].file
    <3>1. oof[e][s] = DOMAIN rows \ OfFold(folds.of[e])
      <4>1. \A x : DOMAIN <<x>> = {1} /\ <<x>>[1] = x
        OBVIOUS
      <4>2. DOMAIN <<>> = {}
        OBVIOUS
      <4>3. QED
        BY <2>2, <4>1, <4>2
    <3>2. folds.grouped => folds.of = Fits!FileFolds
      BY <2>1 DEF Validating
    <3>3. QED
      BY <2>1, <3>1, <3>2, FileFoldsAreFiles DEF OfFold
  <2>5. ASSUME folds.at = folds.count, NEW e \in DOMAIN rows
        PROVE  Len(oof[e]) = 1 <=> OfFold(folds.of[e]) # DOMAIN rows
    <3>1. folds.of[e] < folds.at
      BY <2>1, <2>5 DEF Validating
    <3>2. \A x : Len(<<x>>) = 1
      OBVIOUS
    <3>3. Len(<<>>) # 1
      OBVIOUS
    <3>4. QED
      BY <2>2, <3>1, <3>2, <3>3, Zenon
  <2>6. QED
    BY <1>2, <2>1, <2>3, <2>4, <2>5, AllAreScoredApart DEF Fits!OutOfFold, Fits!Indices
<1>3. OutOfFoldInv => OutOfFold
  BY <1>2 DEF OutOfFold, Fits!OutOfFold
<1>4. QED
  BY <1>1, <1>3, OutOfFoldSteps, PTL DEF Fits!TrainingSpec

(***************************************************************************)
(* What an ensemble says of its uncertainty.                               *)
(***************************************************************************)
Adding(f, n, a) == a = [j \in 0 .. n |-> IF j = 0 THEN 0 ELSE a[j - 1] + f[j - 1]]
RS(f, n)        == Fits!RunningSum(f, n)

(* A sum that is added up one by one. *)
LEMMA RunningSumIs ==
  ASSUME NEW f
  PROVE  RS(f, 0) = 0 /\ \A n \in Nat : RS(f, n + 1) = RS(f, n) + f[n]
<1>1. \A n \in Nat : \E a : Adding(f, n, a)
  <2> DEFINE T == {n \in Nat : \E a : Adding(f, n, a)}
  <2>1. 0 \in T
    <3> DEFINE a == [j \in 0 .. 0 |-> 0]
    <3>1. a = [j \in 0 .. 0 |-> IF j = 0 THEN 0 ELSE a[j - 1] + f[j - 1]]
      OBVIOUS
    <3> HIDE DEF a
    <3>2. QED
      BY <3>1 DEF Adding
  <2>2. ASSUME NEW n \in Nat, NEW a, Adding(f, n, a) PROVE \E e : Adding(f, n + 1, e)
    <3> DEFINE e == [j \in 0 .. n + 1 |-> IF j <= n THEN a[j] ELSE a[n] + f[n]]
    <3>1. \A j \in 0 .. n : a[j] = IF j = 0 THEN 0 ELSE a[j - 1] + f[j - 1]
      BY <2>2 DEF Adding
    <3>2. \A j \in 0 .. n : e[j] = a[j]
      OBVIOUS
    <3>3. e[n + 1] = a[n] + f[n]
      OBVIOUS
    <3>4. ASSUME NEW j \in 0 .. n + 1
          PROVE  e[j] = IF j = 0 THEN 0 ELSE e[j - 1] + f[j - 1]
      <4> HIDE DEF e
      <4>1. CASE j = 0
        BY <3>1, <3>2, <4>1
      <4>2. CASE j # 0 /\ j <= n
        <5>1. j \in 0 .. n /\ j - 1 \in 0 .. n
          BY <4>2
        <5>2. QED
          BY <3>1, <3>2, <4>2, <5>1
      <4>3. CASE j = n + 1
        <5>1. n \in 0 .. n /\ j - 1 = n
          BY <4>3
        <5>2. QED
          BY <3>2, <3>3, <4>3, <5>1
      <4>4. QED
        BY <4>1, <4>2, <4>3
    <3>5. e = [j \in 0 .. n + 1 |-> e[j]]
      OBVIOUS
    <3> HIDE DEF e
    <3>6. e = [j \in 0 .. n + 1 |-> IF j = 0 THEN 0 ELSE e[j - 1] + f[j - 1]]
      BY <3>4, <3>5
    <3>7. QED
      BY <3>6 DEF Adding
  <2>3. T = Nat
    <3>1. T \subseteq Nat /\ \A n \in T : n + 1 \in T
      BY <2>2
    <3> HIDE DEF T
    <3>2. QED
      BY <2>1, <3>1, AllNumbersIn
  <2>4. \A n \in Nat : n \in T
    BY <2>3
  <2>5. QED
    BY <2>4
<1>2. ASSUME NEW n \in Nat, NEW m \in Nat, NEW a, NEW e, Adding(f, n, a), Adding(f, m, e)
      PROVE  \A j \in Nat : j <= n /\ j <= m => a[j] = e[j]
  <2> DEFINE T == {j \in Nat : j <= n /\ j <= m => a[j] = e[j]}
  <2>0. /\ \A j \in 0 .. n : a[j] = IF j = 0 THEN 0 ELSE a[j - 1] + f[j - 1]
        /\ \A j \in 0 .. m : e[j] = IF j = 0 THEN 0 ELSE e[j - 1] + f[j - 1]
    BY <1>2 DEF Adding
  <2>1. 0 \in T
    BY <2>0
  <2>2. ASSUME NEW j \in T PROVE j + 1 \in T
    <3>1. SUFFICES ASSUME j + 1 <= n, j + 1 <= m PROVE a[j + 1] = e[j + 1]
      OBVIOUS
    <3>2. j + 1 \in 0 .. n /\ j + 1 \in 0 .. m /\ (j + 1) - 1 = j /\ j + 1 # 0
      BY <3>1
    <3>3. a[j + 1] = a[j] + f[j] /\ e[j + 1] = e[j] + f[j]
      BY <2>0, <3>2
    <3>4. QED
      BY <3>1, <3>3
  <2>3. T = Nat
    <3>1. T \subseteq Nat
      OBVIOUS
    <3> HIDE DEF T
    <3>2. QED
      BY <2>1, <2>2, <3>1, AllNumbersIn
  <2>4. QED
    BY <2>3
<1> DEFINE up(n) == CHOOSE a : Adding(f, n, a)
<1>3. \A n \in Nat : Adding(f, n, up(n))
  BY <1>1
<1>4. \A n \in Nat : RS(f, n) = up(n)[n]
  BY DEF RS, Fits!RunningSum, Adding
<1> HIDE DEF up
<1>5. \A n \in Nat : \A j \in 0 .. n :
        up(n)[j] = IF j = 0 THEN 0 ELSE up(n)[j - 1] + f[j - 1]
  BY <1>3 DEF Adding
<1>6. RS(f, 0) = 0
  BY <1>4, <1>5
<1>7. ASSUME NEW n \in Nat PROVE RS(f, n + 1) = RS(f, n) + f[n]
  <2>1. n + 1 \in Nat /\ n + 1 \in 0 .. n + 1 /\ n + 1 # 0 /\ (n + 1) - 1 = n
    OBVIOUS
  <2>2. up(n + 1)[n + 1] = up(n + 1)[n] + f[n]
    BY <1>5, <2>1
  <2>3. up(n + 1)[n] = up(n)[n]
    BY <1>2, <1>3, <2>1
  <2>4. QED
    BY <1>4, <2>1, <2>2, <2>3
<1>8. QED
  BY <1>6, <1>7

(* ... of integers is one. *)
LEMMA RunningSumType ==
  ASSUME NEW f, NEW n \in Nat, \A j \in 0 .. n - 1 : f[j] \in Int
  PROVE  \A j \in 0 .. n : RS(f, j) \in Int
<1> DEFINE T == {j \in Nat : j <= n => RS(f, j) \in Int}
<1>1. 0 \in T
  BY RunningSumIs
<1>2. ASSUME NEW j \in T PROVE j + 1 \in T
  <2>1. RS(f, j + 1) = RS(f, j) + f[j]
    BY RunningSumIs
  <2>2. j + 1 <= n => j \in 0 .. n - 1
    OBVIOUS
  <2>3. QED
    BY <2>1, <2>2
<1>3. T = Nat
  <2>1. T \subseteq Nat
    OBVIOUS
  <2> HIDE DEF T
  <2>2. QED
    BY <1>1, <1>2, <2>1, AllNumbersIn
<1>4. QED
  BY <1>3

(* Whose terms are no larger, the sum is no larger, and smaller if the first is. *)
LEMMA RunningSumOrder ==
  ASSUME NEW f, NEW h, NEW n \in Nat, \A j \in 0 .. n - 1 : f[j] \in Int /\ h[j] \in Int,
         \A j \in 0 .. n - 1 : f[j] <= h[j], n > 0, f[0] < h[0]
  PROVE  RS(f, n) < RS(h, n)
<1> DEFINE T == {j \in Nat : j + 1 <= n => RS(f, j + 1) < RS(h, j + 1)}
<1>0. \A j \in 0 .. n : RS(f, j) \in Int /\ RS(h, j) \in Int
  BY RunningSumType
<1>1. 0 \in T
  <2>1. RS(f, 0 + 1) = RS(f, 0) + f[0] /\ RS(h, 0 + 1) = RS(h, 0) + h[0]
    BY RunningSumIs
  <2>2. RS(f, 0) = 0 /\ RS(h, 0) = 0 /\ 0 \in 0 .. n - 1
    BY RunningSumIs
  <2>3. QED
    BY <2>1, <2>2
<1>2. ASSUME NEW j \in T PROVE j + 1 \in T
  <2>1. SUFFICES ASSUME j + 2 <= n PROVE RS(f, (j + 1) + 1) < RS(h, (j + 1) + 1)
    OBVIOUS
  <2>2. /\ RS(f, (j + 1) + 1) = RS(f, j + 1) + f[j + 1]
        /\ RS(h, (j + 1) + 1) = RS(h, j + 1) + h[j + 1]
    BY RunningSumIs
  <2>3. j + 1 \in 0 .. n - 1 /\ j + 1 \in 0 .. n
    BY <2>1
  <2>4. RS(f, j + 1) < RS(h, j + 1)
    BY <2>1
  <2>5. RS(f, j + 1) \in Int /\ RS(h, j + 1) \in Int
    BY <1>0, <2>3
  <2>6. f[j + 1] \in Int /\ h[j + 1] \in Int /\ f[j + 1] <= h[j + 1]
    BY <2>3
  <2>7. QED
    BY <2>2, <2>4, <2>5, <2>6
<1>3. T = Nat
  <2>1. T \subseteq Nat
    OBVIOUS
  <2> HIDE DEF T
  <2>2. QED
    BY <1>1, <1>2, <2>1, AllNumbersIn
<1>4. n - 1 \in T /\ (n - 1) + 1 = n
  <2>1. n - 1 \in Nat /\ (n - 1) + 1 = n
    OBVIOUS
  <2> HIDE DEF T
  <2>2. QED
    BY <1>3, <2>1
<1>5. QED
  BY <1>4

(* The part of the variance that is between the heads and the part within     *)
(* them, head after head.                                                     *)
LEMMA VarianceSplits ==
  ASSUME NEW p \in [0 .. M - 1 -> Int]
  PROVE  Fits!UncertaintySplits(p)
<1> DEFINE S == RS(p, M)
           O == Fits!One
           e == [j \in DOMAIN p |-> (M * p[j] - S) * (M * p[j] - S)]
           v == [j \in DOMAIN p |-> p[j] * (O - p[j])]
<1>0. M \in Nat \ {0} /\ O \in Nat
  BY FitsAssumption DEF Fits!LatentModelAssumption, Fits!One
<1>1. \A j \in 0 .. M - 1 : p[j] \in Int
  OBVIOUS
<1>2. S \in Int /\ \A j \in 0 .. M : RS(p, j) \in Int
  <2>1. \A j \in 0 .. M : RS(p, j) \in Int
    BY <1>0, <1>1, RunningSumType
  <2>2. M \in 0 .. M
    BY <1>0
  <2>3. QED
    BY <2>1, <2>2
<1> HIDE DEF S, O
<1>3. \A j \in 0 .. M - 1 : /\ e[j] = (M * p[j] - S) * (M * p[j] - S)
                            /\ v[j] = p[j] * (O - p[j])
  OBVIOUS
<1>4. \A j \in 0 .. M - 1 : e[j] \in Int /\ v[j] \in Int
  <2>1. ASSUME NEW j \in 0 .. M - 1
        PROVE  (M * p[j] - S) * (M * p[j] - S) \in Int /\ p[j] * (O - p[j]) \in Int
    BY <1>0, <1>1, <1>2
  <2>2. QED
    BY <1>3, <2>1
<1> HIDE DEF e, v
<1>5. \A j \in 0 .. M : RS(e, j) \in Int /\ RS(v, j) \in Int
  BY <1>0, <1>4, RunningSumType
<1> DEFINE T == {j \in Nat : j <= M =>
                   RS(e, j) + M * M * RS(v, j) =
                     M * M * O * RS(p, j) - 2 * M * S * RS(p, j) + j * S * S}
<1>6. 0 \in T
  <2>1. RS(e, 0) = 0 /\ RS(v, 0) = 0 /\ RS(p, 0) = 0
    BY RunningSumIs
  <2>2. 0 + M * M * 0 = M * M * O * 0 - 2 * M * S * 0 + 0 * S * S
    BY <1>0, <1>2
  <2>3. QED
    BY <2>1, <2>2
<1>7. ASSUME NEW j \in T PROVE j + 1 \in T
  <2>1. SUFFICES ASSUME j + 1 <= M
                 PROVE  RS(e, j + 1) + M * M * RS(v, j + 1) =
                          M * M * O * RS(p, j + 1) - 2 * M * S * RS(p, j + 1) + (j + 1) * S * S
    OBVIOUS
  <2>2. j \in 0 .. M - 1 /\ j \in 0 .. M
    BY <1>0, <2>1
  <2> DEFINE x == RS(e, j)
             y == RS(v, j)
             z == RS(p, j)
             q == p[j]
  <2>3. x + M * M * y = M * M * O * z - 2 * M * S * z + j * S * S
    BY <1>0, <2>1
  <2>4. x \in Int /\ y \in Int /\ z \in Int /\ q \in Int
    BY <1>1, <1>2, <1>5, <2>2
  <2>5. /\ RS(e, j + 1) = x + (M * q - S) * (M * q - S)
        /\ RS(v, j + 1) = y + q * (O - q)
        /\ RS(p, j + 1) = z + q
    BY <1>3, <2>2, RunningSumIs
  <2> HIDE DEF x, y, z, q
  <2>6. (x + (M * q - S) * (M * q - S)) + M * M * (y + q * (O - q)) =
          M * M * O * (z + q) - 2 * M * S * (z + q) + (j + 1) * S * S
    <3> DEFINE sq == M * M * q * q
               ms == 2 * M * S * q
               oq == M * M * O * q
               E == (M * q - S) * (M * q - S)
               V == M * M * (y + q * (O - q))
               P == M * M * O * (z + q)
               R == 2 * M * S * (z + q)
               N == (j + 1) * S * S
               V0 == M * M * y
               P0 == M * M * O * z
               R0 == 2 * M * S * z
               N0 == j * S * S
               s2 == S * S
    <3>1. E = sq - ms + s2
      BY <1>0, <1>2, <2>4
    <3>2. V = V0 + oq - sq
      BY <1>0, <1>2, <2>4
    <3>3. P = P0 + oq
      BY <1>0, <1>2, <2>4
    <3>4. R = R0 + ms
      BY <1>0, <1>2, <2>4
    <3>5. N = N0 + s2
      BY <1>0, <1>2, <2>4
    <3>6. /\ sq \in Int /\ ms \in Int /\ oq \in Int /\ s2 \in Int
          /\ V0 \in Int /\ P0 \in Int /\ R0 \in Int /\ N0 \in Int
      BY <1>0, <1>2, <2>4
    <3>7. x + V0 = P0 - R0 + N0
      BY <2>3
    <3> HIDE DEF sq, ms, oq, E, V, P, R, N, V0, P0, R0, N0, s2
    <3>8. (x + E) + V = P - R + N
      BY <2>4, <3>1, <3>2, <3>3, <3>4, <3>5, <3>6, <3>7
    <3>9. QED
      BY <3>8 DEF E, V, P, R, N
  <2>7. QED
    BY <2>5, <2>6
<1>8. T = Nat
  <2>1. T \subseteq Nat
    OBVIOUS
  <2> HIDE DEF T
  <2>2. QED
    BY <1>6, <1>7, <2>1, AllNumbersIn
<1>9. RS(e, M) + M * M * RS(v, M) = M * S * (M * O - S)
  <2>1. M \in T /\ M <= M
    BY <1>0, <1>8
  <2>2. RS(e, M) + M * M * RS(v, M) = M * M * O * S - 2 * M * S * S + M * S * S
    BY <2>1 DEF S
  <2>3. M * M * O * S - 2 * M * S * S + M * S * S = M * S * (M * O - S)
    BY <1>0, <1>2
  <2>4. QED
    BY <2>2, <2>3
<1>10. QED
  BY <1>9 DEF e, v, S, O, RS, Fits!UncertaintySplits, Fits!Epistemic, Fits!Aleatoric, Fits!Sum,
     Fits!OverHeads, Fits!Squares

(* Heads further out are further from the middle. *)
LEMMA TimesMonotone ==
  ASSUME NEW x \in Int, NEW y \in Int, NEW w \in Nat, x <= y
  PROVE  w * x <= w * y /\ w * x \in Int /\ w * y \in Int
<1>1. w * y = w * x + w * (y - x)
  OBVIOUS
<1>2. y - x \in Nat
  OBVIOUS
<1>3. w * (y - x) \in Nat /\ w * x \in Int /\ w * y \in Int
  BY <1>2
<1>4. QED
  BY <1>1, <1>3

(* Heads that are not cut off are where they were put, and those of M heads   *)
(* are as much below their middle as above.                                   *)
Width(c)  == 40 + 10 * c
Out(j)    == 2 * j - (M - 1)

LEMMA UncutHeadsAre ==
  ASSUME NEW c \in 0 .. 20, Fits!Uncut(c)
  PROVE  /\ \A j \in 0 .. M - 1 : Fits!Heads(c)[j] = Fits!Center(c) + Width(c) * Out(j)
         /\ RS(Fits!Heads(c), M) = M * Fits!Center(c)
         /\ Fits!Center(c) \in Int
<1> DEFINE C == Fits!Center(c)
           W == Width(c)
           p == Fits!Heads(c)
           raw(j) == C + W * Out(j)
<1>0. M \in Nat \ {0}
  BY FitsAssumption DEF Fits!LatentModelAssumption
<1>1. C \in Int /\ W \in Nat
  BY DEF Fits!Center, Fits!Clamp, Width
<1>2. \A j \in 0 .. M - 1 : p[j] = Fits!HeadOf(c, j)
  BY DEF Fits!Heads
<1>3. \A j \in 0 .. M - 1 :
        Fits!HeadOf(c, j) = IF raw(j) < 40 THEN 40 ELSE IF raw(j) > 3960 THEN 3960 ELSE raw(j)
  BY DEF Fits!HeadOf, Fits!Clamp, Width, Out
<1> HIDE DEF C, W, p
<1>4. \A j \in 0 .. M - 1 : raw(j) \in Int /\ raw(0) <= raw(j) /\ raw(j) <= raw(M - 1)
  <2>1. SUFFICES ASSUME NEW j \in 0 .. M - 1
                 PROVE  raw(j) \in Int /\ raw(0) <= raw(j) /\ raw(j) <= raw(M - 1)
    OBVIOUS
  <2>2. /\ Out(0) \in Int /\ Out(j) \in Int /\ Out(M - 1) \in Int
        /\ Out(0) <= Out(j) /\ Out(j) <= Out(M - 1)
    BY <1>0 DEF Out
  <2>3. /\ W * Out(0) <= W * Out(j) /\ W * Out(j) <= W * Out(M - 1)
        /\ W * Out(0) \in Int /\ W * Out(j) \in Int /\ W * Out(M - 1) \in Int
    BY <1>1, <2>2, TimesMonotone
  <2>4. QED
    BY <1>1, <2>3
<1> DEFINE low == raw(0)
           high == raw(M - 1)
<1>5. low > 40 /\ high < 3960
  <2>1. Fits!HeadOf(c, 0) > 40 /\ Fits!HeadOf(c, M - 1) < 3960
    BY DEF Fits!Uncut
  <2>2. 0 \in 0 .. M - 1 /\ M - 1 \in 0 .. M - 1
    BY <1>0
  <2>3. /\ Fits!HeadOf(c, 0) = IF low < 40 THEN 40 ELSE IF low > 3960 THEN 3960 ELSE low
        /\ Fits!HeadOf(c, M - 1) = IF high < 40 THEN 40 ELSE IF high > 3960 THEN 3960 ELSE high
        /\ low \in Int /\ high \in Int /\ low <= high
    BY <1>3, <1>4, <2>2
  <2> HIDE DEF low, high
  <2>4. QED
    BY <2>1, <2>3
<1>6. ASSUME NEW j \in 0 .. M - 1 PROVE p[j] = raw(j) /\ raw(j) \in Int
  <2>1. raw(j) \in Int /\ low <= raw(j) /\ raw(j) <= high /\ low \in Int /\ high \in Int
    <3>1. 0 \in 0 .. M - 1 /\ M - 1 \in 0 .. M - 1
      BY <1>0
    <3>2. QED
      BY <1>4, <3>1
  <2>2. p[j] = IF raw(j) < 40 THEN 40 ELSE IF raw(j) > 3960 THEN 3960 ELSE raw(j)
    BY <1>2, <1>3
  <2> DEFINE x == raw(j)
  <2> HIDE DEF low, high, x
  <2>3. p[j] = x
    BY <1>5, <2>1, <2>2 DEF x
  <2>4. QED
    BY <2>1, <2>3 DEF x
<1> DEFINE T == {j \in Nat : j <= M => RS(p, j) = j * C + W * (j * (j - M))}
<1>7. 0 \in T
  <2>1. 0 * C + W * (0 * (0 - M)) = 0
    BY <1>0, <1>1
  <2>2. QED
    BY <2>1, RunningSumIs
<1>8. ASSUME NEW j \in T PROVE j + 1 \in T
  <2>1. SUFFICES ASSUME j + 1 <= M
                 PROVE  RS(p, j + 1) = (j + 1) * C + W * ((j + 1) * ((j + 1) - M))
    OBVIOUS
  <2>2. RS(p, j) = j * C + W * (j * (j - M))
    BY <1>0, <2>1
  <2>3. RS(p, j + 1) = RS(p, j) + p[j] /\ p[j] = C + W * Out(j)
    <3>1. j \in 0 .. M - 1
      BY <1>0, <2>1
    <3>2. QED
      BY <1>6, <3>1, RunningSumIs
  <2>4. (j + 1) * ((j + 1) - M) = j * (j - M) + Out(j)
    BY <1>0 DEF Out
  <2>5. j * (j - M) \in Int /\ Out(j) \in Int /\ j * C \in Int
    BY <1>0, <1>1 DEF Out
  <2> DEFINE x == j * (j - M)
             z == Out(j)
             y == (j + 1) * ((j + 1) - M)
  <2>6. (j + 1) * C = j * C + C
    BY <1>1
  <2>7. RS(p, j + 1) = (j * C + W * x) + (C + W * z) /\ y = x + z /\ x \in Int /\ z \in Int
    BY <2>2, <2>3, <2>4, <2>5
  <2> HIDE DEF x, y, z
  <2>8. W * y = W * x + W * z /\ W * x \in Int /\ W * z \in Int
    BY <1>1, <2>7
  <2>9. RS(p, j + 1) = (j + 1) * C + W * y
    BY <1>1, <2>5, <2>6, <2>7, <2>8
  <2>10. QED
    BY <2>9 DEF y
<1>9. T = Nat
  <2>1. T \subseteq Nat
    OBVIOUS
  <2> HIDE DEF T
  <2>2. QED
    BY <1>7, <1>8, <2>1, AllNumbersIn
<1>10. RS(p, M) = M * C
  <2>1. RS(p, M) = M * C + W * (M * (M - M))
    <3>1. M \in T /\ M <= M
      BY <1>0, <1>9
    <3>2. QED
      BY <3>1
  <2>2. W * (M * (M - M)) = 0 /\ M * C \in Int
    BY <1>0, <1>1
  <2>3. QED
    BY <2>1, <2>2
<1>11. QED
  BY <1>1, <1>6, <1>10 DEF C, W, p

(* The centre falls with complexity, and the heads spread.                    *)
LEMMA CentersFall ==
  ASSUME NEW c \in 0 .. 19
  PROVE  /\ Fits!Center(c) \in Int /\ Fits!Center(c + 1) \in Int
         /\ Fits!Center(c + 1) <= Fits!Center(c)
         /\ Width(c) \in Nat /\ Width(c + 1) \in Nat /\ Width(c) < Width(c + 1)
         /\ c \in 0 .. 20 /\ c + 1 \in 0 .. 20
BY DEF Fits!Center, Fits!Clamp, Width

(* A sum whose first terms are none positive, and whose others are not when   *)
(* the first of them is taken with the last, the second with the one before   *)
(* the last, and so on.                                                       *)
LEMMA SumOfReflections ==
  ASSUME NEW f, NEW n \in Nat, NEW k \in 0 .. n, \A j \in 0 .. n - 1 : f[j] \in Int,
         \A j \in 0 .. k - 1 : f[j] <= 0,
         \A j \in k .. n - 1 : f[j] + f[(n - 1 + k) - j] <= 0
  PROVE  RS(f, n) <= 0
<1>0. \A j \in 0 .. n : RS(f, j) \in Int
  BY RunningSumType
<1>1. RS(f, k) <= 0
  <2> DEFINE T == {j \in Nat : j <= k => RS(f, j) <= 0}
  <2>1. 0 \in T
    BY RunningSumIs
  <2>2. ASSUME NEW j \in T PROVE j + 1 \in T
    <3>1. SUFFICES ASSUME j + 1 <= k PROVE RS(f, j + 1) <= 0
      OBVIOUS
    <3>2. j \in 0 .. k - 1 /\ j \in 0 .. n /\ j \in 0 .. n - 1
      BY <3>1
    <3>3. RS(f, j + 1) = RS(f, j) + f[j]
      BY RunningSumIs
    <3>4. RS(f, j) \in Int /\ f[j] \in Int /\ f[j] <= 0 /\ RS(f, j) <= 0
      BY <1>0, <3>1, <3>2
    <3>5. QED
      BY <3>3, <3>4
  <2>3. T = Nat
    <3>1. T \subseteq Nat
      OBVIOUS
    <3> HIDE DEF T
    <3>2. QED
      BY <2>1, <2>2, <3>1, AllNumbersIn
  <2>4. QED
    BY <2>3
<1> DEFINE T == {m \in Nat : m <= n - k =>
                   (RS(f, k + m) - RS(f, k)) + (RS(f, n) - RS(f, n - m)) <= 0}
<1>2. 0 \in T
  <2>1. k \in 0 .. n /\ n \in 0 .. n /\ k + 0 = k /\ n - 0 = n
    OBVIOUS
  <2>2. RS(f, k) \in Int /\ RS(f, n) \in Int
    BY <1>0, <2>1
  <2>3. QED
    BY <2>1, <2>2
<1>3. ASSUME NEW m \in T PROVE m + 1 \in T
  <2>1. SUFFICES ASSUME m + 1 <= n - k
                 PROVE  (RS(f, k + (m + 1)) - RS(f, k)) + (RS(f, n) - RS(f, n - (m + 1))) <= 0
    OBVIOUS
  <2> DEFINE a == k + m
             z == n - (m + 1)
  <2>2. /\ a \in k .. n - 1 /\ (n - 1 + k) - a = z /\ z \in 0 .. n - 1 /\ a \in 0 .. n - 1
        /\ k + (m + 1) = a + 1 /\ n - m = z + 1
        /\ a \in 0 .. n /\ z \in 0 .. n /\ k \in 0 .. n /\ n \in 0 .. n
    BY <2>1
  <2>3. (RS(f, a) - RS(f, k)) + (RS(f, n) - RS(f, z + 1)) <= 0
    BY <2>1, <2>2
  <2> HIDE DEF a, z
  <2>4. RS(f, a + 1) = RS(f, a) + f[a] /\ RS(f, z + 1) = RS(f, z) + f[z]
    BY <2>2, RunningSumIs
  <2>5. f[a] + f[z] <= 0 /\ f[a] \in Int /\ f[z] \in Int
    BY <2>2
  <2>6. RS(f, a) \in Int /\ RS(f, z) \in Int /\ RS(f, k) \in Int /\ RS(f, n) \in Int
    BY <1>0, <2>2
  <2>7. (RS(f, a + 1) - RS(f, k)) + (RS(f, n) - RS(f, z)) <= 0
    BY <2>3, <2>4, <2>5, <2>6
  <2>8. QED
    BY <2>2, <2>7 DEF z
<1>4. T = Nat
  <2>1. T \subseteq Nat
    OBVIOUS
  <2> HIDE DEF T
  <2>2. QED
    BY <1>2, <1>3, <2>1, AllNumbersIn
<1>5. /\ n - k \in Nat /\ n - k <= n - k /\ k + (n - k) = n /\ n - (n - k) = k
      /\ k \in 0 .. n /\ n \in 0 .. n
  OBVIOUS
<1>6. (RS(f, n) - RS(f, k)) + (RS(f, n) - RS(f, k)) <= 0
  <2>1. n - k \in T
    BY <1>4, <1>5
  <2>2. QED
    BY <1>5, <2>1
<1>7. RS(f, n) \in Int /\ RS(f, k) \in Int
  BY <1>0, <1>5
<1>8. QED
  BY <1>1, <1>6, <1>7

(* The sum of differences is the difference of the sums. *)
LEMMA SumOfDifferences ==
  ASSUME NEW p, NEW q, NEW n \in Nat, \A j \in 0 .. n - 1 : p[j] \in Int /\ q[j] \in Int
  PROVE  RS([j \in 0 .. n - 1 |-> q[j] - p[j]], n) = RS(q, n) - RS(p, n)
<1> DEFINE d == [j \in 0 .. n - 1 |-> q[j] - p[j]]
           T == {j \in Nat : j <= n => RS(d, j) = RS(q, j) - RS(p, j)}
<1>0. \A j \in 0 .. n - 1 : d[j] = q[j] - p[j]
  OBVIOUS
<1> HIDE DEF d
<1>1. 0 \in T
  BY RunningSumIs
<1>2. ASSUME NEW j \in T PROVE j + 1 \in T
  <2>1. SUFFICES ASSUME j + 1 <= n PROVE RS(d, j + 1) = RS(q, j + 1) - RS(p, j + 1)
    OBVIOUS
  <2>2. j \in 0 .. n - 1 /\ j \in 0 .. n
    BY <2>1
  <2>3. /\ RS(d, j + 1) = RS(d, j) + d[j] /\ RS(p, j + 1) = RS(p, j) + p[j]
        /\ RS(q, j + 1) = RS(q, j) + q[j]
    BY RunningSumIs
  <2>4. d[j] = q[j] - p[j] /\ p[j] \in Int /\ q[j] \in Int /\ RS(d, j) = RS(q, j) - RS(p, j)
    BY <1>0, <2>1, <2>2
  <2>5. RS(p, j) \in Int /\ RS(q, j) \in Int
    <3>1. (\A m \in 0 .. n - 1 : p[m] \in Int) /\ (\A m \in 0 .. n - 1 : q[m] \in Int)
      OBVIOUS
    <3>2. (\A m \in 0 .. n : RS(p, m) \in Int) /\ (\A m \in 0 .. n : RS(q, m) \in Int)
      BY <3>1, RunningSumType
    <3>3. QED
      BY <2>2, <3>2
  <2>6. QED
    BY <2>3, <2>4, <2>5
<1>3. T = Nat
  <2>1. T \subseteq Nat
    OBVIOUS
  <2> HIDE DEF T
  <2>2. QED
    BY <1>1, <1>2, <2>1, AllNumbersIn
<1>4. QED
  BY <1>3 DEF d

(* Every head swings about one point as complexity grows, the head that would *)
(* be eight half-steps above the middle.  Those below it fall, and of two as  *)
(* far above it as below the lower falls by no less than the upper rises.     *)
Swing(c, t) == Fits!Clamp(40, 3960, 2720 + Width(c) * t)

LEMMA HeadsSwing ==
  ASSUME NEW c \in 0 .. 20, NEW j \in 0 .. M - 1
  PROVE  Fits!HeadOf(c, j) = Swing(c, Out(j) - 8)
<1>0. M \in Nat
  BY FitsAssumption DEF Fits!LatentModelAssumption
<1> DEFINE x == Out(j)
<1>1. x \in Int
  BY <1>0 DEF Out
<1>2. Fits!Center(c) = 2400 - 80 * c
  BY DEF Fits!Center, Fits!Clamp
<1>3. Fits!HeadOf(c, j) = Fits!Clamp(40, 3960, (2400 - 80 * c) + (40 + 10 * c) * x)
  BY <1>2 DEF Fits!HeadOf, Out
<1> HIDE DEF x
<1>4. (40 + 10 * c) * x = (40 + 10 * c) * (x - 8) + 320 + 80 * c
  BY <1>1
<1>5. (40 + 10 * c) * (x - 8) \in Int /\ (40 + 10 * c) * x \in Int
  BY <1>1
<1>6. (2400 - 80 * c) + (40 + 10 * c) * x = 2720 + (40 + 10 * c) * (x - 8)
  BY <1>4, <1>5
<1>7. QED
  BY <1>3, <1>6 DEF Swing, Width, x

LEMMA SwingsFall ==
  ASSUME NEW c \in 0 .. 19, NEW t \in Int
  PROVE  /\ Swing(c, t) \in Int /\ Swing(c + 1, t) \in Int
         /\ t <= 0 => Swing(c + 1, t) <= Swing(c, t)
         /\ Swing(c + 1, t) + Swing(c + 1, -t) <= Swing(c, t) + Swing(c, -t)
<1> DEFINE u == Width(c) * t
           v == Width(c + 1) * t
<1>1. Width(c) \in Nat /\ Width(c + 1) = Width(c) + 10
  BY DEF Width
<1>2. u \in Int /\ v = u + 10 * t /\ Width(c) * (-t) = -u /\ Width(c + 1) * (-t) = -v
  BY <1>1
<1>3. (t >= 0 => u >= 0) /\ (t <= 0 => u <= 0)
  <2>1. Width(c) * 0 = 0
    BY <1>1
  <2>2. QED
    BY <1>1, <2>1, TimesMonotone
<1>4. /\ Swing(c, t) = Fits!Clamp(40, 3960, 2720 + u)
      /\ Swing(c + 1, t) = Fits!Clamp(40, 3960, 2720 + v)
      /\ Swing(c, -t) = Fits!Clamp(40, 3960, 2720 + (-u))
      /\ Swing(c + 1, -t) = Fits!Clamp(40, 3960, 2720 + (-v))
  BY <1>2 DEF Swing
<1> HIDE DEF u, v
<1>5. QED
  BY <1>2, <1>3, <1>4 DEF Fits!Clamp

(* However many heads there are and whichever are cut off, the more complex   *)
(* change is not likelier to pass.                                            *)
LEMMA HeadsFall ==
  ASSUME NEW c \in 0 .. 19
  PROVE  RS(Fits!Heads(c + 1), M) <= RS(Fits!Heads(c), M)
<1> DEFINE p == Fits!Heads(c)
           q == Fits!Heads(c + 1)
           d == [j \in 0 .. M - 1 |-> q[j] - p[j]]
           k == IF M <= 8 THEN M ELSE 8
<1>0. M \in Nat /\ k \in 0 .. M
  BY FitsAssumption DEF Fits!LatentModelAssumption
<1>1. \A j \in 0 .. M - 1 : Out(j) - 8 \in Int /\ d[j] = q[j] - p[j]
  BY <1>0 DEF Out
<1>2. \A j \in 0 .. M - 1 : p[j] = Swing(c, Out(j) - 8) /\ q[j] = Swing(c + 1, Out(j) - 8)
  <2>1. c \in 0 .. 20 /\ c + 1 \in 0 .. 20
    OBVIOUS
  <2>2. \A j \in 0 .. M - 1 : p[j] = Fits!HeadOf(c, j) /\ q[j] = Fits!HeadOf(c + 1, j)
    BY DEF Fits!Heads
  <2>3. QED
    BY <2>1, <2>2, HeadsSwing
<1>3. \A j \in 0 .. M - 1 : p[j] \in Int /\ q[j] \in Int
  BY <1>1, <1>2, SwingsFall
<1>4. RS(d, M) = RS(q, M) - RS(p, M)
  <2> HIDE DEF p, q
  <2>1. QED
    BY <1>0, <1>3, SumOfDifferences
<1> HIDE DEF p, q, d
<1>5. \A j \in 0 .. M - 1 : d[j] \in Int
  BY <1>1, <1>3
<1>6. ASSUME NEW j \in 0 .. k - 1 PROVE d[j] <= 0
  <2>1. j \in 0 .. M - 1 /\ Out(j) - 8 <= 0
    BY <1>0 DEF Out
  <2>2. q[j] <= p[j]
    BY <1>1, <1>2, <2>1, SwingsFall
  <2>3. QED
    BY <1>1, <1>3, <2>1, <2>2
<1>7. ASSUME NEW j \in k .. M - 1 PROVE d[j] + d[(M - 1 + k) - j] <= 0
  <2> DEFINE m == (M - 1 + k) - j
  <2>1. k = 8 /\ j \in 0 .. M - 1 /\ m \in 0 .. M - 1
    BY <1>0
  <2>2. Out(m) - 8 = -(Out(j) - 8)
    BY <1>0, <2>1 DEF Out
  <2> HIDE DEF m, k
  <2>3. q[j] + q[m] <= p[j] + p[m]
    BY <1>1, <1>2, <2>1, <2>2, SwingsFall
  <2>4. d[j] + d[m] <= 0
    BY <1>1, <1>3, <2>1, <2>3
  <2>5. QED
    BY <2>4 DEF m
<1>8. RS(d, M) <= 0
  <2> HIDE DEF k
  <2>1. QED
    BY <1>0, <1>5, <1>6, <1>7, SumOfReflections
<1>9. RS(p, M) \in Int /\ RS(q, M) \in Int
  <2>1. (\A j \in 0 .. M - 1 : p[j] \in Int) /\ (\A j \in 0 .. M - 1 : q[j] \in Int) /\ M \in 0 .. M
    BY <1>0, <1>3
  <2>2. QED
    BY <1>0, <2>1, RunningSumType
<1>10. QED
  BY <1>4, <1>8, <1>9 DEF p, q

(* The more complex change makes heads that are not cut off differ more.      *)
LEMMA HeadsSpread ==
  ASSUME NEW c \in 0 .. 19, M > 1, Fits!Uncut(c), Fits!Uncut(c + 1)
  PROVE  Fits!Epistemic(Fits!Heads(c)) < Fits!Epistemic(Fits!Heads(c + 1))
<1> DEFINE p == Fits!Heads(c)
           q == Fits!Heads(c + 1)
           C == Fits!Center(c)
           D == Fits!Center(c + 1)
           W == Width(c)
           V == Width(c + 1)
           f == Fits!Squares(p, RS(p, M))
           h == Fits!Squares(q, RS(q, M))
<1>0. M \in Nat /\ M > 1
  BY FitsAssumption DEF Fits!LatentModelAssumption
<1>1. C \in Int /\ D \in Int /\ W \in Nat /\ V \in Nat /\ W < V
  BY CentersFall
<1>2. /\ \A j \in 0 .. M - 1 : p[j] = C + W * Out(j) /\ q[j] = D + V * Out(j)
      /\ RS(p, M) = M * C /\ RS(q, M) = M * D
  BY CentersFall, UncutHeadsAre
<1>3. DOMAIN p = 0 .. M - 1 /\ DOMAIN q = 0 .. M - 1
  BY DEF Fits!Heads
<1> HIDE DEF p, q, C, D, W, V
<1>4. \A j \in 0 .. M - 1 : /\ f[j] = (M * p[j] - RS(p, M)) * (M * p[j] - RS(p, M))
                            /\ h[j] = (M * q[j] - RS(q, M)) * (M * q[j] - RS(q, M))
  BY <1>3 DEF Fits!Squares
<1> HIDE DEF f, h
<1>5. ASSUME NEW j \in 0 .. M - 1
      PROVE  /\ f[j] \in Int /\ h[j] \in Int /\ f[j] <= h[j]
             /\ j = 0 => f[j] < h[j]
  <2> DEFINE d == Out(j)
             r == (M * d) * (M * d)
  <2>1. d \in Int /\ (j = 0 => d # 0)
    BY <1>0 DEF Out
  <2>2. M * p[j] - RS(p, M) = M * (W * d) /\ M * q[j] - RS(q, M) = M * (V * d)
    <3>1. p[j] = C + W * d /\ q[j] = D + V * d /\ RS(p, M) = M * C /\ RS(q, M) = M * D
      BY <1>2
    <3> HIDE DEF d
    <3>2. /\ M * (C + W * d) - M * C = M * (W * d)
          /\ M * (D + V * d) - M * D = M * (V * d)
      BY <1>0, <1>1, <2>1
    <3>3. QED
      BY <3>1, <3>2
  <2> HIDE DEF d
  <2>3. f[j] = r * (W * W) /\ h[j] = r * (V * V)
    <3>1. f[j] = (M * (W * d)) * (M * (W * d)) /\ h[j] = (M * (V * d)) * (M * (V * d))
      BY <1>4, <2>2
    <3>2. /\ (M * (W * d)) * (M * (W * d)) = r * (W * W)
          /\ (M * (V * d)) * (M * (V * d)) = r * (V * V)
      BY <1>0, <1>1, <2>1
    <3>3. QED
      BY <3>1, <3>2
  <2>4. r \in Nat /\ (j = 0 => r > 0)
    <3> DEFINE x == M * d
    <3>1. x \in Int /\ (j = 0 => x # 0)
      BY <1>0, <2>1
    <3>2. r = x * x
      OBVIOUS
    <3> HIDE DEF x, r
    <3>3. QED
      BY <3>1, <3>2
  <2>5. W * W < V * V /\ W * W \in Nat /\ V * V \in Nat
    <3>1. W * W <= V * W /\ V * W \in Int /\ W * W \in Int
      <4>1. W * W <= W * V /\ W * V = V * W
        BY <1>1, TimesMonotone
      <4>2. QED
        BY <1>1, <4>1
    <3>2. V * V = V * W + V * (V - W)
      BY <1>1
    <3>3. V * (V - W) > 0 /\ V * (V - W) \in Int
      BY <1>1
    <3>4. W * W \in Nat /\ V * V \in Nat
      BY <1>1
    <3>5. QED
      BY <3>1, <3>2, <3>3, <3>4
  <2> HIDE DEF r
  <2> DEFINE w2 == W * W
             v2 == V * V
  <2>6. f[j] = r * w2 /\ h[j] = r * v2 /\ w2 < v2 /\ w2 \in Nat /\ v2 \in Nat
    BY <2>3, <2>5
  <2> HIDE DEF w2, v2
  <2>7. r * v2 = r * w2 + r * (v2 - w2) /\ r * w2 \in Int /\ r * v2 \in Int
    BY <2>4, <2>6
  <2>8. r * (v2 - w2) \in Nat /\ (r > 0 => r * (v2 - w2) > 0)
    <3>1. v2 - w2 \in Nat /\ v2 - w2 > 0
      BY <2>6
    <3>2. QED
      BY <2>4, <3>1
  <2>9. QED
    BY <2>4, <2>6, <2>7, <2>8
<1>6. RS(f, M) < RS(h, M)
  <2>1. /\ \A j \in 0 .. M - 1 : f[j] \in Int /\ h[j] \in Int
        /\ \A j \in 0 .. M - 1 : f[j] <= h[j]
        /\ M > 0 /\ f[0] < h[0]
    BY <1>0, <1>5
  <2>2. QED
    BY <1>0, <2>1, RunningSumOrder
<1>7. QED
  BY <1>6 DEF f, h, p, q, RS, Fits!Epistemic, Fits!Sum, Fits!OverHeads

(* Whichever ensemble answers, it is honest.                                  *)
LEMMA AnswersAre == Fits!AnswersAreHonest
<1>0. M \in Nat \ {0} /\ Probes \subseteq Int
  BY FitsAssumption DEF Fits!LatentModelAssumption
<1>1. ASSUME NEW p \in Fits!Spoken PROVE Fits!UncertaintySplits(p)
  <2>1. p \in [0 .. M - 1 -> Int]
    <3>1. ASSUME NEW c \in 0 .. 20 PROVE Fits!Heads(c) \in [0 .. M - 1 -> Int]
      <4>1. ASSUME NEW j \in 0 .. M - 1 PROVE Fits!HeadOf(c, j) \in Int
        <5> DEFINE x == Fits!Center(c) + (40 + 10 * c) * (2 * j - (M - 1))
        <5>1. Fits!Center(c) \in Int
          BY DEF Fits!Center, Fits!Clamp
        <5>2. (40 + 10 * c) * (2 * j - (M - 1)) \in Int
          BY <1>0
        <5>3. x \in Int
          BY <5>1, <5>2
        <5> HIDE DEF x
        <5>4. Fits!Clamp(40, 3960, x) \in Int
          BY <5>3 DEF Fits!Clamp
        <5>5. QED
          BY <5>4 DEF x, Fits!HeadOf
      <4>2. QED
        BY <4>1 DEF Fits!Heads
    <3>2. CASE server = "heuristic"
      BY <1>1, <3>1, <3>2 DEF Fits!Spoken
    <3>3. CASE server # "heuristic"
      BY <1>0, <1>1, <3>3 DEF Fits!Spoken
    <3>4. QED
      BY <3>2, <3>3
  <2>2. QED
    BY <2>1, VarianceSplits
<1>2. Fits!SimplerIsSafer
  <2>1. SUFFICES ASSUME NEW c \in 0 .. 19
        PROVE  /\ Fits!Sum(Fits!Heads(c + 1)) <= Fits!Sum(Fits!Heads(c))
               /\ Fits!RLong(c) <= Fits!RLong(c + 1)
               /\ M > 1 /\ Fits!Uncut(c) /\ Fits!Uncut(c + 1) =>
                    Fits!Epistemic(Fits!Heads(c)) < Fits!Epistemic(Fits!Heads(c + 1))
    BY DEF Fits!SimplerIsSafer
  <2>2. Fits!Sum(Fits!Heads(c + 1)) <= Fits!Sum(Fits!Heads(c))
    BY HeadsFall DEF RS, Fits!Sum, Fits!OverHeads
  <2>3. Fits!RLong(c) <= Fits!RLong(c + 1)
    BY DEF Fits!RLong, Fits!Clamp, Fits!One
  <2>4. QED
    BY <2>2, <2>3, HeadsSpread
<1>3. QED
  BY <1>1, <1>2 DEF Fits!AnswersAreHonest

(* The nodes of a later row come after those of an earlier one.               *)
LEMMA RowsFollow ==
  ASSUME NEW es \in Seq(Fits!Examples)
  PROVE  \A j, n \in 1 .. Len(es) : j < n =>
           /\ Fits!Offset(es, j) \in Int /\ Fits!Offset(es, n) \in Int
           /\ Fits!Offset(es, j) + Fits!BlockSize(es[j]) <= Fits!Offset(es, n)
<1> DEFINE N == Len(es)
           f == [j \in 0 .. N - 1 |-> Fits!BlockSize(es[j + 1])]
<1>0. N \in Nat /\ \A j \in 1 .. N : es[j] \in Fits!Examples
  BY ElementsOf
<1>1. \A j \in 1 .. N : Fits!BlockSize(es[j]) \in Nat
  BY <1>0 DEF Fits!BlockSize, Fits!Examples
<1>2. \A j \in 0 .. N - 1 : f[j] = Fits!BlockSize(es[j + 1]) /\ f[j] \in Nat /\ f[j] \in Int
  <2>1. ASSUME NEW j \in 0 .. N - 1 PROVE j + 1 \in 1 .. N
    BY <1>0
  <2>2. QED
    BY <1>1, <2>1
<1>3. \A j : Fits!Offset(es, j) = RS(f, j - 1)
  BY DEF Fits!Offset, RS
<1> HIDE DEF f, N
<1>4. \A j \in 0 .. N : RS(f, j) \in Int
  BY <1>0, <1>2, RunningSumType
<1>5. ASSUME NEW j \in 1 .. N
      PROVE  \A n \in Nat : n > 0 /\ j + n <= N => RS(f, j - 1) + f[j - 1] <= RS(f, (j - 1) + n)
  <2> DEFINE T == {n \in Nat : n > 0 /\ j + n <= N =>
                     RS(f, j - 1) + f[j - 1] <= RS(f, (j - 1) + n)}
  <2>1. 0 \in T
    OBVIOUS
  <2>2. ASSUME NEW n \in T PROVE n + 1 \in T
    <3>1. SUFFICES ASSUME j + (n + 1) <= N
                   PROVE  RS(f, j - 1) + f[j - 1] <= RS(f, (j - 1) + (n + 1))
      OBVIOUS
    <3> DEFINE m == (j - 1) + n
    <3>2. m \in Nat /\ m \in 0 .. N - 1 /\ m \in 0 .. N /\ j - 1 \in 0 .. N /\ j - 1 \in 0 .. N - 1
          /\ (j - 1) + (n + 1) = m + 1
      BY <1>0, <3>1
    <3>3. RS(f, m + 1) = RS(f, m) + f[m] /\ RS(f, m) \in Int /\ f[m] \in Nat
      <4> HIDE DEF m
      <4>1. QED
        BY <1>2, <1>4, <3>2, RunningSumIs
    <3>4. RS(f, j - 1) \in Int /\ f[j - 1] \in Nat
      BY <1>2, <1>4, <3>2
    <3>5. CASE n = 0
      <4>1. m = j - 1
        BY <3>5
      <4> HIDE DEF m
      <4>2. QED
        BY <1>0, <3>2, <3>3, <3>4, <4>1
    <3>6. CASE n # 0
      <4>1. RS(f, j - 1) + f[j - 1] <= RS(f, m)
        BY <1>0, <3>1, <3>6
      <4> HIDE DEF m
      <4>2. QED
        BY <3>2, <3>3, <3>4, <4>1
    <3>7. QED
      BY <3>5, <3>6
  <2>3. T = Nat
    <3>1. T \subseteq Nat
      OBVIOUS
    <3> HIDE DEF T
    <3>2. QED
      BY <2>1, <2>2, <3>1, AllNumbersIn
  <2>4. QED
    BY <2>3
<1>6. ASSUME NEW j \in 1 .. N, NEW n \in 1 .. N, j < n
      PROVE  /\ Fits!Offset(es, j) \in Int /\ Fits!Offset(es, n) \in Int
             /\ Fits!Offset(es, j) + Fits!BlockSize(es[j]) <= Fits!Offset(es, n)
  <2> DEFINE d == n - j
  <2>1. d \in Nat /\ d > 0 /\ j + d <= N /\ (j - 1) + d = n - 1
        /\ j - 1 \in 0 .. N /\ n - 1 \in 0 .. N /\ j - 1 \in 0 .. N - 1 /\ (j - 1) + 1 = j
    BY <1>0, <1>6
  <2> HIDE DEF d
  <2>2. RS(f, j - 1) + f[j - 1] <= RS(f, n - 1)
    BY <1>5, <2>1
  <2>3. f[j - 1] = Fits!BlockSize(es[j])
    BY <1>2, <2>1
  <2>4. RS(f, j - 1) \in Int /\ RS(f, n - 1) \in Int
    BY <1>4, <2>1
  <2>5. QED
    BY <1>3, <2>2, <2>3, <2>4
<1>7. QED
  BY <1>6 DEF N

(* Each row has its own nodes of the batched graph. *)
LEMMA NodesAreApart ==
  ASSUME NEW es \in Seq(Fits!Examples), NEW v \in Fits!Batch(es), NEW w \in Fits!Batch(es),
         v[1] = w[1]
  PROVE  v = w
<1> DEFINE Nodes(j) == {<<Fits!Offset(es, j) + k, j>> :
                          k \in 0 .. (IF es[j].nodes = 0 THEN 0 ELSE es[j].nodes - 1)}
<1>0. DOMAIN es = 1 .. Len(es) /\ Len(es) \in Nat /\ \A j \in 1 .. Len(es) : es[j] \in Fits!Examples
  BY ElementsOf
<1>1. PICK j \in 1 .. Len(es), n \in 1 .. Len(es) : v \in Nodes(j) /\ w \in Nodes(n)
  BY <1>0 DEF Fits!Batch
<1>2. PICK k \in 0 .. (IF es[j].nodes = 0 THEN 0 ELSE es[j].nodes - 1) :
        v = <<Fits!Offset(es, j) + k, j>>
  BY <1>1
<1>3. PICK m \in 0 .. (IF es[n].nodes = 0 THEN 0 ELSE es[n].nodes - 1) :
        w = <<Fits!Offset(es, n) + m, n>>
  BY <1>1
<1>4. /\ es[j].nodes \in Nat /\ es[n].nodes \in Nat
  BY <1>0 DEF Fits!Examples
<1>5. /\ k \in Nat /\ k < Fits!BlockSize(es[j]) /\ Fits!BlockSize(es[j]) \in Nat
      /\ m \in Nat /\ m < Fits!BlockSize(es[n]) /\ Fits!BlockSize(es[n]) \in Nat
  BY <1>2, <1>3, <1>4 DEF Fits!BlockSize
<1>6. Fits!Offset(es, j) + k = Fits!Offset(es, n) + m
  BY <1>2, <1>3
<1>7. ~(j < n)
  <2>1. SUFFICES ASSUME j < n PROVE FALSE
    OBVIOUS
  <2>2. /\ Fits!Offset(es, j) \in Int /\ Fits!Offset(es, n) \in Int
        /\ Fits!Offset(es, j) + Fits!BlockSize(es[j]) <= Fits!Offset(es, n)
    BY <2>1, RowsFollow
  <2>3. QED
    BY <1>5, <1>6, <2>2
<1>8. ~(n < j)
  <2>1. SUFFICES ASSUME n < j PROVE FALSE
    OBVIOUS
  <2>2. /\ Fits!Offset(es, j) \in Int /\ Fits!Offset(es, n) \in Int
        /\ Fits!Offset(es, n) + Fits!BlockSize(es[n]) <= Fits!Offset(es, j)
    BY <2>1, RowsFollow
  <2>3. QED
    BY <1>5, <1>6, <2>2
<1>9. j = n
  BY <1>7, <1>8
<1>10. QED
  BY <1>2, <1>3, <1>6, <1>9

(* In any state of a training run the rows of the batched graph have nodes of *)
(* their own, and the uncertainties an ensemble answers with are those of its *)
(* heads: they split the variance of the outcome, and the heuristic's grow    *)
(* with the complexity of a change (load_or_build, _collate,                  *)
(* predict_from_features, _heuristic_predict).                                *)
THEOREM EnsemblesAreHonest == Fits!TrainingSpec => []EnsembleIsHonest
<1>1. ASSUME FilesInv PROVE EnsembleIsHonest
  <2>1. Fits!GraphsStayApart
    <3>1. SUFFICES ASSUME phase = "cv" PROVE
            \A a, b \in Fits!Batch(rows) : a[1] = b[1] => a = b
      BY DEF Fits!GraphsStayApart
    <3>2. rows \in Seq(Fits!Examples)
      BY <1>1 DEF FilesInv, FilesTyped
    <3>3. QED
      BY <3>2, NodesAreApart
  <2>2. QED
    BY <2>1, AnswersAre DEF EnsembleIsHonest, Fits!EnsembleIsHonest
<1>2. QED
  BY <1>1, TrainingStarts, FilesSteps, PTL DEF Fits!TrainingSpec

(***************************************************************************)
(* All of it.                                                              *)
(***************************************************************************)

(* History is mined, or rows are labelled, or the graph follows its           *)
(* repository, or a model is trained.                                         *)
LEMMA EitherIsEach == EitherSpec => Spec /\ Labels!Spec /\ Graph!Spec /\ Fits!TrainingSpec
<1>1. EitherInit => Init /\ Labels!Init /\ Graph!Init /\ Fits!TrainingInit
  BY DEF EitherInit
<1>2. [EitherNext]_<<job, vars, label_vars, graph_vars, fit_vars>> => [Next]_vars
  BY DEF EitherNext
<1>3. UNCHANGED label_vars => UNCHANGED Labels!vars
  BY DEF label_vars, Labels!vars
<1>4. [EitherNext]_<<job, vars, label_vars, graph_vars, fit_vars>> =>
        [Labels!Next]_(Labels!vars)
  BY <1>3 DEF EitherNext
<1>5. UNCHANGED graph_vars => UNCHANGED Graph!vars
  BY DEF graph_vars, Graph!vars
<1>6. [EitherNext]_<<job, vars, label_vars, graph_vars, fit_vars>> => [Graph!Next]_(Graph!vars)
  BY <1>5 DEF EitherNext
<1>7. UNCHANGED fit_vars => UNCHANGED <<Fits!train_vars, Fits!model>>
  BY DEF fit_vars, Fits!train_vars, Fits!model, Fits!files, Fits!given, Fits!validation,
         Fits!outcome
<1>8. [EitherNext]_<<job, vars, label_vars, graph_vars, fit_vars>> =>
        [Fits!TrainingNext]_<<Fits!train_vars, Fits!model>>
  BY <1>7 DEF EitherNext
<1>9. QED
  BY <1>1, <1>2, <1>4, <1>6, <1>8, PTL
     DEF EitherSpec, Spec, Labels!Spec, Graph!Spec, Fits!TrainingSpec

(* Whatever the system learns from: mined pairs are two of each confirmed     *)
(* commit, a teacher's labels are where they belong, the graph is that of the *)
(* repository and the same when training and when serving, no row is scored   *)
(* or judged by a model that has seen it, the files survive a run that is     *)
(* killed, and an ensemble's uncertainties are those of its heads             *)
(* (build_real_examples, attach_soft_labels, MemoryGraph, build_cpg_features, *)
(* cross_validate, stratified_split, write_jsonl, save_model,                 *)
(* predict_from_features).                                                    *)
THEOREM TrainingDataIsSound ==
  EitherSpec => [](/\ PairsAreSound /\ LabelsAreRight /\ GraphIsRight /\ TrainAndServeAgree
                   /\ OutOfFold /\ HeldOutIsUnseen /\ FilesSurvive /\ EnsembleIsHonest)
<1>1. QED
  BY EitherIsEach, MinedPairsAreSound, TeachersLabelsAreRight, MemoryGraphIsRight,
     TrainingSeesWhatServingSees, ScoresAreOutOfFold, HeldOutRowsAreUnseen,
     FilesOfRunsSurvive, EnsemblesAreHonest, PTL
=============================================================================
