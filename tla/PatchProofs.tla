---------------------------- MODULE PatchProofs ----------------------------
(***************************************************************************)
(* Proofs about the patch of a branch, for every set of files, patches,    *)
(* diffs, tests and inputs: what the oracle, the sandbox and the audit run *)
(* is what was screened, a patch is applied whole and to its own files     *)
(* alone (PatchApply); the lines the coverage signal scores are the ones   *)
(* the diff speaks of (CoverageSignal); a passing sandbox run was earned   *)
(* and leaves nothing behind (Sandbox); the verdict of the property oracle *)
(* is that of an ideal comparison (PropertyOracle).                        *)
(*                                                                         *)
(* A working copy is described by PatchInv: at each place of apply_patch   *)
(* it says what the copy is, as Result, the copy a patch makes of the      *)
(* pristine tree.  That Result does not depend on the order in which the   *)
(* files of a patch are listed is what makes the two copies, the screened  *)
(* one and the one that runs, the same.                                    *)
(***************************************************************************)
EXTENDS MCPatches, FiniteSetTheorems, FunctionTheorems, TLAPS

(***************************************************************************)
(* Trees.  A working copy is a pristine one of which some files have been  *)
(* turned into something else.                                             *)
(***************************************************************************)

(* A copy that nothing has touched. *)
LEMMA PristineIs ==
  ASSUME NEW v \in Version
  PROVE  /\ Pristine(v) \in Tree /\ Pristine(v).version = v
         /\ \A f \in File : Pristine(v).file[f] = "old"
BY DEF Pristine, Tree, State

(* Touching files of a copy leaves the others, and the version, alone. *)
LEMMA TouchIs ==
  ASSUME NEW t \in Tree, NEW F, NEW s \in State
  PROVE  /\ Touch(t, F, s) \in Tree /\ Touch(t, F, s).version = t.version
         /\ \A f \in File : Touch(t, F, s).file[f] = IF f \in F THEN s ELSE t.file[f]
BY DEF Touch, Tree

(* SetToSeq lists the whole of a finite set. *)
LEMMA SetToSeqLists ==
  ASSUME NEW S, IsFiniteSet(S)
  PROVE  ToSet(SetToSeq(S)) = S /\ SetToSeq(S) \in Seq(S)
<1> DEFINE n == Cardinality(S)
           h == SetToSeq(S)
<1>1. n \in Nat /\ ExistsBijection(1 .. n, S)
  BY FS_CardinalityType
<1>2. PICK g \in [1 .. n -> S] : IsInjective(g)
  BY <1>1 DEF ExistsBijection, Bijection, Injection
<1>3. h \in [1 .. n -> S] /\ IsInjective(h)
  BY <1>2 DEF SetToSeq
<1>4. h \in Injection(1 .. n, S)
  BY <1>3 DEF Injection
<1>5. IsFiniteSet(1 .. n) /\ Cardinality(1 .. n) = n
  BY <1>1, FS_Interval
<1>6. h \in Surjection(1 .. n, S)
  BY <1>4, <1>5, FS_Injection
<1> HIDE DEF h, n
<1>7. h \in Seq(S) /\ \A x \in S : \E i \in DOMAIN h : h[i] = x
  BY <1>1, <1>3, <1>6 DEF Surjection
<1>8. ToSet(h) = S
  BY <1>3, <1>7 DEF ToSet
<1>9. QED
  BY <1>7, <1>8 DEF h

(* What is checked against the sensitive paths is all that a patch names. *)
LEMMA TouchedIsAll ==
  ASSUME patch \in PatchType
  PROVE  ToSet(Touched) = patch.diff \cup ToSet(patch.rewrites)
<1>1. patch.diff \subseteq File /\ patch.rewrites \in Seq(File) /\ IsFiniteSet(patch.diff)
  <2>1. patch.diff \subseteq File /\ patch.rewrites \in Seq(File)
    BY DEF PatchType
  <2>2. QED
    BY <2>1, PatchApplyAssumption, FS_Subset DEF PatchApplyAssumption
<1> DEFINE d == SetToSeq(patch.diff)
           r == patch.rewrites
<1>2. d \in Seq(File) /\ ToSet(d) = patch.diff /\ r \in Seq(File)
  BY <1>1, SetToSeqLists
<1> HIDE DEF d, r
<1>3. ToSet(d \o r) = ToSet(d) \cup ToSet(r)
  <2>1. /\ DOMAIN (d \o r) = 1 .. Len(d) + Len(r) /\ Len(d) \in Nat /\ Len(r) \in Nat
        /\ DOMAIN d = 1 .. Len(d) /\ DOMAIN r = 1 .. Len(r)
        /\ \A i \in 1 .. Len(d) + Len(r) :
             (d \o r)[i] = IF i <= Len(d) THEN d[i] ELSE r[i - Len(d)]
    BY <1>2
  <2>2. ToSet(d \o r) \subseteq ToSet(d) \cup ToSet(r)
    <3>1. ASSUME NEW i \in 1 .. Len(d) + Len(r)
          PROVE  (d \o r)[i] \in ToSet(d) \cup ToSet(r)
      <4>1. CASE i <= Len(d)
        BY <2>1, <4>1 DEF ToSet
      <4>2. CASE i > Len(d)
        <5>1. i - Len(d) \in DOMAIN r /\ (d \o r)[i] = r[i - Len(d)]
          BY <2>1, <4>2
        <5>2. QED
          BY <5>1 DEF ToSet
      <4>3. QED
        BY <2>1, <4>1, <4>2
    <3>2. QED
      BY <2>1, <3>1 DEF ToSet
  <2>3. ToSet(d) \subseteq ToSet(d \o r)
    <3>1. \A i \in DOMAIN d : i \in DOMAIN (d \o r) /\ (d \o r)[i] = d[i]
      BY <2>1
    <3>2. QED
      BY <3>1 DEF ToSet
  <2>4. ToSet(r) \subseteq ToSet(d \o r)
    <3>1. ASSUME NEW i \in DOMAIN r
          PROVE  r[i] \in ToSet(d \o r)
      <4>1. Len(d) + i \in DOMAIN (d \o r) /\ (d \o r)[Len(d) + i] = r[i]
        BY <2>1
      <4>2. QED
        BY <4>1 DEF ToSet
    <3>2. QED
      BY <3>1 DEF ToSet
  <2>5. QED
    BY <2>2, <2>3, <2>4
<1>4. QED
  BY <1>2, <1>3 DEF Touched, d, r

(***************************************************************************)
(* What an application of patch p comes to, as a function of the version   *)
(* of the copy it starts from.                                             *)
(***************************************************************************)
Refused(p, v) == p.git[v] \in {"conflicts", "refused"}
OneFile(p)    == Cardinality(p.diff) = 1 /\ p.exists

(* Neither git nor diff-match-patch takes it: the rewrites are next. *)
FallsThrough(p, v) == Reach(p) # {} => Refused(p, v) /\ ~OneFile(p)

(* What the tiers before the rewrites leave, and the first k of these. *)
AfterGit(p, v) ==
  IF p.git[v] = "conflicts"
    THEN Touch(Touch(Pristine(v), Reach(p), "new"), InConflict(p), "markers")
    ELSE Pristine(v)
Written(p, v, k) == Touch(AfterGit(p, v), {p.rewrites[i] : i \in 1 .. k}, "rewritten")
Small(p, k) == \A i \in 1 .. k : p.rewrites[i] \notin p.big

(* It ends in mode m with tree t. *)
Result(p, unsafe, v, m, t) ==
  \/ unsafe /\ m = "unsafe" /\ t = Pristine(v)
  \/ /\ ~unsafe /\ Reach(p) # {} /\ ~Refused(p, v)
     /\ m = (IF p.git[v] = "exact" THEN "git_apply" ELSE "git_3way_apply")
     /\ t = Touch(Pristine(v), Reach(p), "new")
  \/ /\ ~unsafe /\ Reach(p) # {} /\ Refused(p, v) /\ OneFile(p)
     /\ m = "fuzzy_apply"
     /\ t = Touch(AfterGit(p, v), p.diff, IF p.spans THEN "new" ELSE "hunks")
  \/ /\ ~unsafe /\ FallsThrough(p, v) /\ Small(p, Len(p.rewrites))
     /\ m = (IF p.rewrites = <<>> THEN "failed" ELSE "full_rewrite")
     /\ t = Written(p, v, Len(p.rewrites))
  \/ /\ ~unsafe /\ FallsThrough(p, v) /\ m = "unsafe"
     /\ \E k \in 0 .. Len(p.rewrites) - 1 :
          Small(p, k) /\ p.rewrites[k + 1] \in p.big /\ t = Written(p, v, k)

(* The rewrite at which it stops is the first that is too big. *)
LEMMA FirstBig ==
  ASSUME NEW p \in PatchType, NEW k \in 0 .. Len(p.rewrites) - 1,
         Small(p, k), p.rewrites[k + 1] \in p.big
  PROVE  /\ ~Small(p, Len(p.rewrites))
         /\ \A j \in 0 .. Len(p.rewrites) - 1 :
              Small(p, j) /\ p.rewrites[j + 1] \in p.big => j = k
<1>1. Len(p.rewrites) \in Nat
  BY DEF PatchType
<1>2. k + 1 \in 1 .. Len(p.rewrites)
  BY <1>1
<1>3. ~Small(p, Len(p.rewrites))
  BY <1>2 DEF Small
<1>4. ASSUME NEW j \in 0 .. Len(p.rewrites) - 1, Small(p, j), p.rewrites[j + 1] \in p.big
      PROVE  j = k
  <2>1. j < k => j + 1 \in 1 .. k
    BY <1>1
  <2>2. k < j => k + 1 \in 1 .. j
    BY <1>1
  <2>3. QED
    BY <1>1, <1>4, <2>1, <2>2 DEF Small
<1>5. QED
  BY <1>3, <1>4

(* Applying a patch to a copy of one version is deterministic. *)
LEMMA ResultIsUnique ==
  ASSUME NEW p \in PatchType, NEW u \in BOOLEAN, NEW v, NEW m, NEW t, NEW n, NEW w,
         Result(p, u, v, m, t), Result(p, u, v, n, w)
  PROVE  m = n /\ t = w
<1>1. CASE u
  BY <1>1 DEF Result
<1>2. CASE ~u /\ Reach(p) # {} /\ ~Refused(p, v)
  BY <1>2 DEF Result, FallsThrough
<1>3. CASE ~u /\ Reach(p) # {} /\ Refused(p, v) /\ OneFile(p)
  BY <1>3 DEF Result, FallsThrough
<1>4. CASE ~u /\ FallsThrough(p, v)
  <2> DEFINE Stops(k) == /\ k \in 0 .. Len(p.rewrites) - 1
                         /\ Small(p, k) /\ p.rewrites[k + 1] \in p.big
  <2>1. CASE Small(p, Len(p.rewrites))
    <3>1. \A k : ~Stops(k)
      BY <2>1, FirstBig
    <3>2. QED
      BY <1>4, <2>1, <3>1 DEF Result, FallsThrough
  <2>2. CASE ~Small(p, Len(p.rewrites))
    <3>1. /\ m = "unsafe" /\ n = "unsafe"
          /\ \E k : Stops(k) /\ t = Written(p, v, k)
          /\ \E k : Stops(k) /\ w = Written(p, v, k)
      BY <1>4, <2>2 DEF Result, FallsThrough
    <3>2. \A j, k : Stops(j) /\ Stops(k) => j = k
      BY FirstBig
    <3> HIDE DEF Stops
    <3>3. QED
      BY <3>1, <3>2
  <2>3. QED
    BY <2>1, <2>2
<1>5. QED
  BY <1>1, <1>2, <1>3, <1>4 DEF FallsThrough

(* The rewrites that are written are rewrites of the patch. *)
LEMMA WrittenIs ==
  ASSUME NEW p \in PatchType, NEW v \in Version, NEW k \in 0 .. Len(p.rewrites)
  PROVE  /\ AfterGit(p, v) \in Tree /\ AfterGit(p, v).version = v
         /\ \A f \in File : AfterGit(p, v).file[f] # "old" => f \in Reach(p)
         /\ Written(p, v, k) \in Tree /\ Written(p, v, k).version = v
         /\ \A f \in File :
              /\ Written(p, v, k).file[f] # "old" => f \in Reach(p) \cup ToSet(p.rewrites)
              /\ k = Len(p.rewrites) /\ f \in ToSet(p.rewrites) =>
                   Written(p, v, k).file[f] = "rewritten"
<1> DEFINE done == {p.rewrites[i] : i \in 1 .. k}
<1>1. /\ p.rewrites \in Seq(File) /\ Len(p.rewrites) \in Nat
      /\ DOMAIN p.rewrites = 1 .. Len(p.rewrites)
  BY DEF PatchType
<1>2. done \subseteq ToSet(p.rewrites) /\ (k = Len(p.rewrites) => done = ToSet(p.rewrites))
  BY <1>1 DEF ToSet
<1>3. "markers" \in State /\ "rewritten" \in State /\ "new" \in State
  BY DEF State
<1> HIDE DEF done
<1>6. /\ AfterGit(p, v) \in Tree /\ AfterGit(p, v).version = v
      /\ \A f \in File : AfterGit(p, v).file[f] # "old" => f \in Reach(p)
  <2>1. /\ Touch(Pristine(v), Reach(p), "new") \in Tree
        /\ Touch(Pristine(v), Reach(p), "new").version = v
        /\ \A f \in File : Touch(Pristine(v), Reach(p), "new").file[f] =
                             IF f \in Reach(p) THEN "new" ELSE "old"
    BY <1>3, PristineIs, TouchIs
  <2>2. InConflict(p) \subseteq Reach(p)
    BY DEF InConflict, Reach
  <2>3. CASE p.git[v] = "conflicts"
    <3> DEFINE merged == Touch(Pristine(v), Reach(p), "new")
    <3>1. AfterGit(p, v) = Touch(merged, InConflict(p), "markers")
      BY <2>3 DEF AfterGit
    <3> HIDE DEF merged
    <3>2. /\ AfterGit(p, v) \in Tree /\ AfterGit(p, v).version = merged.version
          /\ \A f \in File : AfterGit(p, v).file[f] =
                               IF f \in InConflict(p) THEN "markers" ELSE merged.file[f]
      BY <1>3, <2>1, <3>1, TouchIs DEF merged
    <3>3. QED
      BY <2>1, <2>2, <3>2 DEF merged
  <2>4. CASE p.git[v] # "conflicts"
    BY <2>4, PristineIs DEF AfterGit
  <2>5. QED
    BY <2>3, <2>4
<1>7. Written(p, v, k) = Touch(AfterGit(p, v), done, "rewritten")
  BY DEF Written, done
<1>8. /\ Written(p, v, k) \in Tree /\ Written(p, v, k).version = v
      /\ \A f \in File : Written(p, v, k).file[f] =
                           IF f \in done THEN "rewritten" ELSE AfterGit(p, v).file[f]
  BY <1>3, <1>6, <1>7, TouchIs
<1>9. QED
  BY <1>2, <1>6, <1>8

(* What a result says of the files: it is whole, and it is contained. *)
Whole(p, m, t) ==
  /\ m \in {"git_apply", "git_3way_apply"} => \A f \in Reach(p) : t.file[f] = "new"
  /\ m = "fuzzy_apply" =>
       \E f \in p.diff : p.diff = {f} /\ t.file[f] = IF p.spans THEN "new" ELSE "hunks"
  /\ m = "full_rewrite" => \A f \in ToSet(p.rewrites) : t.file[f] = "rewritten"

Within(p, unsafe, t) ==
  \A f \in File : t.file[f] # "old" => ~unsafe /\ f \in Reach(p) \cup ToSet(p.rewrites)

(* Every result is. *)
LEMMA ResultIsContained ==
  ASSUME NEW p \in PatchType, NEW u \in BOOLEAN, NEW v \in Version, NEW m, NEW t,
         Result(p, u, v, m, t)
  PROVE  /\ t \in Tree /\ m \in Modes \cup {"unsafe", "failed"}
         /\ Whole(p, m, t) /\ Within(p, u, t)
<1>0. /\ Pristine(v) \in Tree /\ \A f \in File : Pristine(v).file[f] = "old"
      /\ p.diff \subseteq File /\ Reach(p) \subseteq File /\ p.diff \subseteq Reach(p)
      /\ Len(p.rewrites) \in Nat /\ ToSet(p.rewrites) \subseteq File
  BY PristineIs DEF PatchType, ToSet, Reach
<1>1. CASE u /\ m = "unsafe" /\ t = Pristine(v)
  BY <1>0, <1>1 DEF Whole, Within
<1>2. CASE /\ ~u /\ t = Touch(Pristine(v), Reach(p), "new")
           /\ m = (IF p.git[v] = "exact" THEN "git_apply" ELSE "git_3way_apply")
  <2>1. /\ t \in Tree
        /\ \A f \in File : t.file[f] = IF f \in Reach(p) THEN "new" ELSE "old"
    BY <1>0, <1>2, TouchIs DEF State
  <2>2. QED
    BY <1>0, <1>2, <2>1 DEF Whole, Within, Modes
<1>3. CASE /\ ~u /\ m = "fuzzy_apply" /\ OneFile(p)
           /\ t = Touch(AfterGit(p, v), p.diff, IF p.spans THEN "new" ELSE "hunks")
  <2>1. /\ AfterGit(p, v) \in Tree
        /\ \A f \in File : AfterGit(p, v).file[f] # "old" => f \in Reach(p)
    BY <1>0, WrittenIs
  <2>2. PICK s \in State : /\ t = Touch(AfterGit(p, v), p.diff, s)
                           /\ s = IF p.spans THEN "new" ELSE "hunks"
    BY <1>3 DEF State
  <2>3. /\ t \in Tree
        /\ \A f \in File : t.file[f] = IF f \in p.diff THEN s ELSE AfterGit(p, v).file[f]
    BY <2>1, <2>2, TouchIs
  <2>4. \E f \in p.diff : p.diff = {f}
    <3>1. IsFiniteSet(p.diff)
      BY <1>0, PatchApplyAssumption, FS_Subset DEF PatchApplyAssumption
    <3>2. QED
      BY <1>3, <3>1, FS_Singleton DEF OneFile
  <2>5. QED
    BY <1>0, <1>3, <2>1, <2>2, <2>3, <2>4 DEF Whole, Within, Modes
<1>4. CASE /\ ~u /\ m \in {"failed", "full_rewrite"} /\ t = Written(p, v, Len(p.rewrites))
  <2>1. /\ t \in Tree
        /\ \A f \in File :
             /\ t.file[f] # "old" => f \in Reach(p) \cup ToSet(p.rewrites)
             /\ f \in ToSet(p.rewrites) => t.file[f] = "rewritten"
    BY <1>0, <1>4, WrittenIs
  <2>2. QED
    BY <1>0, <1>4, <2>1 DEF Whole, Within, Modes
<1>5. CASE ~u /\ m = "unsafe" /\ \E k \in 0 .. Len(p.rewrites) - 1 : t = Written(p, v, k)
  <2>1. PICK k \in 0 .. Len(p.rewrites) : t = Written(p, v, k)
    BY <1>0, <1>5
  <2>2. t \in Tree /\ \A f \in File : t.file[f] # "old" => f \in Reach(p) \cup ToSet(p.rewrites)
    BY <2>1, WrittenIs
  <2>3. QED
    BY <1>5, <2>2 DEF Whole, Within
<1>6. QED
  BY <1>1, <1>2, <1>3, <1>4, <1>5 DEF Result

(***************************************************************************)
(* The invariant: copies are pristine, an application under way is at a    *)
(* point on the way to its result, and one that has ended has its result.  *)
(***************************************************************************)
Before == {"plan", "retain", "snapshot"}
VersionOf(x) == IF x = "audit" THEN retained.version ELSE snapshot.version

Copies ==
  /\ pc \notin {"plan", "retain"} => \E v \in Version : retained = Pristine(v)
  /\ pc \notin Before => \E v \in Version : snapshot = Pristine(v)
  /\ pc \in Before => /\ use = "screen" /\ tree = Pristine(0)
                      /\ \A x \in Use : mode[x] = "" /\ applied[x] = Pristine(0)

(* The rewrites before the k-th have been written, and the others are left. *)
Rewritten(p, v, t, l, k) ==
  /\ l = SubSeq(p.rewrites, k + 1, Len(p.rewrites))
  /\ k = 0 \/ k < Len(p.rewrites)
  /\ Small(p, k) /\ t = Written(p, v, k)

OnTheWay(p, v, phase, t, l) ==
  /\ phase \in {"git", "fuzzy"} => Reach(p) # {} /\ l = p.rewrites
  /\ phase = "git" => t = Pristine(v)
  /\ phase = "fuzzy" => Refused(p, v) /\ t = AfterGit(p, v)
  /\ phase = "rewrite" =>
       FallsThrough(p, v) /\ \E k \in 0 .. Len(p.rewrites) : Rewritten(p, v, t, l, k)

UnderWay ==
  pc \in {"git", "fuzzy", "rewrite"} =>
    ~Unsafe /\ OnTheWay(patch, VersionOf(use), pc, tree, left)

HasResult(p, unsafe, v, m, t) ==
  IF m = "" THEN t = Pristine(0) ELSE Result(p, unsafe, v, m, t)

Ended ==
  /\ \A x \in Use : HasResult(patch, Unsafe, VersionOf(x), mode[x], applied[x])
  /\ pc = "applied" => mode[use] # "" /\ applied[use] = tree
  /\ mode["screen"] = "" =>
       /\ use = "screen" /\ pc \in Before \cup {"start", "git", "fuzzy", "rewrite"}
       /\ \A x \in Use : mode[x] = ""

(* Only a branch whose screening left no markers in a Python file goes on. *)
ScreenedClean ==
  mode["screen"] \in Modes /\ \A f \in Python : applied["screen"].file[f] # "markers"

LiveIsClean ==
  /\ pc = "live" \/ use \in {"oracle", "run"} => ScreenedClean
  /\ mode["run"] # "" => use = "run"
  /\ use = "run" => pc \notin {"live", "pruned"}

PatchInv ==
  TypeOK /\ Copies /\ UnderWay /\ Ended /\ LiveIsClean /\ Within(patch, Unsafe, tree)

(***************************************************************************)
(* The steps of an application: each ends it with its result or brings it  *)
(* further on its way.                                                     *)
(***************************************************************************)
Applying == Start \/ GitApply \/ Fuzzy \/ Rewrite \/ NothingApplies

Advances ==
  /\ UNCHANGED <<repo, patch, use, retained, snapshot, routing>>
  /\ tree' \in Tree /\ left' \in Seq(File) /\ Within(patch, Unsafe, tree')
  /\ \/ /\ pc' = "applied"
        /\ \E m \in Modes \cup {"unsafe", "failed"} :
             /\ mode' = [mode EXCEPT ![use] = m]
             /\ applied' = [applied EXCEPT ![use] = tree']
             /\ Result(patch, Unsafe, VersionOf(use), m, tree')
     \/ /\ pc' \in {"git", "fuzzy", "rewrite"} /\ UNCHANGED <<mode, applied>>
        /\ ~Unsafe /\ OnTheWay(patch, VersionOf(use), pc', tree', left')

(* The copies an application may start from. *)
LEMMA CopiedIs ==
  ASSUME TypeOK, Copies, pc \notin Before
  PROVE  VersionOf(use) \in Version /\ Copied = Pristine(VersionOf(use))
<1>1. /\ \E v \in Version : retained = Pristine(v)
      /\ \E v \in Version : snapshot = Pristine(v)
  BY DEF Copies, Before
<1>2. QED
  BY <1>1, PristineIs DEF VersionOf, Copied

(* A tree that an application ends with is one it may end with. *)
LEMMA EndAdvances ==
  ASSUME PatchInv, pc \notin Before, NEW m,
         Result(patch, Unsafe, VersionOf(use), m, tree'), Ends(m), left' \in Seq(File),
         UNCHANGED <<repo, patch, use, retained, snapshot, routing>>
  PROVE  Advances
<1>1. patch \in PatchType /\ VersionOf(use) \in Version /\ Unsafe \in BOOLEAN
  BY CopiedIs DEF PatchInv, TypeOK, Unsafe
<1>2. /\ tree' \in Tree /\ m \in Modes \cup {"unsafe", "failed"}
      /\ Within(patch, Unsafe, tree')
  BY <1>1, ResultIsContained
<1>3. QED
  BY <1>2 DEF Advances, Ends

(* A tree on the way is one that the patch may leave. *)
LEMMA WayAdvances ==
  ASSUME PatchInv, pc \notin Before, ~Unsafe, NEW next \in {"git", "fuzzy", "rewrite"},
         OnTheWay(patch, VersionOf(use), next, tree', left'), StillApplying(next),
         left' \in Seq(File), UNCHANGED <<repo, patch, use, retained, snapshot, routing>>
  PROVE  Advances
<1> DEFINE v == VersionOf(use)
<1>1. patch \in PatchType /\ v \in Version /\ Len(patch.rewrites) \in Nat
  <2>1. patch \in PatchType /\ v \in Version
    BY CopiedIs DEF PatchInv, TypeOK
  <2>2. QED
    BY <2>1 DEF PatchType
<1> HIDE DEF v
<1>2. tree' \in Tree /\ Within(patch, Unsafe, tree')
  <2>1. CASE next = "git"
    <3>1. tree' = Pristine(v)
      BY <2>1 DEF OnTheWay, v
    <3>2. QED
      BY <1>1, <3>1, PristineIs DEF Within
  <2>2. CASE next = "fuzzy"
    <3>1. tree' = AfterGit(patch, v)
      BY <2>2 DEF OnTheWay, v
    <3>2. 0 \in 0 .. Len(patch.rewrites)
      BY <1>1
    <3>3. QED
      BY <1>1, <3>1, <3>2, WrittenIs DEF Within
  <2>3. CASE next = "rewrite"
    <3>1. PICK k \in 0 .. Len(patch.rewrites) : tree' = Written(patch, v, k)
      BY <2>3 DEF OnTheWay, Rewritten, v
    <3>2. QED
      BY <1>1, <3>1, WrittenIs DEF Within
  <2>4. QED
    BY <2>1, <2>2, <2>3
<1>3. QED
  BY <1>2 DEF Advances, StillApplying

(* No rewrites are written yet: the first thing after the earlier tiers. *)
LEMMA NoneWritten ==
  ASSUME NEW p \in PatchType, NEW v \in Version
  PROVE  /\ Written(p, v, 0) = AfterGit(p, v)
         /\ FallsThrough(p, v) => OnTheWay(p, v, "rewrite", AfterGit(p, v), p.rewrites)
<1>1. Len(p.rewrites) \in Nat /\ p.rewrites \in Seq(File)
  BY DEF PatchType
<1>2. 0 \in 0 .. Len(p.rewrites)
  BY <1>1
<1>3. AfterGit(p, v) \in Tree
  BY <1>2, WrittenIs
<1>4. {p.rewrites[i] : i \in 1 .. 0} = {}
  OBVIOUS
<1>5. Touch(AfterGit(p, v), {}, "rewritten") = AfterGit(p, v)
  BY <1>3 DEF Touch, Tree
<1>6. Written(p, v, 0) = AfterGit(p, v)
  BY <1>4, <1>5 DEF Written
<1>7. p.rewrites = SubSeq(p.rewrites, 0 + 1, Len(p.rewrites)) /\ Small(p, 0)
  BY <1>1 DEF Small
<1>8. Rewritten(p, v, AfterGit(p, v), p.rewrites, 0)
  BY <1>6, <1>7 DEF Rewritten
<1>9. QED
  BY <1>2, <1>6, <1>8 DEF OnTheWay

(* The next rewrite adds to those that are written. *)
LEMMA OneMoreWritten ==
  ASSUME NEW p \in PatchType, NEW v \in Version, NEW k \in 0 .. Len(p.rewrites) - 1
  PROVE  Written(p, v, k + 1) = Touch(Written(p, v, k), {p.rewrites[k + 1]}, "rewritten")
<1>1. Len(p.rewrites) \in Nat /\ k \in 0 .. Len(p.rewrites) /\ k \in Nat
  BY DEF PatchType
<1>2. AfterGit(p, v) \in Tree
  BY <1>1, WrittenIs
<1> DEFINE git  == AfterGit(p, v)
           done == {p.rewrites[i] : i \in 1 .. k}
           more == {p.rewrites[i] : i \in 1 .. k + 1}
<1>3. more = done \cup {p.rewrites[k + 1]}
  <2>1. 1 .. k + 1 = (1 .. k) \cup {k + 1}
    BY <1>1
  <2>2. QED
    BY <2>1
<1> HIDE DEF done, more, git
<1>4. Touch(git, more, "rewritten")
        = Touch(Touch(git, done, "rewritten"), {p.rewrites[k + 1]}, "rewritten")
  BY <1>2, <1>3 DEF Touch, Tree, git
<1>5. QED
  BY <1>4 DEF Written, git, done, more

(* Every step of an application advances it. *)
LEMMA ApplyingAdvances ==
  ASSUME PatchInv, Applying
  PROVE  Advances
<1> DEFINE v == VersionOf(use)
<1>1. /\ patch \in PatchType /\ patch.rewrites \in Seq(File) /\ left \in Seq(File)
      /\ Reach(patch) \subseteq File /\ patch.git \in [Version -> GitVerdict]
  BY DEF PatchInv, TypeOK, PatchType, Reach
<1>2. pc \notin Before
  BY DEF Applying, Start, GitApply, Fuzzy, Rewrite, NothingApplies, Before
<1>3. v \in Version /\ Copied = Pristine(v)
  BY <1>2, CopiedIs DEF PatchInv
<1>4. patch.git[v] \in GitVerdict
  BY <1>1, <1>3
<1>5. UNCHANGED <<repo, patch, use, retained, snapshot, routing>>
  <2>1. CASE GitApply
    <3>1. tree = Pristine(v)
      BY <2>1 DEF GitApply, PatchInv, UnderWay, OnTheWay
    <3>2. Git \in GitVerdict
      BY <1>3, <1>4, <3>1, PristineIs DEF Git, GitVerdict
    <3>3. UNCHANGED <<repo, patch, use, retained, routing>>
      BY <2>1 DEF GitApply
    <3>4. UNCHANGED snapshot
      BY <2>1, <3>2 DEF GitApply, GitVerdict, Work, OnACopy
    <3>5. QED
      BY <3>3, <3>4
  <2>2. CASE Start \/ Fuzzy \/ Rewrite \/ NothingApplies
    BY <2>2 DEF Start, Fuzzy, Rewrite, NothingApplies, Work, OnACopy
  <2>3. QED
    BY <2>1, <2>2 DEF Applying
<1>6. CASE Start
  <2>1. tree' = Pristine(v) /\ left' = patch.rewrites
    BY <1>3, <1>6 DEF Start, Work
  <2>2. CASE Unsafe
    <3>1. Ends("unsafe")
      BY <1>6, <2>2 DEF Start
    <3>2. Result(patch, Unsafe, v, "unsafe", tree')
      BY <2>1, <2>2 DEF Result
    <3>3. QED
      BY <1>1, <1>2, <1>5, <2>1, <3>1, <3>2, EndAdvances
  <2>3. CASE ~Unsafe /\ Reach(patch) # {}
    <3>1. StillApplying("git")
      BY <1>6, <2>3 DEF Start
    <3>2. OnTheWay(patch, v, "git", tree', left')
      BY <2>1, <2>3 DEF OnTheWay
    <3>3. QED
      BY <1>1, <1>2, <1>5, <2>1, <2>3, <3>1, <3>2, WayAdvances
  <2>4. CASE ~Unsafe /\ Reach(patch) = {}
    <3>1. StillApplying("rewrite")
      BY <1>6, <2>4 DEF Start
    <3>2. AfterGit(patch, v) = Pristine(v)
      <4>1. Reach(patch) = {} /\ InConflict(patch) = {}
        BY <2>4 DEF Reach, InConflict
      <4>2. \A t \in Tree : \A s : Touch(t, {}, s) = t
        BY DEF Touch, Tree
      <4>3. Pristine(v) \in Tree
        BY <1>3, PristineIs
      <4>4. QED
        BY <4>1, <4>2, <4>3 DEF AfterGit
    <3>3. OnTheWay(patch, v, "rewrite", tree', left')
      BY <1>1, <1>3, <2>1, <2>4, <3>2, NoneWritten DEF FallsThrough
    <3>4. QED
      BY <1>1, <1>2, <1>5, <2>1, <2>4, <3>1, <3>3, WayAdvances
  <2>5. QED
    BY <2>2, <2>3, <2>4
<1>7. CASE GitApply
  <2>1. ~Unsafe /\ Reach(patch) # {} /\ left = patch.rewrites /\ tree = Pristine(v)
    BY <1>7 DEF GitApply, PatchInv, UnderWay, OnTheWay
  <2>2. Git = patch.git[v] /\ left' = left
    BY <1>1, <1>3, <1>7, <2>1, PristineIs DEF Git, GitApply
  <2>3. CASE patch.git[v] \in {"exact", "merges"}
    <3>1. /\ tree' = Touch(tree, Reach(patch), "new")
          /\ Ends(IF patch.git[v] = "exact" THEN "git_apply" ELSE "git_3way_apply")
      BY <1>7, <2>2, <2>3 DEF GitApply, Work
    <3>2. Result(patch, Unsafe, v, IF patch.git[v] = "exact" THEN "git_apply"
                                   ELSE "git_3way_apply", tree')
      BY <2>1, <2>3, <3>1 DEF Result, Refused
    <3>3. QED
      BY <1>1, <1>2, <1>5, <2>2, <3>1, <3>2, EndAdvances
  <2>4. CASE patch.git[v] \in {"conflicts", "refused"}
    <3>1. tree' = AfterGit(patch, v) /\ StillApplying("fuzzy")
      <4>1. CASE patch.git[v] = "conflicts"
        BY <1>7, <2>1, <2>2, <4>1 DEF GitApply, Work, AfterGit
      <4>2. CASE patch.git[v] = "refused"
        <5>1. tree' = tree /\ StillApplying("fuzzy")
          BY <1>7, <2>2, <4>2 DEF GitApply, Work
        <5>3. AfterGit(patch, v) = Pristine(v)
          BY <4>2 DEF AfterGit
        <5>4. QED
          BY <2>1, <5>1, <5>3
      <4>3. QED
        BY <2>4, <4>1, <4>2
    <3>2. OnTheWay(patch, v, "fuzzy", tree', left')
      BY <2>1, <2>2, <2>4, <3>1 DEF OnTheWay, Refused
    <3>3. QED
      BY <1>1, <1>2, <1>5, <2>1, <2>2, <3>1, <3>2, WayAdvances
  <2>5. QED
    BY <1>4, <2>3, <2>4 DEF GitVerdict
<1>8. CASE Fuzzy
  <2>1. /\ ~Unsafe /\ Reach(patch) # {} /\ left = patch.rewrites /\ left' = left
        /\ Refused(patch, v) /\ tree = AfterGit(patch, v)
    BY <1>8 DEF Fuzzy, PatchInv, UnderWay, OnTheWay
  <2>2. CASE OneFile(patch)
    <3>1. /\ tree' = Touch(tree, patch.diff, IF patch.spans THEN "new" ELSE "hunks")
          /\ Ends("fuzzy_apply")
      BY <1>8, <2>2 DEF Fuzzy, OneFile, Work
    <3>2. Result(patch, Unsafe, v, "fuzzy_apply", tree')
      BY <2>1, <2>2, <3>1 DEF Result
    <3>3. QED
      BY <1>1, <1>2, <1>5, <2>1, <3>1, <3>2, EndAdvances
  <2>3. CASE ~OneFile(patch)
    <3>1. tree' = tree /\ StillApplying("rewrite")
      BY <1>8, <2>3 DEF Fuzzy, OneFile, Work
    <3>2. OnTheWay(patch, v, "rewrite", tree', left')
      BY <1>1, <1>3, <2>1, <2>3, <3>1, NoneWritten DEF FallsThrough
    <3>3. QED
      BY <1>1, <1>2, <1>5, <2>1, <3>1, <3>2, WayAdvances
  <2>4. QED
    BY <2>2, <2>3
<1>9. CASE Rewrite \/ NothingApplies
  <2>1. ~Unsafe /\ FallsThrough(patch, v)
    BY <1>9 DEF Rewrite, NothingApplies, PatchInv, UnderWay, OnTheWay
  <2>2. PICK k \in 0 .. Len(patch.rewrites) : Rewritten(patch, v, tree, left, k)
    BY <1>9 DEF Rewrite, NothingApplies, PatchInv, UnderWay, OnTheWay
  <2> DEFINE r == patch.rewrites
  <2>3. /\ r \in Seq(File) /\ Len(r) \in Nat /\ k \in Nat
        /\ left = SubSeq(r, k + 1, Len(r)) /\ Small(patch, k) /\ tree = Written(patch, v, k)
        /\ k = 0 \/ k < Len(r)
    BY <1>1, <2>2 DEF Rewritten
  <2>4. CASE NothingApplies
    <3>1. r = <<>> /\ tree' = tree /\ Ends("failed") /\ left' = left
      BY <2>4 DEF NothingApplies, Work
    <3>2. Len(r) = 0 /\ k = 0
      BY <2>3, <3>1
    <3>3. Result(patch, Unsafe, v, "failed", tree')
      BY <2>1, <2>3, <3>1, <3>2 DEF Result
    <3>4. QED
      BY <1>1, <1>2, <1>5, <3>1, <3>3, EndAdvances
  <2>5. CASE Rewrite
    <3>1. left # <<>> /\ left' = Tail(left) /\ r # <<>>
      BY <2>3, <2>5 DEF Rewrite
    <3>2. k < Len(r) /\ Head(left) = r[k + 1] /\ Tail(left) = SubSeq(r, k + 2, Len(r))
      <4> HIDE DEF r
      <4>1. k < Len(r)
        BY <2>3, <3>1
      <4>2. Head(SubSeq(r, k + 1, Len(r))) = r[k + 1]
        BY <2>3, <4>1
      <4>3. Tail(SubSeq(r, k + 1, Len(r))) = SubSeq(r, k + 2, Len(r))
        BY <2>3, <4>1
      <4>4. QED
        BY <2>3, <4>1, <4>2, <4>3
    <3>3. left' \in Seq(File)
      BY <1>1, <3>1
    <3>4. CASE r[k + 1] \in patch.big
      <4>1. tree' = tree /\ Ends("unsafe")
        BY <2>5, <3>2, <3>4 DEF Rewrite, Work
      <4>2. k \in 0 .. Len(r) - 1
        BY <2>3, <3>2
      <4>3. Result(patch, Unsafe, v, "unsafe", tree')
        BY <2>1, <2>3, <3>4, <4>1, <4>2 DEF Result
      <4>4. QED
        BY <1>2, <1>5, <3>3, <4>1, <4>3, EndAdvances
    <3>5. CASE r[k + 1] \notin patch.big
      <4>1. tree' = Written(patch, v, k + 1)
        <5>1. tree' = Touch(tree, {r[k + 1]}, "rewritten")
          BY <2>5, <3>2, <3>5 DEF Rewrite, Work
        <5>2. k \in 0 .. Len(r) - 1
          BY <2>3, <3>2
        <5>3. Written(patch, v, k + 1) = Touch(Written(patch, v, k), {r[k + 1]}, "rewritten")
          BY <1>1, <1>3, <5>2, OneMoreWritten
        <5>4. QED
          BY <2>3, <5>1, <5>3
      <4>2. Small(patch, k + 1)
        <5>1. \A i \in 1 .. k + 1 : i \in 1 .. k \/ i = k + 1
          BY <2>3
        <5>2. QED
          BY <2>3, <3>5, <5>1 DEF Small
      <4>3. CASE left' = <<>>
        <5>1. Ends("full_rewrite")
          BY <2>5, <3>2, <3>5, <4>3 DEF Rewrite
        <5>2. k + 1 = Len(r)
          <6>1. Len(left') = Len(r) - (k + 1)
            BY <2>3, <3>1, <3>2
          <6>2. QED
            BY <2>3, <4>3, <6>1
        <5>3. Result(patch, Unsafe, v, "full_rewrite", tree')
          BY <2>1, <3>1, <4>1, <4>2, <5>2 DEF Result
        <5>4. QED
          BY <1>2, <1>5, <3>3, <5>1, <5>3, EndAdvances
      <4>4. CASE left' # <<>>
        <5>1. StillApplying("rewrite")
          BY <2>5, <3>2, <3>5, <4>4 DEF Rewrite
        <5>2. k + 1 < Len(r) /\ k + 1 \in 0 .. Len(r)
          <6>1. Len(left') = Len(r) - (k + 1)
            BY <2>3, <3>1, <3>2
          <6>2. Len(left') # 0
            <7>1. left' = SubSeq(r, (k + 1) + 1, Len(r)) /\ r \in Seq(File)
              BY <2>3, <3>1, <3>2
            <7>2. QED
              BY <4>4, <7>1
          <6>3. QED
            BY <2>3, <6>1, <6>2
        <5>3. left' = SubSeq(r, (k + 1) + 1, Len(r))
          BY <2>3, <3>1, <3>2
        <5>4. Rewritten(patch, v, tree', left', k + 1)
          BY <4>1, <4>2, <5>2, <5>3 DEF Rewritten
        <5>5. OnTheWay(patch, v, "rewrite", tree', left')
          BY <2>1, <5>2, <5>4 DEF OnTheWay
        <5>6. QED
          BY <1>2, <1>5, <2>1, <3>3, <5>1, <5>5, WayAdvances
      <4>5. QED
        BY <4>3, <4>4
    <3>6. QED
      BY <3>4, <3>5
  <2>6. QED
    BY <1>9, <2>4, <2>5
<1>10. QED
  BY <1>6, <1>7, <1>8, <1>9 DEF Applying

(* A step of an application keeps the invariant. *)
LEMMA ApplyingNext ==
  ASSUME PatchInv, Applying, Advances
  PROVE  PatchInv'
<1>1. /\ UNCHANGED <<repo, patch, use, retained, snapshot, routing>>
      /\ tree' \in Tree /\ left' \in Seq(File) /\ Within(patch, Unsafe, tree')
  BY DEF Advances
<1>2. Unsafe' = Unsafe /\ VersionOf(use)' = VersionOf(use)
      /\ \A x \in Use : VersionOf(x)' = VersionOf(x)
  BY <1>1 DEF Unsafe, Touched, VersionOf
<1>3. Within(patch, Unsafe, tree)'
  BY <1>1, <1>2
<1>4. pc \in {"start", "git", "fuzzy", "rewrite"} /\ use \in Use
  BY DEF Applying, Start, GitApply, Fuzzy, Rewrite, NothingApplies, PatchInv, TypeOK
<1>5. CASE /\ pc' \in {"git", "fuzzy", "rewrite"} /\ UNCHANGED <<mode, applied>>
           /\ ~Unsafe /\ OnTheWay(patch, VersionOf(use), pc', tree', left')
  <2>1. TypeOK'
    BY <1>1, <1>5 DEF PatchInv, TypeOK
  <2>2. Copies'
    BY <1>1, <1>4, <1>5 DEF PatchInv, Copies, Before
  <2>3. UnderWay'
    BY <1>1, <1>2, <1>5 DEF UnderWay
  <2>4. Ended'
    BY <1>1, <1>2, <1>4, <1>5 DEF PatchInv, Ended, Before
  <2>5. LiveIsClean'
    BY <1>1, <1>4, <1>5 DEF PatchInv, LiveIsClean, ScreenedClean
  <2>6. QED
    BY <1>3, <2>1, <2>2, <2>3, <2>4, <2>5 DEF PatchInv
<1>6. CASE /\ pc' = "applied"
           /\ \E m \in Modes \cup {"unsafe", "failed"} :
                /\ mode' = [mode EXCEPT ![use] = m]
                /\ applied' = [applied EXCEPT ![use] = tree']
                /\ Result(patch, Unsafe, VersionOf(use), m, tree')
  <2>1. PICK m \in Modes \cup {"unsafe", "failed"} :
                /\ mode' = [mode EXCEPT ![use] = m]
                /\ applied' = [applied EXCEPT ![use] = tree']
                /\ Result(patch, Unsafe, VersionOf(use), m, tree')
    BY <1>6
  <2>2. m # ""
    BY DEF Modes
  <2>3. /\ mode \in [Use -> Modes \cup {"", "unsafe", "failed"}]
        /\ applied \in [Use -> Tree]
    BY DEF PatchInv, TypeOK
  <2>4. TypeOK'
    BY <1>1, <1>6, <2>1 DEF PatchInv, TypeOK
  <2>5. Copies'
    BY <1>1, <1>4, <1>6 DEF PatchInv, Copies, Before
  <2>6. UnderWay'
    BY <1>6 DEF UnderWay
  <2>7. /\ mode'[use] = m /\ applied'[use] = tree'
        /\ \A x \in Use \ {use} : mode'[x] = mode[x] /\ applied'[x] = applied[x]
    BY <1>4, <2>1, <2>3
  <2>8. \A x \in Use : HasResult(patch, Unsafe, VersionOf(x), mode'[x], applied'[x])
    BY <2>1, <2>2, <2>7 DEF PatchInv, Ended, HasResult
  <2>9. Ended'
    <3>1. \A x \in Use : HasResult(patch', Unsafe', VersionOf(x)', mode'[x], applied'[x])
      BY <1>1, <1>2, <2>8
    <3>2. /\ mode'[use'] # "" /\ applied'[use'] = tree'
          /\ mode'["screen"] = "" => FALSE
      BY <1>1, <2>2, <2>7 DEF PatchInv, Ended, Use
    <3>3. QED
      BY <3>1, <3>2 DEF Ended
  <2>10. LiveIsClean'
    <3>1. use \in {"oracle", "run"} =>
            /\ ScreenedClean /\ mode'["screen"] = mode["screen"]
            /\ applied'["screen"] = applied["screen"]
      BY <2>7 DEF PatchInv, LiveIsClean, Use
    <3>2. use # "run" => mode'["run"] = mode["run"]
      BY <2>7 DEF Use
    <3>3. QED
      BY <1>1, <1>6, <3>1, <3>2 DEF PatchInv, LiveIsClean, ScreenedClean
  <2>11. QED
    BY <1>3, <2>4, <2>5, <2>6, <2>9, <2>10 DEF PatchInv
<1>7. QED
  BY <1>5, <1>6 DEF Advances

(* The steps that fix the patch and take the copies, before anything is     *)
(* applied.                                                                  *)
LEMMA PreparingNext ==
  ASSUME PatchInv, Plan \/ Retain \/ Snapshot
  PROVE  PatchInv'
<1>1. /\ use = "screen" /\ tree = Pristine(0) /\ pc \in Before
      /\ \A x \in Use : mode[x] = "" /\ applied[x] = Pristine(0)
  BY DEF PatchInv, Copies, Plan, Retain, Snapshot, Before
<1>2. /\ UNCHANGED <<repo, use, tree, left, mode, applied, routing>>
      /\ pc' \in {"retain", "snapshot", "start"}
  BY <1>1 DEF Plan, Retain, Snapshot, bookkeeping
<1>3. 0 \in Version /\ repo \in Version
  <2>1. 0 \in Version
    BY PatchApplyAssumption DEF Version, PatchApplyAssumption
  <2>2. QED
    BY <2>1 DEF PatchInv, TypeOK
<1>4. TypeOK'
  <2>1. patch' \in PatchType
    <3>1. CASE Plan
      <4>1. patch \in PatchType
        BY DEF PatchInv, TypeOK
      <4>2. ToSet(patch.rewrites) \subseteq File
        BY <4>1 DEF PatchType, ToSet
      <4>3. QED
        BY <3>1, <4>1, <4>2 DEF Plan, PatchType, Reach
    <3>2. CASE Retain \/ Snapshot
      BY <3>2 DEF Retain, Snapshot, PatchInv, TypeOK
    <3>3. QED
      BY <3>1, <3>2
  <2>2. retained' \in {retained, Pristine(repo)} /\ snapshot' \in {snapshot, Pristine(repo)}
    BY DEF Plan, Retain, Snapshot, bookkeeping
  <2>3. Pristine(repo) \in Tree
    BY <1>3, PristineIs
  <2>4. retained' \in Tree \cup {NoTree} /\ snapshot' \in Tree \cup {NoTree}
    BY <2>2, <2>3 DEF PatchInv, TypeOK
  <2>5. QED
    BY <1>2, <2>1, <2>4 DEF PatchInv, TypeOK
<1>5. Copies'
  BY <1>1, <1>2, <1>3 DEF PatchInv, Copies, Before, Plan, Retain, Snapshot, bookkeeping
<1>6. UnderWay'
  BY <1>2 DEF UnderWay
<1>7. Ended'
  BY <1>1, <1>2 DEF Ended, HasResult, Before, Use
<1>8. LiveIsClean'
  BY <1>1, <1>2 DEF PatchInv, LiveIsClean, Use
<1>9. Within(patch, Unsafe, tree)'
  BY <1>1, <1>2, <1>3, PristineIs DEF Within
<1>10. QED
  BY <1>4, <1>5, <1>6, <1>7, <1>8, <1>9 DEF PatchInv

(* What run_task makes of an application that has ended, and edits beside it. *)
Deciding ==
  Screened \/ AskOracle \/ OracleAnswers \/ Sandbox \/ SandboxEnds \/ NotSandboxed
  \/ Audit \/ AuditEnds

(* None of it touches the working copy or what an application came to. *)
LEMMA DecidingNext ==
  ASSUME PatchInv, Edit \/ Deciding
  PROVE  PatchInv'
<1>1. UNCHANGED <<patch, tree, left, retained, snapshot, mode, applied>>
  BY DEF Edit, Deciding, Screened, AskOracle, OracleAnswers, Sandbox, SandboxEnds, NotSandboxed,
         Audit, AuditEnds, bookkeeping
<1>2. /\ Unsafe' = Unsafe /\ \A x : VersionOf(x)' = VersionOf(x)
  BY <1>1 DEF Unsafe, Touched, VersionOf
<1>3. Within(patch, Unsafe, tree)'
  BY <1>1, <1>2 DEF PatchInv
<1>4. CASE Edit
  <2>1. UNCHANGED <<pc, use, routing>> /\ repo' \in Version
    <3>1. repo \in 0 .. MaxEdits /\ MaxEdits \in Nat
      BY PatchApplyAssumption DEF Version, PatchApplyAssumption, PatchInv, TypeOK
    <3>2. QED
      BY <1>4, <3>1 DEF Edit, bookkeeping, Version
  <2>2. TypeOK' /\ Copies'
    BY <1>1, <2>1 DEF PatchInv, TypeOK, Copies
  <2>3. UnderWay'
    BY <1>1, <1>2, <2>1 DEF PatchInv, UnderWay
  <2>4. Ended' /\ LiveIsClean'
    BY <1>1, <1>2, <2>1 DEF PatchInv, Ended, LiveIsClean, ScreenedClean
  <2>5. QED
    BY <1>3, <2>2, <2>3, <2>4 DEF PatchInv
<1>5. CASE Deciding
  <2>1. /\ repo' = repo /\ use' \in Use
        /\ pc' \in {"start", "live", "pruned", "done", "crashed"}
        /\ pc \in {"applied", "live", "pruned"}
        /\ routing' \in {"", "PRUNE", "LIVE"}
    BY <1>5 DEF Deciding, Screened, AskOracle, OracleAnswers, Sandbox, SandboxEnds, NotSandboxed,
            Audit, AuditEnds, bookkeeping, Prune, Go, Use, PatchInv, TypeOK
  <2>2. TypeOK' /\ Copies' /\ UnderWay'
    BY <1>1, <2>1 DEF PatchInv, TypeOK, Copies, UnderWay, Before
  <2>3. mode["screen"] # ""
    BY <2>1 DEF PatchInv, Ended, Before
  <2>4. Ended'
    BY <1>1, <1>2, <2>1, <2>3 DEF PatchInv, Ended
  <2>5. LiveIsClean'
    <3>1. CASE Screened
      <4>1. use = "screen" /\ use' = use /\ pc = "applied" /\ pc' \in {"pruned", "live"}
        BY <3>1 DEF Screened, Prune
      <4>2. pc' = "live" => ScreenedClean
        <5>1. pc' = "live" => mode["screen"] \in Modes /\ 1 \in symbolic_check(tree)
          BY <3>1 DEF Screened, Prune
        <5>2. applied["screen"] = tree
          BY <4>1 DEF PatchInv, Ended
        <5>3. QED
          BY <5>1, <5>2 DEF ScreenedClean, symbolic_check
      <4>3. QED
        BY <1>1, <4>1, <4>2 DEF PatchInv, LiveIsClean, ScreenedClean
    <3>2. CASE AskOracle \/ Sandbox \/ NotSandboxed
      <4>1. /\ pc = "live" /\ pc' \in {"start", "done"} /\ use' \in {use, "oracle", "run"}
            /\ use # "run" /\ mode["run"] = ""
        BY <3>2 DEF AskOracle, Sandbox, NotSandboxed, Go, PatchInv, LiveIsClean
      <4>2. ScreenedClean'
        BY <1>1, <4>1 DEF PatchInv, LiveIsClean, ScreenedClean
      <4>3. QED
        BY <1>1, <4>1, <4>2 DEF LiveIsClean
    <3>3. CASE OracleAnswers \/ SandboxEnds \/ AuditEnds
      <4>1. /\ use' = use /\ pc' \in {"live", "pruned", "done", "crashed"}
            /\ pc' \in {"live", "pruned"} => use = "oracle"
        BY <3>3 DEF OracleAnswers, SandboxEnds, AuditEnds, Prune
      <4>2. QED
        BY <1>1, <4>1 DEF PatchInv, LiveIsClean, ScreenedClean
    <3>4. CASE Audit
      <4>1. pc = "pruned" /\ pc' = "start" /\ use' = "audit"
        BY <3>4 DEF Audit, Go
      <4>2. QED
        BY <1>1, <4>1 DEF PatchInv, LiveIsClean
    <3>5. QED
      BY <1>5, <3>1, <3>2, <3>3, <3>4 DEF Deciding
  <2>6. QED
    BY <1>3, <2>2, <2>4, <2>5 DEF PatchInv
<1>6. QED
  BY <1>4, <1>5

(* The invariant holds in every reachable state. *)
THEOREM PatchInvariant == Spec => []PatchInv
<1>1. Init => PatchInv
  <2>1. SUFFICES ASSUME Init PROVE PatchInv
    OBVIOUS
  <2>2. 0 \in Version
    BY PatchApplyAssumption DEF Version, PatchApplyAssumption
  <2>3. TypeOK
    <3>1. Pristine(0) \in Tree
      BY <2>2, PristineIs
    <3>2. patch \in PatchType
      BY <2>1, PatchApplyAssumption DEF Init, PatchApplyAssumption
    <3>3. /\ mode \in [Use -> Modes \cup {"", "unsafe", "failed"}]
          /\ applied \in [Use -> Tree]
      <4>1. mode = [x \in Use |-> ""] /\ applied = [x \in Use |-> Pristine(0)]
        BY <2>1 DEF Init
      <4>2. QED
        BY <3>1, <4>1
    <3>4. retained = NoTree /\ snapshot = NoTree /\ left \in Seq(File) /\ repo \in Version
      <4>1. retained = NoTree /\ snapshot = NoTree /\ left = <<>> /\ repo = 0
        BY <2>1 DEF Init
      <4>2. <<>> \in Seq(File)
        OBVIOUS
      <4>3. QED
        BY <2>2, <4>1, <4>2
    <3>5. pc = "plan" /\ use \in Use /\ tree \in Tree /\ routing = ""
      BY <2>1, <3>1 DEF Init, Use
    <3>6. QED
      BY <3>2, <3>3, <3>4, <3>5 DEF TypeOK
  <2>4. Copies /\ UnderWay /\ LiveIsClean
    BY <2>1 DEF Init, Copies, UnderWay, LiveIsClean, Before, Use
  <2>5. Ended
    BY <2>1 DEF Init, Ended, HasResult, Before, Use
  <2>6. Within(patch, Unsafe, tree)
    BY <2>1, <2>2, PristineIs DEF Init, Within
  <2>7. QED
    BY <2>3, <2>4, <2>5, <2>6 DEF PatchInv
<1>2. PatchInv /\ [Next]_vars => PatchInv'
  <2>1. SUFFICES ASSUME PatchInv, [Next]_vars PROVE PatchInv'
    OBVIOUS
  <2>2. CASE Applying
    BY <2>1, <2>2, ApplyingAdvances, ApplyingNext
  <2>3. CASE Plan \/ Retain \/ Snapshot
    BY <2>1, <2>3, PreparingNext
  <2>4. CASE Edit \/ Deciding
    BY <2>1, <2>4, DecidingNext
  <2>5. CASE UNCHANGED vars
    <3>1. UNCHANGED <<repo, patch, pc, use, tree, left, retained, snapshot, mode, applied, routing>>
      BY <2>5 DEF vars, bookkeeping
    <3>2. Unsafe' = Unsafe /\ \A x : VersionOf(x)' = VersionOf(x)
      BY <3>1 DEF Unsafe, Touched, VersionOf
    <3>3. TypeOK'
      BY <2>1, <3>1 DEF PatchInv, TypeOK
    <3>4. Copies'
      BY <2>1, <3>1 DEF PatchInv, Copies
    <3>5. LiveIsClean'
      BY <2>1, <3>1 DEF PatchInv, LiveIsClean, ScreenedClean
    <3>6. UnderWay' /\ Ended'
      BY <2>1, <3>1, <3>2 DEF PatchInv, UnderWay, Ended
    <3>7. Within(patch, Unsafe, tree)'
      BY <2>1, <3>1, <3>2 DEF PatchInv
    <3>8. QED
      BY <3>3, <3>4, <3>5, <3>6, <3>7 DEF PatchInv
  <2>6. QED
    BY <2>1, <2>2, <2>3, <2>4, <2>5 DEF Next, Applying, Deciding
<1>3. QED
  BY <1>1, <1>2, PTL DEF Spec

(* Two applications of the patch to the same version come to the same. *)
LEMMA ResultsAgree ==
  ASSUME PatchInv, NEW x \in Use, mode[x] # "", VersionOf(x) = VersionOf("screen")
  PROVE  mode[x] = mode["screen"] /\ applied[x] = applied["screen"]
<1>1. mode["screen"] # ""
  BY DEF PatchInv, Ended
<1>2. /\ Result(patch, Unsafe, VersionOf("screen"), mode[x], applied[x])
      /\ Result(patch, Unsafe, VersionOf("screen"), mode["screen"], applied["screen"])
  BY <1>1 DEF PatchInv, Ended, HasResult, Use
<1>3. patch \in PatchType /\ Unsafe \in BOOLEAN
  BY DEF PatchInv, TypeOK, Unsafe
<1>4. QED
  BY <1>2, <1>3, ResultIsUnique

(* The oracle, the sandbox and the audit run exactly what was screened,      *)
(* whatever the developers do to the repository and through whichever tier   *)
(* the patch goes in: apply_patch_strict_then_fallback starts from a clean   *)
(* copy each time, and what it comes to depends on nothing else.             *)
THEOREM WhatWasScreenedRuns == Spec => []SandboxRunsWhatWasScreened
<1>1. PatchInv => SandboxRunsWhatWasScreened
  <2>1. SUFFICES ASSUME PatchInv, NEW x \in {"oracle", "run", "audit"}, mode[x] # "",
                        x = "audit" => retained.version = snapshot.version
                 PROVE  mode[x] = mode["screen"] /\ applied[x] = applied["screen"]
    BY DEF SandboxRunsWhatWasScreened
  <2>2. VersionOf(x) = VersionOf("screen") /\ x \in Use
    BY <2>1 DEF VersionOf, Use
  <2>3. QED
    BY <2>1, <2>2, ResultsAgree
<1>2. QED
  BY <1>1, PatchInvariant, PTL

(* Whatever the patch of a branch does, it does it whole, to its own files   *)
(* alone and to no sensitive one it names, and no Python file with conflict  *)
(* markers reaches the sandbox.                                              *)
THEOREM PatchesStayContained == Spec => []PatchesAreContained
<1>1. PatchInv => PatchesAreContained
  <2>1. SUFFICES ASSUME PatchInv PROVE PatchesAreContained
    OBVIOUS
  <2>2. /\ TypeOK /\ patch \in PatchType /\ Unsafe \in BOOLEAN
        /\ Reach(patch) = patch.diff \cup patch.silent
        /\ ToSet(Touched) = patch.diff \cup ToSet(patch.rewrites)
    <3>1. TypeOK /\ patch \in PatchType /\ Unsafe \in BOOLEAN
      BY <2>1 DEF PatchInv, TypeOK, Unsafe
    <3>2. Reach(patch) = patch.diff \cup patch.silent
      BY DEF Reach
    <3>3. QED
      BY <3>1, <3>2, TouchedIsAll
  <2>3. 0 \in Version
    BY PatchApplyAssumption DEF Version, PatchApplyAssumption
  <2>4. ASSUME NEW x \in Use
        PROVE  Whole(patch, mode[x], applied[x]) /\ Within(patch, Unsafe, applied[x])
    <3>1. CASE mode[x] = ""
      <4>1. applied[x] = Pristine(0)
        BY <2>1, <3>1 DEF PatchInv, Ended, HasResult
      <4>2. \A f \in File : applied[x].file[f] = "old"
        BY <2>3, <4>1, PristineIs
      <4>3. QED
        BY <3>1, <4>2 DEF Whole, Within
    <3>2. CASE mode[x] # ""
      <4>1. Result(patch, Unsafe, VersionOf(x), mode[x], applied[x])
        BY <2>1, <3>2 DEF PatchInv, Ended, HasResult
      <4>2. VersionOf(x) \in Version
        <5>1. pc \notin Before
          BY <2>1, <3>2 DEF PatchInv, Copies
        <5>2. /\ \E v \in Version : retained = Pristine(v)
              /\ \E v \in Version : snapshot = Pristine(v)
          BY <2>1, <5>1 DEF PatchInv, Copies, Before
        <5>3. QED
          BY <5>2, PristineIs DEF VersionOf
      <4>3. QED
        BY <2>2, <4>1, <4>2, ResultIsContained
    <3>3. QED
      BY <3>1, <3>2
  <2>5. SuccessIsWhole
    BY <2>2, <2>4 DEF SuccessIsWhole, Whole, Within
  <2>6. NoMarkersInTheSandbox
    <3>1. SUFFICES ASSUME mode["run"] \in Modes
                   PROVE  \A f \in Python : applied["run"].file[f] # "markers"
      BY DEF NoMarkersInTheSandbox
    <3>2. mode["run"] # "" /\ "run" \in Use
      BY <3>1 DEF Modes, Use
    <3>3. ScreenedClean
      BY <2>1, <3>2 DEF PatchInv, LiveIsClean
    <3>4. applied["run"] = applied["screen"]
      BY <2>1, <3>2, ResultsAgree DEF VersionOf
    <3>5. QED
      BY <3>3, <3>4 DEF ScreenedClean
  <2>7. SensitiveFilesStay
    <3>1. ASSUME NEW f \in Sensitive \ patch.silent
          PROVE  tree.file[f] = "old" /\ \A x \in Use : applied[x].file[f] = "old"
      <4>1. f \in File /\ (f \in Reach(patch) \cup ToSet(patch.rewrites) => Unsafe)
        BY <2>2, PatchApplyAssumption DEF PatchApplyAssumption, Unsafe
      <4>2. Within(patch, Unsafe, tree)
        BY <2>1 DEF PatchInv
      <4>3. QED
        BY <2>4, <4>1, <4>2 DEF Within
    <3>2. QED
      BY <3>1 DEF SensitiveFilesStay
  <2>8. QED
    BY <2>2, <2>5, <2>6, <2>7 DEF PatchesAreContained, SuccessIsClean
<1>2. QED
  BY <1>1, PatchInvariant, PTL


(***************************************************************************)
(* The coverage signal.  The reader of diffs is where the writer is, as    *)
(* long as no line reads as something else.                                *)
(***************************************************************************)
HunkType == [file : DiffFile, removed : SUBSET Signal!Line, context : SUBSET Signal!Line]

SignalTypes ==
  /\ Signal!TypeOK
  /\ hunks \in Seq(HunkType)
  /\ inside => at # 0 /\ file \in DiffFile /\ hunks # <<>> /\ hunks[Len(hunks)].file = file

(* What the hunks of a file say, one by one. *)
LEMMA HunksSay ==
  ASSUME NEW f
  PROVE  /\ \A n : n \in Signal!TrulyRemoved(f) <=>
                     \E k \in DOMAIN hunks : hunks[k].file = f /\ n \in hunks[k].removed
         /\ \A n : n \in Signal!TrueContext(f) <=>
                     \E k \in DOMAIN hunks : hunks[k].file = f /\ n \in hunks[k].context
BY DEF Signal!TrulyRemoved, Signal!TrueContext, Signal!AllHunks

(* The steps of the writer, and the judgment. *)
Writing ==
  \/ Signal!WriteHeader \/ Signal!WriteGitHeader \/ Signal!WriteHunk \/ Signal!WriteContext
  \/ Signal!WriteRemoved \/ Signal!WriteAdded

(* A hunk that is written to goes on being a hunk of the file. *)
LEMMA HunkGrows ==
  ASSUME SignalTypes, inside, at \in Signal!Line, NEW h,
         \/ h = [Signal!Hunk EXCEPT !.removed = @ \cup {at}]
         \/ h = [Signal!Hunk EXCEPT !.context = @ \cup {at}],
         Signal!InHunk(h)
  PROVE  /\ hunks' \in Seq(HunkType) /\ hunks' # <<>> /\ Len(hunks') = Len(hunks)
         /\ Len(hunks) \in DOMAIN hunks /\ hunks'[Len(hunks)] = h
         /\ h.file = file /\ hunks[Len(hunks)] = Signal!Hunk
         /\ \A k \in DOMAIN hunks \ {Len(hunks)} : hunks'[k] = hunks[k]
         /\ DOMAIN hunks' = DOMAIN hunks
<1>1. Len(hunks) \in DOMAIN hunks /\ Len(hunks) \in Nat /\ Signal!Hunk \in HunkType
  BY DEF SignalTypes, Signal!Hunk
<1>2. h \in HunkType /\ h.file = file
  BY <1>1 DEF HunkType, SignalTypes, Signal!Hunk
<1>3. hunks' = [hunks EXCEPT ![Len(hunks)] = h]
  BY DEF Signal!InHunk
<1>4. hunks' \in Seq(HunkType) /\ Len(hunks') = Len(hunks)
  BY <1>1, <1>2, <1>3 DEF SignalTypes
<1>5. QED
  BY <1>1, <1>2, <1>3, <1>4 DEF SignalTypes, Signal!Hunk

(* What is known of the state before a line is written, and after it. *)
Known ==
  /\ file \in DiffFile \cup {Signal!NoFile} /\ cur \in DiffFile \cup {Signal!NoFile} /\ at \in Nat
  /\ at <= Lines + 1
  /\ written \in Nat /\ MaxDiff \in Nat /\ Lines \in Nat /\ inside \in BOOLEAN
  /\ odd \in BOOLEAN /\ old_ln \in Nat /\ hunks \in Seq(HunkType)
  /\ removed \in [DiffFile -> SUBSET Nat] /\ context \in [DiffFile -> SUBSET Nat]
  /\ written < MaxDiff

(* A line is written while nothing has been judged. *)
LEMMA BeforeWriting ==
  ASSUME SignalTypes, Writing
  PROVE  /\ Known /\ written' = written + 1 /\ uncertainty = <<>>
         /\ UNCHANGED <<whole, executed, uncertainty>>
<1> USE DEF Signal!judgment
<1>1. Signal!Writes /\ UNCHANGED <<whole, executed, uncertainty>>
  <2>1. CASE Signal!WriteHeader
    BY <2>1 DEF Signal!WriteHeader
  <2>2. CASE Signal!WriteGitHeader
    BY <2>2 DEF Signal!WriteGitHeader
  <2>3. CASE Signal!WriteHunk
    BY <2>3 DEF Signal!WriteHunk
  <2>4. CASE Signal!WriteContext
    BY <2>4 DEF Signal!WriteContext
  <2>5. CASE Signal!WriteRemoved
    BY <2>5 DEF Signal!WriteRemoved
  <2>6. CASE Signal!WriteAdded
    BY <2>6 DEF Signal!WriteAdded
  <2>7. QED
    BY <2>1, <2>2, <2>3, <2>4, <2>5, <2>6 DEF Writing
<1>2. written' = written + 1 /\ uncertainty = <<>> /\ written < MaxDiff
  BY <1>1 DEF Signal!Writes
<1>3. Lines \in Nat /\ MaxDiff \in Nat
  BY SignalAssumption DEF Signal!CoverageSignalAssumption
<1>4. at \in Nat /\ at <= Lines + 1 /\ written \in Nat
  BY <1>3 DEF SignalTypes, Signal!TypeOK
<1>5. hunks \in Seq(HunkType)
  BY DEF SignalTypes
<1>6. /\ file \in DiffFile \cup {Signal!NoFile} /\ cur \in DiffFile \cup {Signal!NoFile}
      /\ inside \in BOOLEAN /\ odd \in BOOLEAN /\ old_ln \in Nat
      /\ removed \in [DiffFile -> SUBSET Nat] /\ context \in [DiffFile -> SUBSET Nat]
  BY DEF SignalTypes, Signal!TypeOK
<1>7. QED
  BY <1>1, <1>2, <1>3, <1>4, <1>5, <1>6 DEF Known

(* The rest of SignalTypes, by parts that one step of the writer changes. *)
Positions ==
  /\ file \in DiffFile \cup {Signal!NoFile} /\ at \in 0 .. Lines + 1
  /\ inside \in BOOLEAN /\ odd \in BOOLEAN

Readings ==
  /\ cur \in DiffFile \cup {Signal!NoFile} /\ old_ln \in Nat
  /\ removed \in [DiffFile -> SUBSET Nat] /\ context \in [DiffFile -> SUBSET Nat]

Hunks ==
  /\ hunks \in Seq(HunkType)
  /\ inside => at # 0 /\ file \in DiffFile /\ hunks # <<>> /\ hunks[Len(hunks)].file = file

(* They make up the types. *)
LEMMA PartsAreTypes ==
  ASSUME SignalTypes, Writing, Positions', Readings', Hunks'
  PROVE  SignalTypes'
<1>1. Signal!AllHunks' \subseteq HunkType
  BY DEF Signal!AllHunks, Hunks
<1>2. written' \in 0 .. MaxDiff
  <2>1. Known /\ written' = written + 1
    BY BeforeWriting
  <2>2. QED
    BY <2>1 DEF Known
<1>3. UNCHANGED <<whole, executed>> /\ uncertainty' = <<>>
  BY BeforeWriting
<1>4. Signal!TypeOK'
  BY <1>1, <1>2, <1>3 DEF SignalTypes, Signal!TypeOK, HunkType, Positions, Readings
<1>5. QED
  BY <1>4 DEF SignalTypes, Hunks

(* Lines removed or kept, as the hunks have it, when one of them takes a line. *)
InStep ==
  /\ cur = file
  /\ inside => old_ln = at
  /\ \A f \in DiffFile :
       /\ removed[f] = Signal!TrulyRemoved(f)
       /\ Signal!TrulyRemoved(f) = {} => context[f] = Signal!TrueContext(f)

(* A header names a file; in git's form too, unless the file before has no    *)
(* removed line.                                                              *)
LEMMA HeaderIsRead ==
  ASSUME SignalTypes, Signal!WriteHeader \/ Signal!WriteGitHeader
  PROVE  /\ Positions' /\ Readings' /\ Hunks'
         /\ ~odd /\ InStep /\ ~odd' => InStep'
<1> USE DEF Signal!ReadHeader
<1>0. Known
  BY BeforeWriting DEF Writing
<1>1. /\ file' \in DiffFile /\ file' = cur' /\ inside' = FALSE /\ at' = 0 /\ hunks' = hunks
      /\ removed' = removed
  BY DEF Signal!WriteHeader, Signal!WriteGitHeader
<1>2. \/ UNCHANGED <<old_ln, context>>
      \/ /\ cur # Signal!NoFile /\ old_ln' = old_ln + 2
         /\ removed[cur] = {} => odd'
         /\ context' = [context EXCEPT ![cur] = @ \cup {old_ln, old_ln + 1}]
  BY DEF Signal!WriteHeader, Signal!WriteGitHeader
<1>3. Positions'
  <2>1. odd \in BOOLEAN
    BY <1>0 DEF Known
  <2>2. odd' \in BOOLEAN
    <3>1. CASE Signal!WriteHeader
      BY <2>1, <3>1 DEF Signal!WriteHeader
    <3>2. CASE Signal!WriteGitHeader
      <4>1. odd' = (odd \/ (cur # Signal!NoFile /\ removed[cur] = {}))
        BY <3>2 DEF Signal!WriteGitHeader
      <4>2. QED
        BY <4>1, Zenon
    <3>3. QED
      BY <3>1, <3>2
  <2>3. file' \in DiffFile \cup {Signal!NoFile} /\ inside' \in BOOLEAN
    BY <1>1
  <2>4. at' \in 0 .. Lines + 1
    BY <1>0, <1>1 DEF Known
  <2>5. QED
    BY <2>2, <2>3, <2>4 DEF Positions
<1>4. old_ln' \in Nat /\ context' \in [DiffFile -> SUBSET Nat]
  BY <1>0, <1>2 DEF Known
<1>5. Readings'
  BY <1>0, <1>1, <1>4 DEF Readings, Known
<1>6. Hunks'
  BY <1>0, <1>1 DEF Hunks, Known
<1>7. ASSUME ~odd, InStep, ~odd'
      PROVE  InStep'
  <2>1. UNCHANGED <<removed, hunks>>
    BY <1>1
  <2>2. \A f : Signal!TrulyRemoved(f)' = Signal!TrulyRemoved(f)
              /\ Signal!TrueContext(f)' = Signal!TrueContext(f)
    BY <2>1 DEF Signal!TrulyRemoved, Signal!TrueContext, Signal!AllHunks
  <2>3. \A f \in DiffFile : removed[f] = {} => context'[f] = context[f]
    BY <1>0, <1>2, <1>7 DEF Known
  <2>4. QED
    BY <1>1, <1>7, <2>1, <2>2, <2>3 DEF InStep
<1>8. QED
  BY <1>3, <1>5, <1>6, <1>7

(* A hunk opens with nothing in it. *)
LEMMA HunkIsRead ==
  ASSUME SignalTypes, Signal!WriteHunk
  PROVE  /\ Positions' /\ Readings' /\ Hunks'
         /\ ~odd /\ InStep /\ ~odd' => InStep'
<1> USE DEF Signal!ReadHunk
<1> DEFINE h == [file |-> file, removed |-> {}, context |-> {}]
<1>0. Known
  BY BeforeWriting DEF Writing
<1>1. /\ file \in DiffFile /\ hunks' = Append(hunks, h) /\ inside' = TRUE
      /\ UNCHANGED <<file, odd, cur, removed, context>>
      /\ at' \in Signal!Line /\ old_ln' = at'
  BY <1>0 DEF Signal!WriteHunk, Known
<1>2. at' \in 1 .. Lines /\ Lines \in Nat
  BY <1>0, <1>1 DEF Signal!Line, Known
<1>3. Positions'
  BY <1>0, <1>1, <1>2 DEF Positions, Known
<1>4. Readings'
  BY <1>0, <1>1, <1>2 DEF Readings, Known
<1>5. h \in HunkType
  BY <1>1 DEF HunkType
<1>6. h.file = file /\ h.removed = {} /\ h.context = {}
  OBVIOUS
<1> HIDE DEF h
<1>7. hunks \in Seq(HunkType) /\ Len(hunks) \in Nat
  BY <1>0 DEF Known
<1>8. hunks' \in Seq(HunkType) /\ Len(hunks') = Len(hunks) + 1
      /\ hunks'[Len(hunks) + 1] = h
      /\ (\A k \in DOMAIN hunks : hunks'[k] = hunks[k])
      /\ DOMAIN hunks' = DOMAIN hunks \cup {Len(hunks) + 1}
  BY <1>1, <1>5, <1>7
<1>9. Hunks'
  BY <1>1, <1>2, <1>6, <1>7, <1>8 DEF Hunks
<1>10. ASSUME ~odd, InStep, ~odd'
       PROVE  InStep'
  <2>1. \A f : Signal!TrulyRemoved(f)' = Signal!TrulyRemoved(f)
    <3> SUFFICES ASSUME NEW f PROVE Signal!TrulyRemoved(f)' = Signal!TrulyRemoved(f)
      OBVIOUS
    <3>1. \A n : n \in Signal!TrulyRemoved(f)' <=>
                 \E k \in DOMAIN hunks' : hunks'[k].file = f /\ n \in hunks'[k].removed
      BY DEF Signal!TrulyRemoved, Signal!AllHunks
    <3>2. \A n : n \in Signal!TrulyRemoved(f) <=>
                 \E k \in DOMAIN hunks : hunks[k].file = f /\ n \in hunks[k].removed
      BY HunksSay
    <3>3. ASSUME NEW n PROVE n \in Signal!TrulyRemoved(f)' <=> n \in Signal!TrulyRemoved(f)
      BY <1>6, <1>8, <3>1, <3>2
    <3>4. QED
      BY <3>3
  <2>2. \A f : Signal!TrueContext(f)' = Signal!TrueContext(f)
    <3> SUFFICES ASSUME NEW f PROVE Signal!TrueContext(f)' = Signal!TrueContext(f)
      OBVIOUS
    <3>1. \A n : n \in Signal!TrueContext(f)' <=>
                 \E k \in DOMAIN hunks' : hunks'[k].file = f /\ n \in hunks'[k].context
      BY DEF Signal!TrueContext, Signal!AllHunks
    <3>2. \A n : n \in Signal!TrueContext(f) <=>
                 \E k \in DOMAIN hunks : hunks[k].file = f /\ n \in hunks[k].context
      BY HunksSay
    <3>3. ASSUME NEW n PROVE n \in Signal!TrueContext(f)' <=> n \in Signal!TrueContext(f)
      BY <1>6, <1>8, <3>1, <3>2
    <3>4. QED
      BY <3>3
  <2>3. QED
    BY <1>1, <1>10, <2>1, <2>2 DEF InStep
<1>11. QED
  BY <1>3, <1>4, <1>9, <1>10

(* A line within a hunk, kept or removed: what is common to the two. *)
LEMMA LineIsWritten ==
  ASSUME SignalTypes, Signal!WriteContext \/ Signal!WriteRemoved
  PROVE  /\ inside /\ at \in Signal!Line /\ at \in Nat /\ file \in DiffFile
         /\ at' = at + 1 /\ UNCHANGED <<file, inside, cur>>
         /\ Positions' /\ Readings'
<1>0. Known
  BY BeforeWriting DEF Writing
<1>1. /\ inside /\ at <= Lines /\ at' = at + 1 /\ UNCHANGED <<file, inside>>
  BY DEF Signal!WriteContext, Signal!WriteRemoved
<1>2. at \in Signal!Line /\ at \in Nat /\ file \in DiffFile
  BY <1>0, <1>1 DEF SignalTypes, Signal!Line, Known
<1>3. Positions'
  <2>1. odd \in BOOLEAN
    BY <1>0 DEF Known
  <2>2. odd' \in BOOLEAN
    BY <2>1, Zenon DEF Signal!WriteContext, Signal!WriteRemoved
  <2>3. QED
    BY <2>2, <1>0, <1>1, <1>2 DEF Positions, Known
<1>4. \/ Signal!ReadContext \/ Signal!ReadRemoved \/ Signal!ReadNothing
  BY DEF Signal!WriteContext, Signal!WriteRemoved
<1>5. cur' = cur
  BY <1>4 DEF Signal!ReadContext, Signal!ReadRemoved, Signal!ReadNothing, Signal!reader
<1>6. old_ln' \in Nat
  BY <1>0, <1>4
     DEF Signal!ReadContext, Signal!ReadRemoved, Signal!ReadNothing, Signal!reader, Known
<1>7. removed' \in [DiffFile -> SUBSET Nat]
  BY <1>0, <1>4
     DEF Signal!ReadContext, Signal!ReadRemoved, Signal!ReadNothing, Signal!reader, Known
<1>8. context' \in [DiffFile -> SUBSET Nat]
  BY <1>0, <1>4
     DEF Signal!ReadContext, Signal!ReadRemoved, Signal!ReadNothing, Signal!reader, Known
<1>9. Readings'
  BY <1>0, <1>5, <1>6, <1>7, <1>8 DEF Readings, Known
<1>10. QED
  BY <1>1, <1>2, <1>3, <1>5, <1>9

(* A line kept is one more of the context of its file. *)
LEMMA ContextIsRead ==
  ASSUME SignalTypes, Signal!WriteContext
  PROVE  Hunks' /\ (~odd /\ InStep /\ ~odd' => InStep')
<1> DEFINE h == [Signal!Hunk EXCEPT !.context = @ \cup {at}]
           j == Len(hunks)
<1>1. /\ inside /\ at \in Signal!Line /\ at \in Nat /\ file \in DiffFile
      /\ at' = at + 1 /\ UNCHANGED <<file, inside, cur>>
  BY LineIsWritten
<1>2. Signal!InHunk(h) /\ Signal!ReadContext
  BY DEF Signal!WriteContext
<1>3. /\ hunks' \in Seq(HunkType) /\ hunks' # <<>> /\ Len(hunks') = j
      /\ j \in DOMAIN hunks /\ hunks'[j] = h
      /\ h.file = file /\ hunks[j] = Signal!Hunk
      /\ \A k \in DOMAIN hunks \ {j} : hunks'[k] = hunks[k]
      /\ DOMAIN hunks' = DOMAIN hunks
  BY <1>1, <1>2, HunkGrows
<1>4. h.removed = Signal!Hunk.removed /\ h.context = Signal!Hunk.context \cup {at}
      /\ Signal!Hunk.file = file
  <2>1. Signal!Hunk \in HunkType /\ Signal!Hunk.file = file
    BY <1>1, <1>3 DEF SignalTypes
  <2>2. QED
    BY <2>1 DEF HunkType
<1> HIDE DEF h, j
<1>5. Hunks'
  BY <1>1, <1>3 DEF Hunks
<1>6. ASSUME ~odd, InStep, ~odd'
      PROVE  InStep'
  <2>1. \A f : Signal!TrulyRemoved(f)' = Signal!TrulyRemoved(f)
    <3> SUFFICES ASSUME NEW f PROVE Signal!TrulyRemoved(f)' = Signal!TrulyRemoved(f)
      OBVIOUS
    <3>1. \A n : n \in Signal!TrulyRemoved(f)' <=>
                 \E k \in DOMAIN hunks' : hunks'[k].file = f /\ n \in hunks'[k].removed
      BY DEF Signal!TrulyRemoved, Signal!AllHunks
    <3>2. \A k \in DOMAIN hunks : hunks'[k].file = hunks[k].file
                                  /\ hunks'[k].removed = hunks[k].removed
      BY <1>3, <1>4
    <3>3. \A n : n \in Signal!TrulyRemoved(f) <=>
                 \E k \in DOMAIN hunks : hunks[k].file = f /\ n \in hunks[k].removed
      BY HunksSay
    <3>4. ASSUME NEW n PROVE n \in Signal!TrulyRemoved(f)' <=> n \in Signal!TrulyRemoved(f)
      BY <1>3, <3>1, <3>2, <3>3
    <3>5. QED
      BY <3>4
  <2>2. \A f : Signal!TrueContext(f)' =
                 IF f = file THEN Signal!TrueContext(f) \cup {at} ELSE Signal!TrueContext(f)
    <3> SUFFICES ASSUME NEW f
                 PROVE  Signal!TrueContext(f)' =
                   IF f = file THEN Signal!TrueContext(f) \cup {at} ELSE Signal!TrueContext(f)
      OBVIOUS
    <3>1. \A n : n \in Signal!TrueContext(f)' <=>
                 \E k \in DOMAIN hunks' : hunks'[k].file = f /\ n \in hunks'[k].context
      BY DEF Signal!TrueContext, Signal!AllHunks
    <3>2. \A n : n \in Signal!TrueContext(f) <=>
                 \E k \in DOMAIN hunks : hunks[k].file = f /\ n \in hunks[k].context
      BY HunksSay
    <3>3. /\ \A k \in DOMAIN hunks \ {j} : hunks'[k] = hunks[k]
          /\ hunks'[j].file = file /\ hunks[j].file = file
          /\ hunks'[j].context = hunks[j].context \cup {at} /\ j \in DOMAIN hunks
      BY <1>3, <1>4
    <3>4. ASSUME NEW n
          PROVE  n \in Signal!TrueContext(f)' <=>
                   n \in Signal!TrueContext(f) \/ (f = file /\ n = at)
      BY <1>3, <3>1, <3>2, <3>3
    <3>5. QED
      BY <3>4
  <2>3. /\ cur = file /\ old_ln = at
        /\ \A f \in DiffFile :
             /\ removed[f] = Signal!TrulyRemoved(f)
             /\ Signal!TrulyRemoved(f) = {} => context[f] = Signal!TrueContext(f)
    BY <1>1, <1>6 DEF InStep
  <2>4. /\ removed' = removed /\ old_ln' = at'
        /\ context' = [context EXCEPT ![file] = @ \cup {at}]
    BY <1>1, <1>2, <2>3 DEF Signal!ReadContext
  <2>5. \A f \in DiffFile : context'[f] = IF f = file THEN context[f] \cup {at} ELSE context[f]
    <3>1. context \in [DiffFile -> SUBSET Nat]
      BY DEF SignalTypes, Signal!TypeOK
    <3>2. QED
      BY <2>4, <3>1
  <2>6. QED
    BY <1>1, <2>1, <2>2, <2>3, <2>4, <2>5 DEF InStep
<1>7. QED
  BY <1>5, <1>6

(* A line removed is one more of those removed from its file. *)
LEMMA RemovedIsRead ==
  ASSUME SignalTypes, Signal!WriteRemoved
  PROVE  Hunks' /\ (~odd /\ InStep /\ ~odd' => InStep')
<1> DEFINE h == [Signal!Hunk EXCEPT !.removed = @ \cup {at}]
           j == Len(hunks)
<1>1. /\ inside /\ at \in Signal!Line /\ at \in Nat /\ file \in DiffFile
      /\ at' = at + 1 /\ UNCHANGED <<file, inside, cur>>
  BY LineIsWritten
<1>2. Signal!InHunk(h) /\ (~odd' => Signal!ReadRemoved)
  BY DEF Signal!WriteRemoved
<1>3. /\ hunks' \in Seq(HunkType) /\ hunks' # <<>> /\ Len(hunks') = j
      /\ j \in DOMAIN hunks /\ hunks'[j] = h
      /\ h.file = file /\ hunks[j] = Signal!Hunk
      /\ \A k \in DOMAIN hunks \ {j} : hunks'[k] = hunks[k]
      /\ DOMAIN hunks' = DOMAIN hunks
  BY <1>1, <1>2, HunkGrows
<1>4. h.context = Signal!Hunk.context /\ h.removed = Signal!Hunk.removed \cup {at}
      /\ Signal!Hunk.file = file
  <2>1. Signal!Hunk \in HunkType /\ Signal!Hunk.file = file
    BY <1>1, <1>3 DEF SignalTypes
  <2>2. QED
    BY <2>1 DEF HunkType
<1> HIDE DEF h, j
<1>5. Hunks'
  BY <1>1, <1>3 DEF Hunks
<1>6. ASSUME ~odd, InStep, ~odd'
      PROVE  InStep'
  <2>1. \A f : Signal!TrueContext(f)' = Signal!TrueContext(f)
    <3> SUFFICES ASSUME NEW f PROVE Signal!TrueContext(f)' = Signal!TrueContext(f)
      OBVIOUS
    <3>1. \A n : n \in Signal!TrueContext(f)' <=>
                 \E k \in DOMAIN hunks' : hunks'[k].file = f /\ n \in hunks'[k].context
      BY DEF Signal!TrueContext, Signal!AllHunks
    <3>2. \A k \in DOMAIN hunks : hunks'[k].file = hunks[k].file
                                  /\ hunks'[k].context = hunks[k].context
      BY <1>3, <1>4
    <3>3. \A n : n \in Signal!TrueContext(f) <=>
                 \E k \in DOMAIN hunks : hunks[k].file = f /\ n \in hunks[k].context
      BY HunksSay
    <3>4. ASSUME NEW n PROVE n \in Signal!TrueContext(f)' <=> n \in Signal!TrueContext(f)
      BY <1>3, <3>1, <3>2, <3>3
    <3>5. QED
      BY <3>4
  <2>2. \A f : Signal!TrulyRemoved(f)' =
                 IF f = file THEN Signal!TrulyRemoved(f) \cup {at} ELSE Signal!TrulyRemoved(f)
    <3> SUFFICES ASSUME NEW f
                 PROVE  Signal!TrulyRemoved(f)' =
                   IF f = file THEN Signal!TrulyRemoved(f) \cup {at} ELSE Signal!TrulyRemoved(f)
      OBVIOUS
    <3>1. \A n : n \in Signal!TrulyRemoved(f)' <=>
                 \E k \in DOMAIN hunks' : hunks'[k].file = f /\ n \in hunks'[k].removed
      BY DEF Signal!TrulyRemoved, Signal!AllHunks
    <3>2. \A n : n \in Signal!TrulyRemoved(f) <=>
                 \E k \in DOMAIN hunks : hunks[k].file = f /\ n \in hunks[k].removed
      BY HunksSay
    <3>3. /\ \A k \in DOMAIN hunks \ {j} : hunks'[k] = hunks[k]
          /\ hunks'[j].file = file /\ hunks[j].file = file
          /\ hunks'[j].removed = hunks[j].removed \cup {at} /\ j \in DOMAIN hunks
      BY <1>3, <1>4
    <3>4. ASSUME NEW n
          PROVE  n \in Signal!TrulyRemoved(f)' <=>
                   n \in Signal!TrulyRemoved(f) \/ (f = file /\ n = at)
      BY <1>3, <3>1, <3>2, <3>3
    <3>5. QED
      BY <3>4
  <2>3. /\ cur = file /\ old_ln = at
        /\ \A f \in DiffFile :
             /\ removed[f] = Signal!TrulyRemoved(f)
             /\ Signal!TrulyRemoved(f) = {} => context[f] = Signal!TrueContext(f)
    BY <1>1, <1>6 DEF InStep
  <2>4. /\ context' = context /\ old_ln' = at'
        /\ removed' = [removed EXCEPT ![file] = @ \cup {at}]
    BY <1>1, <1>2, <1>6, <2>3 DEF Signal!ReadRemoved
  <2>5. \A f \in DiffFile : removed'[f] = IF f = file THEN removed[f] \cup {at} ELSE removed[f]
    <3>1. removed \in [DiffFile -> SUBSET Nat]
      BY DEF SignalTypes, Signal!TypeOK
    <3>2. QED
      BY <2>4, <3>1
  <2>6. QED
    BY <1>1, <2>1, <2>2, <2>3, <2>4, <2>5 DEF InStep
<1>7. QED
  BY <1>5, <1>6

(* A line added is nothing to the pristine file. *)
LEMMA AddedIsRead ==
  ASSUME SignalTypes, Signal!WriteAdded
  PROVE  /\ Positions' /\ Readings' /\ Hunks'
         /\ ~odd /\ InStep /\ ~odd' => InStep'
<1> USE DEF Signal!ReadHeader, Signal!ReadNothing, Signal!reader
<1>0. Known
  BY BeforeWriting DEF Writing
<1>1. /\ UNCHANGED <<file, at, inside, hunks, old_ln, removed, context>>
      /\ cur' \in DiffFile \cup {cur} /\ (~odd' => cur' = cur)
  BY DEF Signal!WriteAdded
<1>2. Positions'
  <2>1. odd \in BOOLEAN
    BY <1>0 DEF Known
  <2>2. odd' \in BOOLEAN
    BY <2>1, Zenon DEF Signal!WriteAdded
  <2>3. QED
    BY <2>2, <1>0, <1>1 DEF Positions, Known
<1>3. Readings'
  BY <1>0, <1>1 DEF Readings, Known
<1>4. Hunks'
  BY <1>0, <1>1 DEF Hunks, SignalTypes, Known
<1>5. ASSUME ~odd, InStep, ~odd'
      PROVE  InStep'
  <2>1. \A f : Signal!TrulyRemoved(f)' = Signal!TrulyRemoved(f)
               /\ Signal!TrueContext(f)' = Signal!TrueContext(f)
    BY <1>1 DEF Signal!TrulyRemoved, Signal!TrueContext, Signal!AllHunks
  <2>2. QED
    BY <1>1, <1>5, <2>1 DEF InStep
<1>6. QED
  BY <1>2, <1>3, <1>4, <1>5

(* The diff is read as it is written. *)
LEMMA WritingIsRead ==
  ASSUME SignalTypes, Signal!ReaderInStep, Writing
  PROVE  SignalTypes' /\ Signal!ReaderInStep' /\ uncertainty' = <<>>
<1>1. Positions' /\ Readings' /\ Hunks' /\ (~odd /\ InStep /\ ~odd' => InStep')
  <2>1. CASE Signal!WriteHeader \/ Signal!WriteGitHeader
    BY <2>1, HeaderIsRead
  <2>2. CASE Signal!WriteHunk
    BY <2>2, HunkIsRead
  <2>3. CASE Signal!WriteContext
    BY <2>3, LineIsWritten, ContextIsRead
  <2>4. CASE Signal!WriteRemoved
    BY <2>4, LineIsWritten, RemovedIsRead
  <2>5. CASE Signal!WriteAdded
    BY <2>5, AddedIsRead
  <2>6. QED
    BY <2>1, <2>2, <2>3, <2>4, <2>5 DEF Writing
<1>2. ~odd' => ~odd
  BY DEF Writing, Signal!WriteHeader, Signal!WriteGitHeader, Signal!WriteHunk,
         Signal!WriteContext, Signal!WriteRemoved, Signal!WriteAdded
<1>3. ~odd => InStep
  BY DEF Signal!ReaderInStep, InStep
<1>4. ~odd' => InStep'
  BY <1>1, <1>2, <1>3
<1>5. Signal!ReaderInStep'
  BY <1>4 DEF Signal!ReaderInStep, InStep
<1>6. QED
  BY <1>1, <1>5, BeforeWriting, PartsAreTypes

(* An instance of a module has the finite sets and the cardinalities of its own. *)
LEMMA SameCounting ==
  ASSUME NEW S
  PROVE  /\ Signal!IsFiniteSet(S) <=> IsFiniteSet(S)
         /\ Signal!Cardinality(S) = Cardinality(S)
<1>1. Signal!IsFiniteSet(S) <=> IsFiniteSet(S)
  BY DEF Signal!IsFiniteSet, IsFiniteSet
<1>2. Signal!Cardinality(S) = Cardinality(S)
  BY Zenon DEF Signal!Cardinality, Cardinality
<1>3. QED
  BY <1>1, <1>2

(* The code a diff touches is finite: it lies within the lines of its files. *)
LEMMA CodeIsFinite ==
  ASSUME NEW C, C \subseteq DiffFile \X Signal!Line
  PROVE  /\ IsFiniteSet(C) /\ Cardinality(C) \in Nat
         /\ C # {} => Cardinality(C) # 0
<1>1. IsFiniteSet(DiffFile) /\ Lines \in Nat
  BY SignalAssumption, SameCounting DEF Signal!CoverageSignalAssumption
<1>2. IsFiniteSet(1 .. Lines)
  BY <1>1, FS_Interval
<1>3. IsFiniteSet(Signal!Line)
  BY <1>2 DEF Signal!Line
<1>4. IsFiniteSet(DiffFile \X Signal!Line)
  BY <1>1, <1>3, FS_Product
<1>5. IsFiniteSet(C)
  BY <1>4, FS_Subset
<1>6. Cardinality(C) \in Nat
  BY <1>5, FS_CardinalityType
<1>7. Cardinality(C) = 0 <=> C = {}
  BY <1>5, FS_EmptySet
<1>8. QED
  BY <1>5, <1>6, <1>7

(* The lines that are scored are lines of code of the files that are measured. *)
LEMMA TouchedIsCode ==
  ASSUME NEW W, NEW runs, DOMAIN runs \subseteq DiffFile
  PROVE  Signal!TouchedCode(W, runs) \subseteq DiffFile \X Signal!Line
<1>1. Executable \subseteq Signal!Line
  BY SignalAssumption DEF Signal!CoverageSignalAssumption
<1>2. QED
  BY <1>1 DEF Signal!TouchedCode

(* What was judged is what the branch touches, and the tests have been measured  *)
(* to run.                                                                       *)
Verdict(code, ran) ==
  IF code = {} THEN <<0, 1>>
  ELSE <<Cardinality(code \ ran) * FullScale, Cardinality(code)>>

Scored == Signal!TouchedCode(whole, executed)

Judged == uncertainty # <<>> =>
            uncertainty = Verdict(Scored, Signal!Ran(Scored, executed))

SInv == SignalTypes /\ Signal!ReaderInStep /\ Judged

(* A verdict is a numerator and a denominator. *)
LEMMA VerdictIs ==
  ASSUME NEW C, C \subseteq DiffFile \X Signal!Line, NEW R
  PROVE  Verdict(C, R) \in Nat \X (Nat \ {0})
<1>1. FullScale \in Nat
  BY SignalAssumption DEF Signal!CoverageSignalAssumption
<1>2. Cardinality(C) \in Nat /\ (C # {} => Cardinality(C) # 0)
  BY CodeIsFinite
<1>3. C \ R \subseteq DiffFile \X Signal!Line
  OBVIOUS
<1>4. Cardinality(C \ R) \in Nat
  BY <1>3, CodeIsFinite
<1> DEFINE c == Cardinality(C)
           u == Cardinality(C \ R)
<1> HIDE DEF c, u
<1>5. u \in Nat /\ c \in Nat /\ (C # {} => c # 0)
  BY <1>2, <1>4 DEF c, u
<1>6. u * FullScale \in Nat
  BY <1>1, <1>5
<1>7. Verdict(C, R) = IF C = {} THEN <<0, 1>> ELSE <<u * FullScale, c>>
  BY DEF Verdict, c, u
<1>8. QED
  BY <1>5, <1>6, <1>7

(* The judgment comes after the last line. *)
LEMMA JudgeJudges ==
  ASSUME SInv, Signal!Judge
  PROVE  SInv'
<1>1. UNCHANGED <<file, at, inside, hunks, odd, written, cur, old_ln, removed, context>>
  BY DEF Signal!Judge, Signal!writer, Signal!reader
<1>2. PICK rewritten \in SUBSET DiffFile, measured \in SUBSET DiffFile :
        \E runs \in [measured -> SUBSET Executable] :
          LET code == Signal!TouchedCode(rewritten, runs) IN
          /\ whole' = rewritten /\ executed' = runs
          /\ uncertainty' = IF code = {} THEN <<0, 1>>
                            ELSE <<Signal!Uncovered(code, runs) * FullScale,
                                   Signal!Cardinality(code)>>
  BY DEF Signal!Judge
<1>3. PICK runs \in [measured -> SUBSET Executable] :
        LET code == Signal!TouchedCode(rewritten, runs) IN
        /\ whole' = rewritten /\ executed' = runs
        /\ uncertainty' = IF code = {} THEN <<0, 1>>
                          ELSE <<Signal!Uncovered(code, runs) * FullScale,
                                 Signal!Cardinality(code)>>
  BY <1>2
<1> DEFINE code == Signal!TouchedCode(rewritten, runs)
<1>4. Signal!Uncovered(code, runs) = Cardinality(code \ Signal!Ran(code, runs))
      /\ Signal!Cardinality(code) = Cardinality(code)
  BY SameCounting DEF Signal!Uncovered
<1>5. uncertainty' = Verdict(code, Signal!Ran(code, runs))
  BY <1>3, <1>4 DEF Verdict
<1>6. Scored' = code
  BY <1>1, <1>3 DEF Scored, Signal!TouchedCode, Signal!Changed
<1>7. Judged'
  BY <1>3, <1>5, <1>6 DEF Judged, Signal!Ran
<1>8. uncertainty' \in Nat \X (Nat \ {0})
  <2>1. code \subseteq DiffFile \X Signal!Line
    BY TouchedIsCode
  <2>2. QED
    BY <1>5, <2>1, VerdictIs
<1>9. Signal!AllHunks' = Signal!AllHunks
  BY <1>1 DEF Signal!AllHunks
<1>10. Signal!TypeOK'
  BY <1>1, <1>3, <1>8, <1>9 DEF SInv, SignalTypes, Signal!TypeOK
<1>11. SignalTypes'
  BY <1>1, <1>10 DEF SInv, SignalTypes
<1>12. Signal!ReaderInStep'
  BY <1>1, <1>9 DEF SInv, Signal!ReaderInStep, Signal!TrulyRemoved, Signal!TrueContext
<1>13. QED
  BY <1>7, <1>11, <1>12 DEF SInv

(* Nothing has been written, read or judged at first. *)
LEMMA SignalStarts == Signal!Init => SInv
<1> SUFFICES ASSUME Signal!Init PROVE SInv
  OBVIOUS
<1>1. /\ file = Signal!NoFile /\ at = 0 /\ inside = FALSE /\ hunks = <<>> /\ odd = FALSE
      /\ written = 0 /\ cur = Signal!NoFile /\ old_ln = 0 /\ uncertainty = <<>>
      /\ removed = [f \in DiffFile |-> {}] /\ context = [f \in DiffFile |-> {}]
      /\ executed = [f \in DiffFile |-> {}] /\ whole = {}
  BY DEF Signal!Init
<1>2. Lines \in Nat /\ MaxDiff \in Nat
  BY SignalAssumption DEF Signal!CoverageSignalAssumption
<1>3. Signal!AllHunks = {} /\ hunks \in Seq(HunkType)
  BY <1>1 DEF Signal!AllHunks
<1>4. at \in 0 .. Lines + 1 /\ written \in 0 .. MaxDiff
  BY <1>1, <1>2
<1>5. Signal!TypeOK
  BY <1>1, <1>3, <1>4 DEF Signal!TypeOK
<1>6. SignalTypes
  BY <1>1, <1>3, <1>5 DEF SignalTypes
<1>7. Signal!ReaderInStep
  BY <1>1, <1>3 DEF Signal!ReaderInStep, Signal!TrulyRemoved, Signal!TrueContext
<1>8. QED
  BY <1>1, <1>6, <1>7 DEF SInv, Judged

(* No line, no judgment and no stutter breaks the invariant. *)
LEMMA SignalSteps == SInv /\ [Signal!Next]_Signal!vars => SInv'
<1> SUFFICES ASSUME SInv, [Signal!Next]_Signal!vars PROVE SInv'
  OBVIOUS
<1>1. CASE Writing
  BY <1>1, WritingIsRead DEF SInv, Judged
<1>2. CASE Signal!Judge
  BY <1>2, JudgeJudges
<1>3. CASE UNCHANGED Signal!vars
  <2>1. UNCHANGED <<file, at, inside, hunks, odd, written, cur, old_ln, removed, context,
                    whole, executed, uncertainty>>
    BY <1>3 DEF Signal!vars, Signal!writer, Signal!reader, Signal!judgment
  <2>2. SignalTypes'
    BY <2>1 DEF SInv, SignalTypes, Signal!TypeOK, Signal!AllHunks
  <2>3. Signal!ReaderInStep'
    BY <2>1 DEF SInv, Signal!ReaderInStep, Signal!TrulyRemoved, Signal!TrueContext,
                Signal!AllHunks
  <2>4. Judged'
    BY <2>1 DEF SInv, Judged, Scored, Signal!TouchedCode, Signal!Changed, Signal!Ran
  <2>5. QED
    BY <2>2, <2>3, <2>4 DEF SInv
<1>4. QED
  BY <1>1, <1>2, <1>3 DEF Signal!Next, Writing

(* The two ways to say that a share is below a bound. *)
LEMMA TwoShares ==
  ASSUME NEW c \in Nat, NEW v \in Nat, NEW u \in Nat, u = c - v,
         NEW full \in Nat, NEW max \in Nat
  PROVE  u * full > max * c <=> v * full < (full - max) * c
<1>1. u * full = c * full - v * full
  OBVIOUS
<1>2. (full - max) * c = c * full - max * c
  OBVIOUS
<1>3. c * full \in Int /\ v * full \in Int /\ max * c \in Int
  OBVIOUS
<1>4. QED
  BY <1>1, <1>2, <1>3

(* A change is held exactly when too little of it is covered. *)
LEMMA HeldWhenUntested == SInv => Signal!UntestedChangeIsHeld
<1> DEFINE code    == Signal!ChangedCode
           covered == {t \in code : t[2] \in executed[t[1]]}
           c == Cardinality(code)
           v == Cardinality(covered)
           u == Cardinality(code \ covered)
<1> SUFFICES ASSUME SInv, uncertainty # <<>>, ~odd \/ DOMAIN executed \subseteq whole
             PROVE  IF code = {} THEN uncertainty[1] = 0
                    ELSE uncertainty[1] > UMax * uncertainty[2]
                           <=> v * FullScale < (FullScale - UMax) * c
  BY SameCounting DEF Signal!UntestedChangeIsHeld
<1>1. \A f \in DOMAIN executed : Signal!Changed(f, whole) = Signal!TrulyChanged(f)
  BY DEF SInv, SignalTypes, Signal!TypeOK, Signal!ReaderInStep, Signal!Changed,
         Signal!TrulyChanged
<1>2. Scored = code
  BY <1>1 DEF Scored, Signal!TouchedCode, Signal!ChangedCode
<1>3. Signal!Ran(Scored, executed) = covered
  BY <1>2 DEF Signal!Ran
<1>4. code \subseteq DiffFile \X Signal!Line /\ covered \subseteq code
  <2>1. DOMAIN executed \subseteq DiffFile
    BY DEF SInv, SignalTypes, Signal!TypeOK
  <2>2. Scored \subseteq DiffFile \X Signal!Line
    BY <2>1, TouchedIsCode DEF Scored
  <2>3. QED
    BY <1>2, <2>2
<1> HIDE DEF code, covered
<1>5. uncertainty = IF code = {} THEN <<0, 1>> ELSE <<u * FullScale, c>>
  BY <1>2, <1>3 DEF SInv, Judged, Verdict
<1>6. IsFiniteSet(code) /\ c \in Nat
  BY <1>4, CodeIsFinite
<1>7. covered \subseteq DiffFile \X Signal!Line /\ code \ covered \subseteq DiffFile \X Signal!Line
  BY <1>4
<1>8. IsFiniteSet(covered) /\ v \in Nat
  BY <1>7, CodeIsFinite
<1>9. u \in Nat
  BY <1>7, CodeIsFinite
<1>10. u = c - Cardinality(code \cap covered)
  BY <1>6, <1>8, FS_Difference
<1>11. code \cap covered = covered
  BY <1>4
<1>12. u = c - v
  BY <1>10, <1>11
<1>13. FullScale \in Nat /\ UMax \in Nat
  BY SignalAssumption DEF Signal!CoverageSignalAssumption
<1> HIDE DEF c, v, u
<1>14. u * FullScale > UMax * c <=> v * FullScale < (FullScale - UMax) * c
  BY <1>6, <1>8, <1>9, <1>12, <1>13, TwoShares
<1>15. CASE code = {}
  BY <1>5, <1>15
<1>16. CASE code # {}
  <2>1. uncertainty[1] = u * FullScale /\ uncertainty[2] = c
    BY <1>5, <1>16
  <2>2. QED
    BY <1>14, <1>16, <2>1
<1>17. QED
  BY <1>15, <1>16

(* The lines a diff removes or keeps are read as those of the file and of the  *)
(* number they have, while no line misleads; and a change, by a diff or by a   *)
(* rewrite in full, of whose code the tests run too little is above u_max,     *)
(* whatever the hunks and the files that were measured                         *)
(* (changed_lines, coverage_fraction, coverage_uncertainty).                   *)
THEOREM SignalsAreRight == Signal!Spec => []SignalIsRight
<1>1. SInv => SignalIsRight
  BY HeldWhenUntested
     DEF SInv, SignalTypes, SignalIsRight, Signal!SignalIsRight, Signal!DiffsAreReadRight
<1>2. QED
  BY <1>1, SignalStarts, SignalSteps, PTL DEF Signal!Spec

(***************************************************************************)
(* The sandbox.  The call that runs a patched copy, whatever was mapped,   *)
(* asked for, added, taken away, broken or hanging.                        *)
(***************************************************************************)
(* What the run is to run; and that it passed. *)
Asked  == IF affected = {} THEN present ELSE affected
Earned == Asked # {} /\ Asked \subseteq present \ (fails \cup hangs)

BeforeTheRun == {"collect", "call", "copy", "choose", "launch"}

(* What has run so far has passed, and is in the patched tree. *)
RunsSoFar ==
  /\ call \in BeforeTheRun \cup {"running"} => ~passed /\ failed = {}
  /\ call = "running" /\ affected \subseteq present =>
       queue \subseteq Asked /\ Asked \ queue \subseteq present \ (fails \cup hangs)

(* What the result will say. *)
Outcome ==
  /\ passed => Earned
  /\ failed # {} => ~passed /\ \E t \in fails : failed = {t}
  /\ call \notin {"collect", "call"} /\ asks = "edited" =>
       affected = Suite!affected_tests(edited)

(* The container is there from its launch to its removal, if Docker allows.  *)
Leftovers ==
  /\ how \in {"returned", "raised"}
  /\ call \in BeforeTheRun => ~container
  /\ container => backend = "docker"
  /\ call \in {"clean", "raised", "returned"} /\ container => how = "raised"
  /\ call \in {"raised", "returned"} => ~scratch /\ call = how

SandboxInv == RunsSoFar /\ Outcome /\ Leftovers

(* The steps that do not touch what is said of the tests. *)
Untold == UNCHANGED <<present, fails, hangs, asks, edited, affected, tests_map>>

(* Whatever leaves the call goes to the container first. *)
LEMMA LeavingIsClean ==
  ASSUME Leftovers, call \notin {"clean", "raised", "returned"}, NEW h \in {"returned", "raised"},
         Suite!Leave(h),
         UNCHANGED <<backend, container>>
  PROVE  Leftovers' /\ call' \in {"remove", "clean"}
BY DEF Leftovers, Suite!Leave, BeforeTheRun

(* A verdict is a pass that was earned, or blames nobody but a failing test. *)
LEMMA VerdictIsTold ==
  ASSUME SandboxInv, call \notin {"collect", "call", "clean", "raised", "returned"},
         NEW good, NEW F, Suite!Verdict(good, F), Untold, UNCHANGED <<backend, container>>,
         good => Earned,
         F # {} => ~good /\ \E t \in fails : F = {t}
  PROVE  SandboxInv'
<1>1. passed' = good /\ failed' = F /\ Suite!Leave("returned")
  BY DEF Suite!Verdict
<1>2. Leftovers' /\ call' \in {"remove", "clean"}
  BY <1>1, LeavingIsClean DEF SandboxInv
<1>3. Earned' = Earned
  BY DEF Untold, Earned, Asked
<1>4. Suite!affected_tests(edited)' = Suite!affected_tests(edited)
  BY DEF Untold, Suite!affected_tests
<1>5. Outcome'
  BY <1>1, <1>2, <1>3, <1>4 DEF SandboxInv, Outcome, Untold
<1>6. RunsSoFar'
  BY <1>2 DEF RunsSoFar, BeforeTheRun
<1>7. QED
  BY <1>2, <1>5, <1>6 DEF SandboxInv

(* An exception tells nothing. *)
LEMMA RaisingTellsNothing ==
  ASSUME SandboxInv, call \notin {"collect", "call", "clean", "raised", "returned"},
         Suite!Leave("raised"), Untold, UNCHANGED <<backend, container, passed, failed>>
  PROVE  SandboxInv'
<1>1. Leftovers' /\ call' \in {"remove", "clean"}
  BY LeavingIsClean DEF SandboxInv
<1>2. Earned' = Earned /\ Suite!affected_tests(edited)' = Suite!affected_tests(edited)
  BY DEF Untold, Earned, Asked, Suite!affected_tests
<1>3. Outcome'
  BY <1>1, <1>2 DEF SandboxInv, Outcome, Untold
<1>4. RunsSoFar'
  BY <1>1 DEF RunsSoFar, BeforeTheRun
<1>5. QED
  BY <1>1, <1>3, <1>4 DEF SandboxInv

(* Nothing has run, nothing exists. *)
LEMMA SandboxStarts == Suite!Init => SandboxInv
BY DEF Suite!Init, SandboxInv, RunsSoFar, Outcome, Leftovers, BeforeTheRun

(* The steps up to the run. *)
LEMMA PreparingKeeps ==
  ASSUME SandboxInv,
         \/ Suite!build_test_map \/ Suite!Call \/ Suite!Choose \/ Suite!Launch
         \/ Suite!Copy /\ call' = "choose"
  PROVE  SandboxInv'
<1>1. /\ call \in BeforeTheRun /\ call' \in BeforeTheRun \cup {"running"}
      /\ UNCHANGED <<passed, failed>>
  BY DEF Suite!build_test_map, Suite!Call, Suite!Copy, Suite!Choose, Suite!Launch, BeforeTheRun,
         Suite!run_vars
<1>2. ~passed /\ failed = {} /\ ~passed' /\ failed' = {}
  BY <1>1 DEF SandboxInv, RunsSoFar
<1>3. ~container
  BY <1>1 DEF SandboxInv, Leftovers
<1>4. /\ container' => call' = "running" /\ backend' = "docker"
  BY <1>3 DEF Suite!build_test_map, Suite!Call, Suite!Copy, Suite!Choose, Suite!Launch
<1>5. how' = how /\ how \in {"returned", "raised"}
  BY DEF Suite!build_test_map, Suite!Call, Suite!Copy, Suite!Choose, Suite!Launch, Suite!run_vars,
         Suite!Leave, SandboxInv, Leftovers
<1>6. Leftovers'
  BY <1>1, <1>4, <1>5 DEF Leftovers, BeforeTheRun
<1>7. call' = "running" => queue' = Asked'
  BY <1>1 DEF Suite!build_test_map, Suite!Call, Suite!Copy, Suite!Choose, Suite!Launch, Asked,
              Suite!tree_vars, Suite!call_vars
<1>8. RunsSoFar'
  BY <1>2, <1>7 DEF RunsSoFar
<1>9. call' \notin {"collect", "call"} /\ asks' = "edited" =>
        affected' = Suite!affected_tests(edited)'
  <2>1. CASE Suite!build_test_map
    BY <2>1 DEF Suite!build_test_map
  <2>2. CASE Suite!Call
    BY <2>2 DEF Suite!Call, Suite!affected_tests
  <2>3. CASE Suite!Choose \/ Suite!Launch \/ Suite!Copy
    <3>1. /\ UNCHANGED <<asks, edited, affected, tests_map>>
          /\ call \notin {"collect", "call"}
      BY <2>3 DEF Suite!Choose, Suite!Launch, Suite!Copy, Suite!tree_vars, Suite!call_vars
    <3>2. QED
      BY <3>1 DEF SandboxInv, Outcome, Suite!affected_tests
  <2>4. QED
    BY <2>1, <2>2, <2>3
<1>10. Outcome'
  BY <1>2, <1>9 DEF Outcome
<1>11. QED
  BY <1>6, <1>8, <1>10 DEF SandboxInv

(* The run itself: the next test passes, or the run is over. *)
LEMMA RunningKeeps ==
  ASSUME SandboxInv,
         \/ Suite!Refused \/ Suite!TestPasses \/ Suite!TestFails \/ Suite!AllRan
         \/ Suite!Timeout
  PROVE  SandboxInv'
<1>1. /\ call = "running" /\ Untold /\ UNCHANGED <<backend, container>>
  BY DEF Suite!Refused, Suite!TestPasses, Suite!TestFails, Suite!AllRan, Suite!Timeout,
         Suite!Running, Suite!tree_vars, Suite!call_vars, Untold
<1>2. ~passed /\ failed = {}
  BY <1>1 DEF SandboxInv, RunsSoFar
<1>3. CASE Suite!Refused
  <2>1. Suite!Verdict(FALSE, {})
    BY <1>3 DEF Suite!Refused
  <2>2. QED
    BY <1>1, <2>1, VerdictIsTold
<1>4. CASE Suite!TestPasses
  <2>1. PICK t \in queue \ (fails \cup hangs) : queue' = queue \ {t}
    BY <1>4 DEF Suite!TestPasses
  <2>2. /\ affected \subseteq present
        /\ UNCHANGED <<call, passed, failed, how, scratch>>
    BY <1>4 DEF Suite!TestPasses, Suite!Running
  <2>3. queue \subseteq Asked /\ Asked \ queue \subseteq present \ (fails \cup hangs)
    BY <1>1, <2>2 DEF SandboxInv, RunsSoFar
  <2>4. t \in present
    BY <2>1, <2>2, <2>3 DEF Asked
  <2>5. Asked' = Asked /\ Earned' = Earned
    BY <1>1 DEF Untold, Asked, Earned
  <2>6. queue' \subseteq Asked /\ Asked \ queue' \subseteq present \ (fails \cup hangs)
    BY <2>1, <2>3, <2>4
  <2>7. RunsSoFar'
    BY <1>1, <1>2, <2>2, <2>5, <2>6 DEF RunsSoFar, Untold
  <2>8. Outcome'
    BY <1>1, <1>2, <2>2 DEF SandboxInv, Outcome, Untold, Suite!affected_tests
  <2>9. Leftovers'
    BY <1>1, <2>2 DEF SandboxInv, Leftovers
  <2>10. QED
    BY <2>7, <2>8, <2>9 DEF SandboxInv
<1>5. CASE Suite!TestFails
  <2>1. PICK t \in (queue \cap fails) \ hangs : Suite!Verdict(FALSE, {t})
    BY <1>5 DEF Suite!TestFails
  <2>2. QED
    BY <1>1, <2>1, VerdictIsTold
<1>6. CASE Suite!AllRan
  <2>1. /\ affected \subseteq present /\ queue = {}
        /\ Suite!Verdict(failed = {} /\ (affected # {} \/ present # {}), failed)
    BY <1>6 DEF Suite!AllRan, Suite!Running
  <2>2. Asked \subseteq present \ (fails \cup hangs)
    BY <1>1, <2>1 DEF SandboxInv, RunsSoFar
  <2>3. affected # {} \/ present # {} => Asked # {}
    BY DEF Asked
  <2>4. failed = {} /\ (affected # {} \/ present # {}) => Earned
    BY <2>2, <2>3 DEF Earned
  <2>5. QED
    BY <1>1, <1>2, <2>1, <2>4, VerdictIsTold
<1>7. CASE Suite!Timeout
  <2>1. CASE Suite!Verdict(FALSE, {})
    BY <1>1, <2>1, VerdictIsTold
  <2>2. CASE Suite!Leave("raised") /\ UNCHANGED <<passed, failed>>
    BY <1>1, <2>2, RaisingTellsNothing
  <2>3. QED
    BY <1>7, <2>1, <2>2 DEF Suite!Timeout
<1>8. QED
  BY <1>3, <1>4, <1>5, <1>6, <1>7

(* What is left is removed on every way out. *)
LEMMA CleaningKeeps ==
  ASSUME SandboxInv, Suite!Remove \/ Suite!Clean
  PROVE  SandboxInv'
<1>1. /\ call \in {"remove", "clean"} /\ Untold /\ UNCHANGED <<backend, passed, failed>>
  BY DEF Suite!Remove, Suite!Clean, Suite!tree_vars, Suite!call_vars, Suite!run_vars, Untold
<1>2. call' \in {"clean", "returned", "raised"}
  BY DEF SandboxInv, Leftovers, Suite!Remove, Suite!Clean
<1>3. Leftovers'
  <2>1. CASE Suite!Remove
    BY <2>1 DEF SandboxInv, Leftovers, Suite!Remove, BeforeTheRun
  <2>2. CASE Suite!Clean
    BY <2>2 DEF SandboxInv, Leftovers, Suite!Clean, Suite!run_vars, BeforeTheRun
  <2>3. QED
    BY <2>1, <2>2
<1>4. Earned' = Earned /\ Suite!affected_tests(edited)' = Suite!affected_tests(edited)
  BY <1>1 DEF Untold, Earned, Asked, Suite!affected_tests
<1>5. Outcome'
  BY <1>1, <1>2, <1>4 DEF SandboxInv, Outcome, Untold
<1>6. RunsSoFar'
  BY <1>2 DEF RunsSoFar, BeforeTheRun
<1>7. QED
  BY <1>3, <1>5, <1>6 DEF SandboxInv

(* No step of a call breaks the invariant. *)
LEMMA SandboxSteps == SandboxInv /\ [Suite!Next]_Suite!vars => SandboxInv'
<1> SUFFICES ASSUME SandboxInv, [Suite!Next]_Suite!vars PROVE SandboxInv'
  OBVIOUS
<1>1. CASE \/ Suite!build_test_map \/ Suite!Call \/ Suite!Choose \/ Suite!Launch
           \/ Suite!Copy /\ call' = "choose"
  BY <1>1, PreparingKeeps
<1>2. CASE Suite!LaunchRaises \/ (Suite!Copy /\ call' # "choose")
  <2>1. /\ call \in {"copy", "launch"} /\ Suite!Leave("raised") /\ Untold
        /\ UNCHANGED <<backend, container, passed, failed>>
    BY <1>2 DEF Suite!LaunchRaises, Suite!Copy, Suite!tree_vars, Suite!call_vars, Untold
  <2>2. QED
    BY <2>1, RaisingTellsNothing
<1>3. CASE \/ Suite!Refused \/ Suite!TestPasses \/ Suite!TestFails \/ Suite!AllRan
           \/ Suite!Timeout
  BY <1>3, RunningKeeps
<1>4. CASE Suite!Remove \/ Suite!Clean
  BY <1>4, CleaningKeeps
<1>5. CASE UNCHANGED Suite!vars
  <2>1. UNCHANGED <<call, present, fails, hangs, tests_map, asks, edited, affected, queue,
                    passed, failed, how, backend, container, scratch>>
    BY <1>5 DEF Suite!vars, Suite!tree_vars, Suite!call_vars, Suite!run_vars
  <2>2. RunsSoFar'
    BY <2>1 DEF SandboxInv, RunsSoFar, Asked
  <2>3. Outcome'
    BY <2>1 DEF SandboxInv, Outcome, Earned, Asked, Suite!affected_tests
  <2>4. Leftovers'
    BY <2>1 DEF SandboxInv, Leftovers
  <2>5. QED
    BY <2>2, <2>3, <2>4 DEF SandboxInv
<1>6. QED
  BY <1>1, <1>2, <1>3, <1>4, <1>5 DEF Suite!Next

(* A passing run ran something, and everything it was asked for, to its end; a  *)
(* failing test is the one that is blamed; and neither the scratch copy nor,    *)
(* unless Docker refuses, the container is left behind (run_sandbox).           *)
THEOREM CallsAreClean == Suite!Spec => []CallIsClean
<1>1. SandboxInv => Suite!PassIsEarned
  BY DEF SandboxInv, Outcome, Earned, Asked, Suite!PassIsEarned
<1>2. SandboxInv => Suite!MappedTestsGate
  <2> SUFFICES ASSUME SandboxInv, call = "returned", passed, asks = "edited",
                      NEW f \in edited
               PROVE  tests_map[f] \subseteq present \ (fails \cup hangs)
    BY DEF Suite!MappedTestsGate
  <2>1. tests_map[f] \subseteq affected
    BY DEF SandboxInv, Outcome, Suite!affected_tests
  <2>2. Asked \subseteq present \ (fails \cup hangs)
    BY DEF SandboxInv, Outcome, Earned
  <2>3. QED
    BY <2>1, <2>2 DEF Asked
<1>3. SandboxInv => Suite!BlameIsRight
  <2> SUFFICES ASSUME SandboxInv
               PROVE  /\ Suite!Cardinality(failed) <= 1 /\ failed \subseteq fails
                      /\ failed # {} => ~passed
    BY DEF Suite!BlameIsRight
  <2>1. CASE failed = {}
    <3>1. Cardinality(failed) = 0
      BY <2>1, FS_EmptySet
    <3>2. Suite!Cardinality(failed) = Cardinality(failed)
      BY Zenon DEF Suite!Cardinality, Cardinality
    <3>3. QED
      BY <2>1, <3>1, <3>2
  <2>2. CASE failed # {}
    <3>1. PICK t \in fails : failed = {t}
      BY <2>2 DEF SandboxInv, Outcome
    <3>2. Cardinality(failed) = 1
      BY <3>1, FS_Singleton
    <3>3. Suite!Cardinality(failed) = Cardinality(failed)
      BY Zenon DEF Suite!Cardinality, Cardinality
    <3>4. QED
      BY <2>2, <3>1, <3>2, <3>3 DEF SandboxInv, Outcome
  <2>3. QED
    BY <2>1, <2>2
<1>4. SandboxInv => Suite!NothingIsLeftBehind
  BY DEF SandboxInv, Leftovers, Suite!NothingIsLeftBehind, Suite!Ended
<1>5. SandboxInv => CallIsClean
  BY <1>1, <1>2, <1>3, <1>4 DEF CallIsClean, Suite!CallIsClean, Suite!ResultIsEarned
<1>6. QED
  BY <1>5, SandboxStarts, SandboxSteps, PTL DEF Suite!Spec

(***************************************************************************)
(* The property oracle.  The two functions are compared as they would be   *)
(* on arguments of their own, for every pool of objects and all inputs, as *)
(* long as no call changes an argument that a later call is given.         *)
(***************************************************************************)
Total   == Len(Inputs)
Handled == Oracle!Handled
Crashes == Oracle!NewCrashes
Sound   == Handled \ Crashes
UpTo(S, k) == {x \in S : x <= k}

(* What each count is before the next input is tried. *)
CountedTo(k) ==
  /\ agreed <=> UpTo(Crashes, k) = {}
  /\ way = "process" =>
       /\ new_crashes = Cardinality(UpTo(Crashes, k))
       /\ divergences = IF golden.adds = candidate.adds THEN 0
                        ELSE Cardinality(UpTo(Sound, k))

(* The counts, whatever the functions do to their arguments. *)
OracleTypes ==
  /\ way \in {"process", "sandbox"} /\ trial \in {"load", "golden", "candidate", "done"}
  /\ golden \in Candidates /\ candidate \in Candidates
  /\ loads \in {"both", "golden", "none"}
  /\ input \in 1 .. Total + 1 /\ returned \in Nat /\ agreed \in BOOLEAN
  /\ trial # "load" => heap \in [Oracle!Objects -> Nat]

OracleBounds ==
  /\ comparable \in Nat /\ new_crashes \in Nat /\ divergences \in Nat
  /\ trial = "load" => input = 1 /\ agreed
  /\ trial = "candidate" =>
       input <= Total /\ comparable <= input /\ new_crashes < comparable
         /\ divergences < comparable
  /\ trial # "candidate" =>
       comparable < input /\ new_crashes <= comparable /\ divergences <= comparable
  /\ trial = "load" => comparable = 0

(* The arguments of the inputs still to be tried are as they were generated. *)
ArgumentsAreFresh ==
  trial \in {"golden", "candidate"} =>
    \A k \in DOMAIN Inputs : \A j \in {1, 2} :
      k >= input => heap[Oracle!Object(k, j)] = Oracle!Initial(k, j)

Tally ==
  /\ trial \in {"load", "golden"} =>
       /\ CountedTo(input - 1)
       /\ way = "process" => comparable = Cardinality(UpTo(Handled, input - 1))
  /\ trial = "candidate" =>
       /\ CountedTo(input - 1) /\ input \in Handled
       /\ returned = Oracle!Result(golden, Oracle!Initial(input, 1), Oracle!Initial(input, 2))
       /\ way = "process" => comparable = Cardinality(UpTo(Handled, input))
  /\ trial = "done" /\ loads = "both" =>
       \/ /\ CountedTo(Total)
          /\ way = "process" => comparable = Cardinality(UpTo(Handled, Total))
       \/ way = "sandbox" /\ ~agreed /\ Crashes # {}

(* Only what loads is called; the rest is judged uncompared. *)
OnlyLoaded ==
  /\ trial \in {"golden", "candidate"} => loads = "both"
  /\ trial = "done" /\ loads # "both" => (~agreed <=> Oracle!Uncollected)

OracleInv ==
  OracleTypes /\ OracleBounds /\ OnlyLoaded /\ (Oracle!Pure => ArgumentsAreFresh /\ Tally)

(* What there is to know of the inputs and of the objects they are made of. *)
LEMMA InputsAre ==
  ASSUME Oracle!PropertyOracleAssumption
  PROVE  /\ Total \in Nat /\ DOMAIN Inputs = 1 .. Total
         /\ \A k \in DOMAIN Inputs : \A j \in {1, 2} :
              /\ Inputs[k][j] \in DOMAIN Pool /\ Oracle!Initial(k, j) \in Nat
              /\ way \in {"process", "sandbox"} =>
                   Oracle!Object(k, j) \in Oracle!Objects
<1>1. Pool \in Seq(Nat) /\ Inputs \in Seq((DOMAIN Pool) \X (DOMAIN Pool))
  BY DEF Oracle!PropertyOracleAssumption
<1>2. Total \in Nat /\ DOMAIN Inputs = 1 .. Total
  BY <1>1 DEF Total
<1>3. ASSUME NEW k \in DOMAIN Inputs, NEW j \in {1, 2}
      PROVE  Inputs[k][j] \in DOMAIN Pool
  <2>1. Inputs[k] \in (DOMAIN Pool) \X (DOMAIN Pool)
    BY <1>1
  <2>2. QED
    BY <2>1
<1>4. ASSUME NEW k \in DOMAIN Inputs, NEW j \in {1, 2}
      PROVE  Oracle!Initial(k, j) \in Nat
  <2>1. Inputs[k][j] \in DOMAIN Pool
    BY <1>3
  <2>2. \A o \in DOMAIN Pool : Pool[o] \in Nat
    <3>1. Pool \in Seq(Nat)
      BY DEF Oracle!PropertyOracleAssumption
    <3>2. QED
      BY <3>1
  <2>3. QED
    BY <2>1, <2>2 DEF Oracle!Initial
<1>5. ASSUME NEW k \in DOMAIN Inputs, NEW j \in {1, 2}, way \in {"process", "sandbox"}
      PROVE  Oracle!Object(k, j) \in Oracle!Objects
  <2>1. CASE way = "process"
    BY <1>3, <2>1 DEF Oracle!Object, Oracle!Objects
  <2>2. CASE way = "sandbox"
    BY <2>2 DEF Oracle!Object, Oracle!Objects
  <2>3. QED
    BY <1>5, <2>1, <2>2
<1>6. QED
  BY <1>2, <1>3, <1>4, <1>5

(* One more input adds itself to those that were counted, if it counts. *)
LEMMA OneMoreCounts ==
  ASSUME NEW n \in Nat, NEW S \in SUBSET (1 .. n), NEW k \in 1 .. n
  PROVE  /\ Cardinality(UpTo(S, k)) = Cardinality(UpTo(S, k - 1)) + (IF k \in S THEN 1 ELSE 0)
         /\ Cardinality(UpTo(S, k - 1)) \in Nat
         /\ UpTo(S, k) = {} <=> UpTo(S, k - 1) = {} /\ k \notin S
<1>1. UpTo(S, k) = IF k \in S THEN UpTo(S, k - 1) \cup {k} ELSE UpTo(S, k - 1)
  <2>1. \A x \in S : x <= k <=> x <= k - 1 \/ x = k
    OBVIOUS
  <2>2. QED
    BY <2>1 DEF UpTo
<1>2. k \notin UpTo(S, k - 1) /\ UpTo(S, k - 1) \subseteq 1 .. n
  <2>1. ~(k <= k - 1)
    OBVIOUS
  <2>2. QED
    BY <2>1 DEF UpTo
<1>3. IsFiniteSet(1 .. n)
  BY FS_Interval
<1>4. IsFiniteSet(UpTo(S, k - 1))
  BY <1>2, <1>3, FS_Subset
<1>5. Cardinality(UpTo(S, k - 1)) \in Nat
  BY <1>4, FS_CardinalityType
<1>6. Cardinality(UpTo(S, k - 1) \cup {k}) = Cardinality(UpTo(S, k - 1)) + 1
  BY <1>2, <1>4, FS_AddElement
<1>7. Cardinality(UpTo(S, k)) = Cardinality(UpTo(S, k - 1)) + (IF k \in S THEN 1 ELSE 0)
  BY <1>1, <1>5, <1>6
<1>8. UpTo(S, k) = {} <=> UpTo(S, k - 1) = {} /\ k \notin S
  BY <1>1
<1>9. QED
  BY <1>5, <1>7, <1>8

(* Before the first input nothing counts, after the last one everything. *)
LEMMA NoneAndAllCount ==
  ASSUME NEW n \in Nat, NEW S \in SUBSET (1 .. n)
  PROVE  UpTo(S, 0) = {} /\ Cardinality(UpTo(S, 0)) = 0 /\ UpTo(S, n) = S
<1>1. UpTo(S, 0) = {} /\ UpTo(S, n) = S
  <2>1. \A x \in S : ~(x <= 0) /\ x <= n
    OBVIOUS
  <2>2. QED
    BY <2>1 DEF UpTo
<1>2. QED
  BY <1>1, FS_EmptySet

(* The inputs that count are inputs. *)
LEMMA InputsCount ==
  ASSUME Oracle!PropertyOracleAssumption
  PROVE  /\ Handled \in SUBSET (1 .. Total) /\ Crashes \in SUBSET (1 .. Total)
         /\ Sound \in SUBSET (1 .. Total)
BY InputsAre DEF Handled, Crashes, Sound, Oracle!Handled, Oracle!NewCrashes

(* A step keeps the functions it compares, and with them what is to be counted. *)
Compared == UNCHANGED <<way, golden, candidate, loads>>

(* The same inputs count, and the arguments are the same objects. *)
LEMMA ComparedAlike ==
  ASSUME Compared
  PROVE  /\ Handled' = Handled /\ Crashes' = Crashes /\ Sound' = Sound
         /\ Oracle!Objects' = Oracle!Objects /\ Oracle!Pure' = Oracle!Pure
         /\ \A k, j : Oracle!Object(k, j)' = Oracle!Object(k, j)
<1>1. Handled' = Handled
  BY DEF Compared, Handled, Oracle!Handled, Oracle!Raises
<1>2. Crashes' = Crashes
  BY <1>1 DEF Compared, Handled, Crashes, Oracle!NewCrashes, Oracle!Raises
<1>3. Sound' = Sound
  BY <1>1, <1>2 DEF Sound
<1>4. Oracle!Objects' = Oracle!Objects /\ Oracle!Pure' = Oracle!Pure
  BY DEF Compared, Oracle!Objects, Oracle!Pure
<1>5. \A k, j : Oracle!Object(k, j)' = Oracle!Object(k, j)
  BY DEF Compared, Oracle!Object
<1>6. QED
  BY <1>1, <1>2, <1>3, <1>4, <1>5

(* Which is what every step does. *)
LEMMA OracleComparesAlike ==
  ASSUME Oracle!Next
  PROVE  Compared
BY DEF Oracle!Next, Oracle!Load, Oracle!GoldenRaises, Oracle!GoldenReturns,
       Oracle!CandidateRaises, Oracle!CandidateReturns, Oracle!AllTried, Compared

(* What is left of a list, and what a function returns, are numbers. *)
LEMMA CallsAreNumbers ==
  ASSUME Oracle!PropertyOracleAssumption, NEW f \in Candidates, NEW x \in Nat, NEW y \in Nat
  PROVE  /\ Oracle!Rest(f, x) \in Nat /\ Oracle!Result(f, x, y) \in Nat
         /\ f.takes = 0 => Oracle!Rest(f, x) = x
<1>1. f.takes \in Nat /\ f.adds \in Nat
  BY DEF Oracle!PropertyOracleAssumption
<1>2. QED
  BY <1>1 DEF Oracle!Rest, Oracle!Result

(* The objects of the input being tried. *)
LEMMA ObjectsOfTheInput ==
  ASSUME Oracle!PropertyOracleAssumption, OracleTypes, trial # "load", input <= Total
  PROVE  /\ input \in DOMAIN Inputs
         /\ Oracle!Object(input, 1) \in Oracle!Objects /\ Oracle!X \in Nat /\ Oracle!Y \in Nat
<1>1. input \in DOMAIN Inputs
  BY InputsAre DEF OracleTypes
<1>2. \A j \in {1, 2} : Oracle!Object(input, j) \in Oracle!Objects
  BY <1>1, InputsAre DEF OracleTypes
<1>3. QED
  BY <1>1, <1>2 DEF OracleTypes, Oracle!X, Oracle!Y

(* The types. *)
LEMMA OracleTypesNext ==
  ASSUME Oracle!PropertyOracleAssumption, OracleInv, Oracle!Next
  PROVE  OracleTypes'
<1> USE DEF OracleInv
<1>0. Compared /\ Oracle!Objects' = Oracle!Objects
  BY OracleComparesAlike, ComparedAlike
<1>1. Total \in Nat /\ way \in {"process", "sandbox"} /\ input \in 1 .. Total + 1
  BY InputsAre DEF OracleTypes
<1>2. CASE Oracle!Load
  <2>1. heap' \in [Oracle!Objects -> Nat]
    <3>1. ASSUME NEW o \in Oracle!Objects
          PROVE  (IF way = "process" THEN Pool[o] ELSE Pool[Inputs[o[1]][o[2]]]) \in Nat
      <4>1. Pool \in Seq(Nat)
        BY DEF Oracle!PropertyOracleAssumption
      <4>2. CASE way = "process"
        BY <4>1, <4>2 DEF Oracle!Objects
      <4>3. CASE way = "sandbox"
        <5>1. o[1] \in DOMAIN Inputs /\ o[2] \in {1, 2}
          BY <4>3 DEF Oracle!Objects
        <5>2. Inputs[o[1]][o[2]] \in DOMAIN Pool
          BY <5>1, InputsAre
        <5>3. QED
          BY <4>1, <4>3, <5>2
      <4>4. QED
        BY <1>1, <4>2, <4>3
    <3>2. QED
      BY <1>2, <3>1 DEF Oracle!Load
  <2>2. QED
    BY <1>0, <1>2, <2>1 DEF Oracle!Load, OracleTypes, Compared
<1>3. CASE Oracle!GoldenRaises
  BY <1>0, <1>1, <1>3 DEF Oracle!GoldenRaises, Oracle!Trying, OracleTypes, Compared, Total
<1>4. CASE Oracle!GoldenReturns
  <2>1. input <= Total
    BY <1>4 DEF Oracle!GoldenReturns, Oracle!Trying, Total
  <2>2. /\ Oracle!Object(input, 1) \in Oracle!Objects /\ Oracle!X \in Nat /\ Oracle!Y \in Nat
        /\ heap \in [Oracle!Objects -> Nat]
    BY <1>4, <2>1, ObjectsOfTheInput DEF Oracle!GoldenReturns, OracleTypes
  <2>3. heap' \in [Oracle!Objects -> Nat] /\ returned' \in Nat
    BY <1>4, <2>2, CallsAreNumbers
       DEF Oracle!GoldenReturns, Oracle!After, OracleTypes
  <2>4. QED
    BY <1>0, <1>1, <1>4, <2>3 DEF Oracle!GoldenReturns, OracleTypes, Compared
<1>5. CASE Oracle!CandidateRaises
  <2>1. input <= Total /\ trial = "candidate"
    BY <1>5 DEF Oracle!CandidateRaises, OracleBounds
  <2>2. /\ input' = input + 1 /\ trial' \in {"golden", "done"}
        /\ UNCHANGED <<heap, returned>>
    BY <1>5 DEF Oracle!CandidateRaises
  <2>3. agreed' \in BOOLEAN
    BY <1>5, Zenon DEF Oracle!CandidateRaises
  <2>4. heap' \in [Oracle!Objects' -> Nat]
    BY <1>0, <2>1, <2>2 DEF OracleTypes
  <2>5. QED
    BY <1>0, <1>1, <2>1, <2>2, <2>3, <2>4 DEF OracleTypes, Compared
<1>6. CASE Oracle!CandidateReturns
  <2>1. input <= Total
    BY <1>6 DEF Oracle!CandidateReturns, OracleBounds
  <2>2. /\ Oracle!Object(input, 1) \in Oracle!Objects /\ Oracle!X \in Nat /\ Oracle!Y \in Nat
        /\ heap \in [Oracle!Objects -> Nat]
    BY <1>6, <2>1, ObjectsOfTheInput DEF Oracle!CandidateReturns, OracleTypes
  <2>3. heap' \in [Oracle!Objects -> Nat]
    BY <1>6, <2>2, CallsAreNumbers
       DEF Oracle!CandidateReturns, Oracle!After, OracleTypes
  <2>4. QED
    BY <1>0, <1>1, <1>6, <2>1, <2>3 DEF Oracle!CandidateReturns, OracleTypes, Compared
<1>7. CASE Oracle!AllTried
  BY <1>0, <1>1, <1>7 DEF Oracle!AllTried, OracleTypes, Compared
<1>8. QED
  BY <1>2, <1>3, <1>4, <1>5, <1>6, <1>7 DEF Oracle!Next

(* No more is counted than was tried. *)
LEMMA OracleBoundsNext ==
  ASSUME Oracle!PropertyOracleAssumption, OracleInv, Oracle!Next
  PROVE  OracleBounds'
<1>1. Total \in Nat /\ input \in 1 .. Total + 1 /\ OracleBounds
  BY InputsAre DEF OracleInv, OracleTypes
<1>2. CASE Oracle!Load \/ Oracle!GoldenRaises \/ Oracle!AllTried
  BY <1>1, <1>2 DEF Oracle!Load, Oracle!GoldenRaises, Oracle!AllTried, OracleBounds
<1>3. CASE Oracle!GoldenReturns
  BY <1>1, <1>3 DEF Oracle!GoldenReturns, Oracle!Trying, OracleBounds, Total
<1>4. CASE Oracle!CandidateRaises
  BY <1>1, <1>4 DEF Oracle!CandidateRaises, OracleBounds
<1>5. CASE Oracle!CandidateReturns
  BY <1>1, <1>5 DEF Oracle!CandidateReturns, OracleBounds
<1>6. QED
  BY <1>2, <1>3, <1>4, <1>5 DEF Oracle!Next

(* A step from which the rest of the inputs are as generated.  Golden leaves   *)
(* its arguments alone; the candidate does, or they are its own.               *)
LEMMA FreshNext ==
  ASSUME Oracle!PropertyOracleAssumption, OracleInv, Oracle!Next, Oracle!Pure
  PROVE  ArgumentsAreFresh'
<1>1. /\ OracleTypes /\ OracleBounds /\ ArgumentsAreFresh
      /\ Total \in Nat /\ input \in Nat /\ way \in {"process", "sandbox"}
      /\ golden \in Candidates /\ candidate \in Candidates
      /\ golden.takes = 0 /\ (candidate.takes = 0 \/ way = "sandbox")
  BY InputsAre DEF OracleInv, OracleTypes, Oracle!Pure
<1>2. Compared /\ \A k, j : Oracle!Object(k, j)' = Oracle!Object(k, j)
  BY OracleComparesAlike, ComparedAlike
<1>3. SUFFICES ASSUME trial' \in {"golden", "candidate"},
                      NEW k \in DOMAIN Inputs, NEW j \in {1, 2}, k >= input'
               PROVE  heap'[Oracle!Object(k, j)] = Oracle!Initial(k, j)
  BY <1>2 DEF ArgumentsAreFresh, Oracle!Initial
<1>4. /\ k \in Nat /\ Oracle!Object(k, j) \in Oracle!Objects
      /\ Inputs[k][j] \in DOMAIN Pool
  BY <1>1, InputsAre
<1>5. CASE Oracle!Load
  <2>1. heap'[Oracle!Object(k, j)] =
          IF way = "process" THEN Pool[Oracle!Object(k, j)]
          ELSE Pool[Inputs[Oracle!Object(k, j)[1]][Oracle!Object(k, j)[2]]]
    BY <1>4, <1>5 DEF Oracle!Load
  <2>2. CASE way = "process"
    BY <2>1, <2>2 DEF Oracle!Object, Oracle!Initial
  <2>3. CASE way = "sandbox"
    <3>1. Oracle!Object(k, j) = <<k, j>>
      BY <2>3 DEF Oracle!Object
    <3>2. QED
      BY <2>1, <2>3, <3>1 DEF Oracle!Initial
  <2>4. QED
    BY <1>1, <2>2, <2>3
<1>6. CASE Oracle!GoldenRaises \/ Oracle!CandidateRaises
  <2>1. trial \in {"golden", "candidate"} /\ heap' = heap /\ input' = input + 1
    BY <1>6 DEF Oracle!GoldenRaises, Oracle!CandidateRaises
  <2>2. k >= input
    BY <1>1, <1>3, <1>4, <2>1
  <2>3. QED
    BY <1>1, <2>1, <2>2 DEF ArgumentsAreFresh
<1>7. CASE Oracle!GoldenReturns
  <2>1. trial = "golden" /\ input <= Total /\ input' = input /\ heap' = Oracle!After(golden)
    BY <1>7 DEF Oracle!GoldenReturns, Oracle!Trying, Total
  <2>2. /\ Oracle!Object(input, 1) \in Oracle!Objects /\ Oracle!X \in Nat
        /\ heap \in [Oracle!Objects -> Nat]
    BY <1>1, <2>1, ObjectsOfTheInput DEF OracleTypes
  <2>3. Oracle!Rest(golden, Oracle!X) = Oracle!X
    BY <1>1, <2>2, CallsAreNumbers
  <2>4. heap'[Oracle!Object(k, j)] = heap[Oracle!Object(k, j)]
    BY <1>4, <2>1, <2>2, <2>3 DEF Oracle!After, Oracle!X
  <2>5. QED
    BY <1>1, <1>3, <2>1, <2>4 DEF ArgumentsAreFresh
<1>8. CASE Oracle!CandidateReturns
  <2>1. trial = "candidate" /\ input <= Total /\ input' = input + 1
        /\ heap' = Oracle!After(candidate)
    BY <1>1, <1>8 DEF Oracle!CandidateReturns, OracleBounds
  <2>2. /\ Oracle!Object(input, 1) \in Oracle!Objects /\ Oracle!X \in Nat
        /\ heap \in [Oracle!Objects -> Nat]
    BY <1>1, <2>1, ObjectsOfTheInput DEF OracleTypes
  <2>3. heap'[Oracle!Object(k, j)] = heap[Oracle!Object(k, j)]
    <3>1. CASE candidate.takes = 0
      <4>1. Oracle!Rest(candidate, Oracle!X) = Oracle!X
        BY <1>1, <2>2, <3>1, CallsAreNumbers
      <4>2. QED
        BY <1>4, <2>1, <2>2, <4>1 DEF Oracle!After, Oracle!X
    <3>2. CASE way = "sandbox"
      <4>1. Oracle!Object(k, j) = <<k, j>> /\ Oracle!Object(input, 1) = <<input, 1>>
        BY <3>2 DEF Oracle!Object
      <4>2. k # input
        BY <1>1, <1>3, <1>4, <2>1
      <4>3. Oracle!Object(k, j) # Oracle!Object(input, 1)
        BY <4>1, <4>2
      <4>4. QED
        BY <1>4, <2>1, <2>2, <4>3 DEF Oracle!After
    <3>3. QED
      BY <1>1, <3>1, <3>2
  <2>4. k >= input
    BY <1>1, <1>3, <1>4, <2>1
  <2>5. QED
    BY <1>1, <2>1, <2>3, <2>4 DEF ArgumentsAreFresh
<1>9. CASE Oracle!AllTried
  BY <1>3, <1>9 DEF Oracle!AllTried
<1>10. QED
  BY <1>5, <1>6, <1>7, <1>8, <1>9 DEF Oracle!Next

(* What the input being tried is called with, and what that says of it. *)
LEMMA TheInputIsJudged ==
  ASSUME Oracle!PropertyOracleAssumption, OracleInv, Oracle!Pure,
         trial \in {"golden", "candidate"}, input <= Total
  PROVE  /\ input \in 1 .. Total
         /\ Oracle!X = Oracle!Initial(input, 1) /\ Oracle!Y = Oracle!Initial(input, 2)
         /\ input \in Handled <=> ~Oracle!Raises(golden, Oracle!X, Oracle!Y)
         /\ input \in Crashes <=>
              input \in Handled /\ Oracle!Raises(candidate, Oracle!X, Oracle!Y)
<1>1. input \in DOMAIN Inputs /\ input \in 1 .. Total /\ ArgumentsAreFresh
  BY InputsAre DEF OracleInv, OracleTypes
<1>2. \A j \in {1, 2} : heap[Oracle!Object(input, j)] = Oracle!Initial(input, j)
  BY <1>1 DEF ArgumentsAreFresh
<1>3. Oracle!X = Oracle!Initial(input, 1) /\ Oracle!Y = Oracle!Initial(input, 2)
  BY <1>2 DEF Oracle!X, Oracle!Y
<1>4. QED
  BY <1>1, <1>3 DEF Handled, Crashes, Oracle!Handled, Oracle!NewCrashes

(* A step that counts nothing leaves the counts as they are. *)
LEMMA CountsStay ==
  ASSUME Compared, UNCHANGED <<new_crashes, divergences, agreed>>, NEW k, CountedTo(k)
  PROVE  CountedTo(k)'
<1>1. /\ UNCHANGED <<new_crashes, divergences, agreed, way, golden, candidate>>
      /\ Crashes' = Crashes /\ Sound' = Sound
  BY ComparedAlike DEF Compared
<1>2. UpTo(Crashes, k)' = UpTo(Crashes, k) /\ UpTo(Sound, k)' = UpTo(Sound, k)
  BY <1>1 DEF UpTo
<1>3. QED
  BY <1>1, <1>2 DEF CountedTo

(* The inputs that count, for the counts of the oracle. *)
LEMMA InputCounts ==
  ASSUME Oracle!PropertyOracleAssumption, NEW k \in 1 .. Total
  PROVE  /\ Cardinality(UpTo(Crashes, k)) =
              Cardinality(UpTo(Crashes, k - 1)) + (IF k \in Crashes THEN 1 ELSE 0)
         /\ UpTo(Crashes, k) = {} <=> UpTo(Crashes, k - 1) = {} /\ k \notin Crashes
         /\ Cardinality(UpTo(Sound, k)) =
              Cardinality(UpTo(Sound, k - 1)) + (IF k \in Sound THEN 1 ELSE 0)
<1>1. Total \in Nat /\ k \in 1 .. Total
  BY InputsAre
<1>2. Crashes \in SUBSET (1 .. Total)
  BY InputsCount
<1>3. Sound \in SUBSET (1 .. Total)
  BY InputsCount
<1>4. /\ Cardinality(UpTo(Crashes, k)) =
           Cardinality(UpTo(Crashes, k - 1)) + (IF k \in Crashes THEN 1 ELSE 0)
      /\ Cardinality(UpTo(Crashes, k - 1)) \in Nat
      /\ UpTo(Crashes, k) = {} <=> UpTo(Crashes, k - 1) = {} /\ k \notin Crashes
  BY <1>1, <1>2, OneMoreCounts
<1>5. /\ Cardinality(UpTo(Sound, k)) =
           Cardinality(UpTo(Sound, k - 1)) + (IF k \in Sound THEN 1 ELSE 0)
      /\ Cardinality(UpTo(Sound, k - 1)) \in Nat
  BY <1>1, <1>3, OneMoreCounts
<1>6. QED
  BY <1>4, <1>5

(* The three counts after one more input. *)
LEMMA CountedNext ==
  ASSUME Oracle!PropertyOracleAssumption, Compared, NEW k \in 1 .. Total, CountedTo(k - 1),
         agreed' <=> agreed /\ k \notin Crashes,
         way = "process" =>
           /\ new_crashes' = new_crashes + (IF k \in Crashes THEN 1 ELSE 0)
           /\ divergences' = divergences + (IF k \in Sound /\ golden.adds # candidate.adds
                                              THEN 1 ELSE 0)
  PROVE  CountedTo(k)'
<1>1. /\ UNCHANGED <<way, golden, candidate>>
      /\ Crashes' = Crashes /\ Sound' = Sound
  BY ComparedAlike DEF Compared
<1>2. UpTo(Crashes, k)' = UpTo(Crashes, k) /\ UpTo(Sound, k)' = UpTo(Sound, k)
  BY <1>1 DEF UpTo
<1>3. /\ Total \in Nat /\ Crashes \subseteq 1 .. Total /\ Sound \subseteq 1 .. Total
      /\ k \in 1 .. Total
  BY InputsAre, InputsCount
<1>4. /\ Cardinality(UpTo(Crashes, k)) =
           Cardinality(UpTo(Crashes, k - 1)) + (IF k \in Crashes THEN 1 ELSE 0)
      /\ UpTo(Crashes, k) = {} <=> UpTo(Crashes, k - 1) = {} /\ k \notin Crashes
  BY InputCounts
<1>5. Cardinality(UpTo(Sound, k)) =
        Cardinality(UpTo(Sound, k - 1)) + (IF k \in Sound THEN 1 ELSE 0)
  BY InputCounts
<1>6. agreed' <=> UpTo(Crashes, k)' = {}
  BY <1>2, <1>4 DEF CountedTo
<1>7. ASSUME way = "process"
      PROVE  /\ new_crashes' = Cardinality(UpTo(Crashes, k))
             /\ divergences' = IF golden.adds = candidate.adds THEN 0
                               ELSE Cardinality(UpTo(Sound, k))
  <2>1. new_crashes' = Cardinality(UpTo(Crashes, k))
    BY <1>4, <1>7 DEF CountedTo
  <2>2. CASE golden.adds = candidate.adds
    BY <1>7, <2>1, <2>2 DEF CountedTo
  <2>3. CASE golden.adds # candidate.adds
    BY <1>5, <1>7, <2>1, <2>3 DEF CountedTo
  <2>4. QED
    BY <2>2, <2>3, <2>1
<1>8. QED
  BY <1>1, <1>2, <1>6, <1>7 DEF CountedTo

(* The steps of the first function. *)
LEMMA TallyOfGolden ==
  ASSUME Oracle!PropertyOracleAssumption, OracleInv, Oracle!Next, Oracle!Pure,
         Oracle!GoldenRaises \/ Oracle!GoldenReturns
  PROVE  Tally'
<1>1. /\ Compared /\ Handled' = Handled /\ Crashes' = Crashes
      /\ way' = way /\ golden' = golden /\ UNCHANGED <<new_crashes, divergences, agreed>>
  BY OracleComparesAlike, ComparedAlike
     DEF Compared, Oracle!GoldenRaises, Oracle!GoldenReturns
<1>2. trial = "golden" /\ input <= Total
  BY DEF Oracle!GoldenRaises, Oracle!GoldenReturns, Oracle!Trying, Total
<1>3. /\ input \in 1 .. Total /\ Total \in Nat /\ input \in Nat
      /\ Oracle!X = Oracle!Initial(input, 1) /\ Oracle!Y = Oracle!Initial(input, 2)
      /\ input \in Handled <=> ~Oracle!Raises(golden, Oracle!X, Oracle!Y)
      /\ input \in Crashes => input \in Handled
  BY <1>2, InputsAre, TheInputIsJudged
<1>4. /\ CountedTo(input - 1)
      /\ way = "process" => comparable = Cardinality(UpTo(Handled, input - 1))
  BY <1>2 DEF OracleInv, Tally
<1>5. /\ Cardinality(UpTo(Handled, input)) =
           Cardinality(UpTo(Handled, input - 1)) + (IF input \in Handled THEN 1 ELSE 0)
      /\ Cardinality(UpTo(Handled, input - 1)) \in Nat
  BY <1>3, InputsCount, OneMoreCounts
<1>6. PICK k \in 1 .. Total : k = input
  BY <1>3
<1>7. CASE Oracle!GoldenRaises
  <2>1. /\ k \notin Handled /\ k \notin Crashes /\ k \notin Sound
        /\ comparable' = comparable /\ input' = k + 1 /\ trial' = "golden"
    BY <1>2, <1>3, <1>6, <1>7 DEF Oracle!GoldenRaises, Sound
  <2>2. new_crashes \in Nat /\ divergences \in Nat
    BY DEF OracleInv, OracleBounds
  <2>3. way = "process" =>
          /\ new_crashes' = new_crashes + (IF k \in Crashes THEN 1 ELSE 0)
          /\ divergences' = divergences + (IF k \in Sound /\ golden.adds # candidate.adds
                                             THEN 1 ELSE 0)
    BY <1>1, <2>1, <2>2
  <2>4. agreed' <=> agreed /\ k \notin Crashes
    BY <1>1, <2>1, Zenon
  <2>5. CountedTo(k - 1)
    BY <1>4, <1>6
  <2>6. CountedTo(k)'
    BY <1>1, <2>3, <2>4, <2>5, CountedNext
  <2>7. input' - 1 = k
    BY <1>3, <1>6, <2>1
  <2>8. CountedTo(input - 1)'
    BY <2>6, <2>7
  <2>9. way' = "process" => comparable' = Cardinality(UpTo(Handled, input - 1)')
    BY <1>1, <1>4, <1>5, <1>6, <2>1, <2>7 DEF UpTo
  <2>10. QED
    BY <2>1, <2>8, <2>9 DEF Tally
<1>8. CASE Oracle!GoldenReturns
  <2>1. /\ k \in Handled /\ comparable' = comparable + 1 /\ input' = k /\ trial' = "candidate"
        /\ returned' = Oracle!Result(golden, Oracle!X, Oracle!Y)
    BY <1>2, <1>3, <1>6, <1>8 DEF Oracle!GoldenReturns
  <2>2. CountedTo(k - 1)'
    BY <1>1, <1>4, <1>6, CountsStay
  <2>3. CountedTo(input - 1)'
    BY <2>1, <2>2
  <2>4. way' = "process" => comparable' = Cardinality(UpTo(Handled, input)')
    BY <1>1, <1>4, <1>5, <1>6, <2>1 DEF UpTo
  <2>5. (input \in Handled)'
    BY <1>1, <2>1
  <2>6. (returned = Oracle!Result(golden, Oracle!Initial(input, 1), Oracle!Initial(input, 2)))'
    BY <1>1, <1>3, <1>6, <2>1 DEF Oracle!Result, Oracle!Initial
  <2>7. QED
    BY <2>1, <2>3, <2>4, <2>5, <2>6 DEF Tally
<1>9. QED
  BY <1>7, <1>8

(* The steps of the second function. *)
LEMMA TallyOfCandidate ==
  ASSUME Oracle!PropertyOracleAssumption, OracleInv, Oracle!Next, Oracle!Pure,
         Oracle!CandidateRaises \/ Oracle!CandidateReturns
  PROVE  Tally'
<1>1. /\ Compared /\ Handled' = Handled /\ Crashes' = Crashes
      /\ way' = way /\ golden' = golden /\ comparable' = comparable
  BY OracleComparesAlike, ComparedAlike
     DEF Compared, Oracle!CandidateRaises, Oracle!CandidateReturns
<1>2. trial = "candidate" /\ input <= Total
  BY DEF Oracle!CandidateRaises, Oracle!CandidateReturns, OracleInv, OracleBounds
<1>3. /\ input \in 1 .. Total /\ Total \in Nat /\ input \in Nat
      /\ Oracle!X = Oracle!Initial(input, 1) /\ Oracle!Y = Oracle!Initial(input, 2)
      /\ input \in Crashes <=>
           input \in Handled /\ Oracle!Raises(candidate, Oracle!X, Oracle!Y)
  BY <1>2, InputsAre, TheInputIsJudged
<1>4. /\ CountedTo(input - 1) /\ input \in Handled
      /\ returned = Oracle!Result(golden, Oracle!X, Oracle!Y)
      /\ way = "process" => comparable = Cardinality(UpTo(Handled, input))
  BY <1>2, <1>3 DEF OracleInv, Tally
<1>5. PICK k \in 1 .. Total : k = input
  BY <1>3
<1>6. /\ CountedTo(k - 1) /\ k \in Handled
      /\ new_crashes \in Nat /\ divergences \in Nat /\ way \in {"process", "sandbox"}
  BY <1>4, <1>5 DEF OracleInv, OracleBounds, OracleTypes
<1>7. /\ input' = k + 1 /\ input' - 1 = k
  BY <1>3, <1>5 DEF Oracle!CandidateRaises, Oracle!CandidateReturns
<1>8. way' = "process" => comparable' = Cardinality(UpTo(Handled, input - 1)')
  BY <1>1, <1>4, <1>5, <1>7 DEF UpTo
<1>9. CASE Oracle!CandidateRaises
  <2>1. /\ k \in Crashes /\ k \notin Sound
        /\ new_crashes' = new_crashes + 1 /\ divergences' = divergences
        /\ trial' = IF way = "process" THEN "golden" ELSE "done"
    BY <1>3, <1>4, <1>5, <1>9 DEF Oracle!CandidateRaises, Sound
  <2>2. ~agreed'
    BY <1>9, Zenon DEF Oracle!CandidateRaises
  <2>3. CASE way = "process"
    <3>1. /\ new_crashes' = new_crashes + (IF k \in Crashes THEN 1 ELSE 0)
          /\ divergences' = divergences + (IF k \in Sound /\ golden.adds # candidate.adds
                                             THEN 1 ELSE 0)
      BY <1>6, <2>1
    <3>2. agreed' <=> agreed /\ k \notin Crashes
      BY <2>1, <2>2, Zenon
    <3>3. CountedTo(k)'
      BY <1>1, <1>6, <3>1, <3>2, CountedNext
    <3>4. CountedTo(input - 1)'
      BY <1>7, <3>3
    <3>5. QED
      BY <1>8, <2>1, <2>3, <3>4 DEF Tally
  <2>4. CASE way = "sandbox"
    <3>1. trial' = "done" /\ way' = "sandbox" /\ Crashes' # {}
      BY <1>1, <2>1, <2>4
    <3>2. QED
      BY <2>2, <3>1 DEF Tally
  <2>5. QED
    BY <1>6, <2>3, <2>4
<1>10. CASE Oracle!CandidateReturns
  <2>1. /\ k \notin Crashes /\ k \in Sound /\ trial' = "golden"
        /\ UNCHANGED <<new_crashes, agreed>>
        /\ divergences' =
             IF way = "process" /\ Oracle!Result(candidate, Oracle!X, Oracle!Y) # returned
               THEN divergences + 1 ELSE divergences
    BY <1>3, <1>4, <1>5, <1>10 DEF Oracle!CandidateReturns, Sound
  <2>2. Oracle!Result(candidate, Oracle!X, Oracle!Y) # returned <=> golden.adds # candidate.adds
    <3>1. golden.adds \in Nat /\ candidate.adds \in Nat
      BY DEF OracleInv, OracleTypes, Oracle!PropertyOracleAssumption
    <3>2. Oracle!X \in Nat /\ Oracle!Y \in Nat
      BY <1>2, ObjectsOfTheInput DEF OracleInv
    <3>3. QED
      BY <1>4, <3>1, <3>2 DEF Oracle!Result
  <2>3. way = "process" =>
          /\ new_crashes' = new_crashes + (IF k \in Crashes THEN 1 ELSE 0)
          /\ divergences' = divergences + (IF k \in Sound /\ golden.adds # candidate.adds
                                             THEN 1 ELSE 0)
    BY <1>6, <2>1, <2>2
  <2>4. agreed' <=> agreed /\ k \notin Crashes
    BY <2>1, Zenon
  <2>5. CountedTo(k)'
    BY <1>1, <1>6, <2>3, <2>4, CountedNext
  <2>6. CountedTo(input - 1)'
    BY <1>7, <2>5
  <2>7. QED
    BY <1>8, <2>1, <2>6 DEF Tally
<1>11. QED
  BY <1>9, <1>10

(* The first step and the last one. *)
LEMMA TallyOfTheEnds ==
  ASSUME Oracle!PropertyOracleAssumption, OracleInv, Oracle!Next, Oracle!Pure,
         Oracle!Load \/ Oracle!AllTried
  PROVE  Tally'
<1>1. /\ Compared /\ Handled' = Handled /\ Crashes' = Crashes
      /\ way' = way /\ input' = input /\ loads' = loads
      /\ UNCHANGED <<new_crashes, divergences, comparable>>
  BY OracleComparesAlike, ComparedAlike DEF Compared, Oracle!Load, Oracle!AllTried
<1>2. Tally /\ Total \in Nat /\ input \in 1 .. Total + 1
  BY InputsAre DEF OracleInv, OracleTypes
<1>3. PICK k \in 0 .. Total : k = input - 1
  BY <1>2
<1>4. CASE Oracle!Load
  <2>1. CASE loads = "both"
    <3>1. agreed' = agreed /\ trial = "load" /\ trial' = "golden"
      BY <1>4, <2>1 DEF Oracle!Load
    <3>2. CountedTo(k)'
      BY <1>1, <1>2, <1>3, <3>1, CountsStay DEF Tally
    <3>3. CountedTo(input - 1)'
      BY <1>1, <1>3, <3>2
    <3>4. way' = "process" => comparable' = Cardinality(UpTo(Handled, input - 1)')
      BY <1>1, <1>2, <3>1 DEF Tally, UpTo
    <3>5. QED
      BY <3>1, <3>3, <3>4 DEF Tally
  <2>2. CASE loads # "both"
    <3>1. trial' = "done" /\ loads' # "both"
      BY <1>1, <1>4, <2>2 DEF Oracle!Load
    <3>2. QED
      BY <3>1 DEF Tally
  <2>3. QED
    BY <2>1, <2>2
<1>5. CASE Oracle!AllTried
  <2>1. agreed' = agreed /\ trial = "golden" /\ trial' = "done" /\ input = Total + 1
    BY <1>2, <1>5 DEF Oracle!AllTried, Oracle!Trying, Total
  <2>2. k = Total
    BY <1>2, <1>3, <2>1
  <2>3. CountedTo(k)'
    BY <1>1, <1>2, <1>3, <2>1, CountsStay DEF Tally
  <2>4. way' = "process" => comparable' = Cardinality(UpTo(Handled, Total)')
    BY <1>1, <1>2, <1>3, <2>1, <2>2 DEF Tally, UpTo
  <2>5. QED
    BY <2>1, <2>2, <2>3, <2>4 DEF Tally, Total
<1>6. QED
  BY <1>4, <1>5

(* What does not load is never called. *)
LEMMA OnlyLoadedNext ==
  ASSUME OracleInv, Oracle!Next
  PROVE  OnlyLoaded'
<1>1. loads' = loads /\ way' = way /\ OnlyLoaded
  BY OracleComparesAlike DEF Compared, OracleInv
<1>2. Oracle!Uncollected' <=> Oracle!Uncollected
  BY <1>1 DEF Oracle!Uncollected
<1>3. CASE Oracle!Load
  <2>1. CASE loads = "both"
    BY <1>1, <1>3, <2>1 DEF Oracle!Load, OnlyLoaded
  <2>2. CASE loads # "both"
    <3>1. trial' = "done" /\ (~agreed' <=> Oracle!Uncollected)
      BY <1>3, <2>2, Zenon DEF Oracle!Load
    <3>2. QED
      BY <1>1, <1>2, <2>2, <3>1 DEF OnlyLoaded
  <2>3. QED
    BY <2>1, <2>2
<1>4. CASE ~Oracle!Load
  <2>1. trial \in {"golden", "candidate"}
    BY <1>4 DEF Oracle!Next, Oracle!GoldenRaises, Oracle!GoldenReturns,
       Oracle!CandidateRaises, Oracle!CandidateReturns, Oracle!AllTried
  <2>2. loads' = "both"
    BY <1>1, <2>1 DEF OnlyLoaded
  <2>3. QED
    BY <2>2 DEF OnlyLoaded
<1>5. QED
  BY <1>3, <1>4

(* Nothing is counted before the first input. *)
LEMMA OracleStarts ==
  ASSUME Oracle!PropertyOracleAssumption, Oracle!Init
  PROVE  OracleInv
<1>1. /\ Total \in Nat /\ input = 1 /\ trial = "load" /\ agreed
      /\ comparable = 0 /\ new_crashes = 0 /\ divergences = 0 /\ returned = 0
  BY InputsAre DEF Oracle!Init
<1>2. OracleTypes
  BY <1>1 DEF Oracle!Init, OracleTypes
<1>3. OracleBounds
  BY <1>1 DEF OracleBounds
<1>4. ArgumentsAreFresh
  BY <1>1 DEF ArgumentsAreFresh
<1>5. /\ UpTo(Crashes, 0) = {} /\ Cardinality(UpTo(Crashes, 0)) = 0
      /\ Cardinality(UpTo(Sound, 0)) = 0 /\ Cardinality(UpTo(Handled, 0)) = 0
  BY <1>1, InputsCount, NoneAndAllCount
<1>6. input - 1 = 0
  BY <1>1
<1>7. CountedTo(0)
  BY <1>1, <1>5 DEF CountedTo
<1>8. Tally
  BY <1>1, <1>5, <1>6, <1>7 DEF Tally
<1>9. OnlyLoaded
  BY <1>1 DEF OnlyLoaded
<1>10. QED
  BY <1>2, <1>3, <1>4, <1>8, <1>9 DEF OracleInv

(* Every step keeps the counts right, and a stutter changes none of them. *)
LEMMA OracleSteps ==
  ASSUME Oracle!PropertyOracleAssumption, OracleInv, [Oracle!Next]_(Oracle!vars)
  PROVE  OracleInv'
<1>1. CASE Oracle!Next
  <2>1. OracleTypes' /\ OracleBounds' /\ OnlyLoaded'
    BY <1>1, OracleTypesNext, OracleBoundsNext, OnlyLoadedNext
  <2>2. ASSUME Oracle!Pure'
        PROVE  ArgumentsAreFresh' /\ Tally'
    <3>1. Oracle!Pure
      BY <1>1, <2>2, OracleComparesAlike, ComparedAlike
    <3>2. ArgumentsAreFresh'
      BY <1>1, <3>1, FreshNext
    <3>3. Tally'
      BY <1>1, <3>1, TallyOfGolden, TallyOfCandidate, TallyOfTheEnds DEF Oracle!Next
    <3>4. QED
      BY <3>2, <3>3
  <2>3. QED
    BY <2>1, <2>2 DEF OracleInv
<1>2. CASE UNCHANGED Oracle!vars
  <2>1. Compared /\ UNCHANGED <<heap, input, trial, returned, comparable, new_crashes,
                                divergences, agreed>>
    BY <1>2 DEF Oracle!vars, Compared
  <2>2. OracleTypes' /\ OracleBounds' /\ OnlyLoaded'
    BY <2>1, ComparedAlike
       DEF OracleInv, OracleTypes, OracleBounds, OnlyLoaded, Oracle!Uncollected, Compared
  <2>3. ArgumentsAreFresh' <=> ArgumentsAreFresh
    BY <2>1, ComparedAlike DEF ArgumentsAreFresh, Oracle!Initial
  <2>4. Tally' <=> Tally
    BY <2>1, ComparedAlike
       DEF Tally, CountedTo, UpTo, Compared, Oracle!Result, Oracle!Initial
  <2>5. QED
    BY <2>1, <2>2, <2>3, <2>4, ComparedAlike DEF OracleInv
<1>3. QED
  BY <1>1, <1>2

(* The verdict of the oracle and its counts are those of an ideal comparison   *)
(* of the two functions, input by input, whichever way they are run: as long   *)
(* as golden leaves its arguments alone, and in process the candidate too; but *)
(* a patched function that the harness cannot import is pruned uncompared      *)
(* (differential_check, build_harness).                                        *)
THEOREM TheOracleIsRight == Oracle!Spec => []OracleIsRight
<1>0. Oracle!PropertyOracleAssumption
  BY OracleAssumption
<1>1. Oracle!Init => OracleInv
  BY <1>0, OracleStarts
<1>2. OracleInv /\ [Oracle!Next]_(Oracle!vars) => OracleInv'
  BY <1>0, OracleSteps
<1>3. OracleInv => Oracle!TypeOK
  <2> SUFFICES ASSUME OracleInv PROVE Oracle!TypeOK
    OBVIOUS
  <2>1. Total \in Nat /\ OracleTypes /\ OracleBounds
    BY <1>0, InputsAre DEF OracleInv
  <2>2. /\ comparable \in 0 .. Total /\ new_crashes \in 0 .. comparable
        /\ divergences \in 0 .. comparable
    BY <2>1 DEF OracleTypes, OracleBounds
  <2>3. QED
    BY <2>1, <2>2 DEF OracleTypes, Oracle!TypeOK, Total
<1>4. ASSUME OracleInv, trial = "done", loads = "both", Oracle!Pure
      PROVE  /\ agreed <=> Crashes = {}
             /\ way = "process" =>
                  /\ comparable = Cardinality(Handled)
                  /\ new_crashes = Cardinality(Crashes)
                  /\ divergences = IF golden.adds = candidate.adds THEN 0 ELSE Cardinality(Sound)
  <2>1. UpTo(Handled, Total) = Handled /\ UpTo(Crashes, Total) = Crashes
        /\ UpTo(Sound, Total) = Sound
    BY <1>0, InputsAre, InputsCount, NoneAndAllCount
  <2>2. Tally
    BY <1>4 DEF OracleInv
  <2>3. QED
    BY <1>4, <2>1, <2>2 DEF Tally, CountedTo
<1>5. \A S : Oracle!Cardinality(S) = Cardinality(S)
  BY Zenon DEF Oracle!Cardinality, Cardinality
<1>6. OracleInv => Oracle!PureFunctionsAreJudgedRight
  <2> SUFFICES ASSUME OracleInv, trial = "done", Oracle!Pure
               PROVE  ~agreed <=> IF loads = "both" THEN Crashes # {} ELSE Oracle!Uncollected
    BY Zenon DEF Oracle!PureFunctionsAreJudgedRight, Crashes
  <2>1. CASE loads = "both"
    BY <1>4, <2>1
  <2>2. CASE loads # "both"
    BY <2>2 DEF OracleInv, OnlyLoaded
  <2>3. QED
    BY <2>1, <2>2
<1>7. OracleInv => Oracle!CountsAreOfIndependentTrials
  BY <1>4, <1>5, Zenon DEF Oracle!CountsAreOfIndependentTrials, Handled, Crashes, Sound
<1>8. OracleInv => OracleIsRight
  BY <1>3, <1>6, <1>7 DEF OracleIsRight, Oracle!OracleIsRight
<1>9. QED
  BY <1>1, <1>2, <1>8, PTL DEF Oracle!Spec

(***************************************************************************)
(* The four jobs do not disturb each other, so that each keeps what it     *)
(* keeps alone.                                                            *)
(***************************************************************************)

(* A patch is applied, or its diff is read, or it is tested, or compared with  *)
(* what it changes.                                                            *)
LEMMA EitherIsEach == EitherSpec => Spec /\ Signal!Spec /\ Suite!Spec /\ Oracle!Spec
<1>1. EitherInit => Init /\ Signal!Init /\ Suite!Init /\ Oracle!Init
  BY DEF EitherInit
<1>2. [EitherNext]_either_vars => [Next]_vars
  BY DEF EitherNext, either_vars
<1>3. UNCHANGED signal_vars => UNCHANGED Signal!vars
  BY DEF signal_vars, Signal!vars, Signal!writer, Signal!reader, Signal!judgment
<1>4. [EitherNext]_either_vars => [Signal!Next]_(Signal!vars)
  BY <1>3 DEF EitherNext, either_vars
<1>5. UNCHANGED suite_vars => UNCHANGED Suite!vars
  BY DEF suite_vars, Suite!vars, Suite!tree_vars, Suite!call_vars, Suite!run_vars
<1>6. [EitherNext]_either_vars => [Suite!Next]_(Suite!vars)
  BY <1>5 DEF EitherNext, either_vars, SuiteStep
<1>7. UNCHANGED oracle_vars => UNCHANGED Oracle!vars
  BY DEF oracle_vars, Oracle!vars
<1>8. [EitherNext]_either_vars => [Oracle!Next]_(Oracle!vars)
  BY <1>7 DEF EitherNext, either_vars
<1>9. QED
  BY <1>1, <1>2, <1>4, <1>6, <1>8, PTL
     DEF EitherSpec, Spec, Signal!Spec, Suite!Spec, Oracle!Spec

(* Whatever the system makes of a patch: the sandbox runs what was screened,   *)
(* the patch is applied whole and to its own files alone, the coverage signal  *)
(* scores the lines of the diff, a pass is earned and nothing is left behind,  *)
(* and the oracle's verdict is that of an ideal comparison, but for a patched  *)
(* function that the harness cannot import                                     *)
(* (apply_patch_strict_then_fallback, changed_lines_from_diff, run_sandbox,    *)
(* differential_check).                                                        *)
THEOREM PatchesAreSafe ==
  EitherSpec => [](/\ SandboxRunsWhatWasScreened /\ PatchesAreContained /\ SignalIsRight
                   /\ CallIsClean /\ OracleIsRight)
<1>1. QED
  BY EitherIsEach, WhatWasScreenedRuns, PatchesStayContained, SignalsAreRight,
     CallsAreClean, TheOracleIsRight, PTL
=============================================================================
