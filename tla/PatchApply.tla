----------------------------- MODULE PatchApply -----------------------------
(***************************************************************************)
(* The life of one branch's patch.  apply_patch_strict_then_fallback       *)
(* (nse/orchestrator/patcher.py) is called on a fresh copy of a repository *)
(* snapshot each time the branch is screened, tried by the property        *)
(* oracle, sandboxed or audited; it tries git apply, a three-way merge,    *)
(* diff-match-patch and the planner's full-file rewrites in that order,    *)
(* and each may leave the copy changed.  Meanwhile the developers go on    *)
(* editing the repository the task was started on.                         *)
(*                                                                         *)
(* The text of a file is abstracted to what was done to it; a version of   *)
(* the repository is a number.                                             *)
(***************************************************************************)
EXTENDS Integers, Sequences, FiniteSets, SequencesExt

CONSTANTS
  File,        \* files a patch may touch
  Python,      \* those that symbolic_check parses
  Sensitive,   \* sandbox.sensitive_paths
  MinAbs,      \* sandbox.max_changed_files_min_abs
  Percent,     \* 100 * sandbox.max_changed_files_fraction
  RepoFiles,   \* files in the repository
  MaxEdits,    \* bound: edits to the live repository
  Patches      \* the branches considered

Version == 0 .. MaxEdits

(* How git finds a diff against a version: it applies exactly, merges, leaves *)
(* conflict markers, or refuses and changes nothing.                          *)
GitVerdict == {"exact", "merges", "conflicts", "refused"}

(* diff: the files that patch_preview names in a line +++ a/ or +++ b/;       *)
(* silent: those that git changes for it without such a line, as the file a   *)
(* diff deletes, the old name of one it renames, a binary file or a change of *)
(* mode; rewrites: full_file_rewrites, in order; big: the rewrites over the   *)
(* size cap; exists: the file of a diff of one file is there; spans: the      *)
(* hunks hold the whole new text, and remove no line.                         *)
PatchType ==
  {p \in [diff : SUBSET File, silent : SUBSET File, rewrites : Seq(File),
          big : SUBSET File, exists : BOOLEAN, spans : BOOLEAN,
          git : [Version -> GitVerdict]] :
     p.diff \cap p.silent = {}}

(* The files git changes when it applies the diff, and those a merge that     *)
(* fails leaves markers in while it merges the others.                        *)
Reach(p)      == p.diff \cup p.silent
InConflict(p) == IF p.diff # {} THEN p.diff ELSE p.silent

ASSUME PatchApplyAssumption ==
  /\ IsFiniteSet(File) /\ Python \subseteq File /\ Sensitive \subseteq File
  /\ MinAbs \in Nat /\ Percent \in 0 .. 100 /\ RepoFiles \in Nat /\ MaxEdits \in Nat
  /\ Patches \subseteq PatchType

Use   == {"screen", "oracle", "run", "audit"}
State == {"old", "new", "markers", "hunks", "rewritten"}
Modes == {"git_apply", "git_3way_apply", "fuzzy_apply", "full_rewrite"}
Tree  == [version : Version, file : [File -> State]]

VARIABLES
  repo,      \* version of the live repository
  patch,     \* the branch
  retained,  \* the snapshot kept for the audit, <<>> before it is taken
  snapshot,  \* the snapshot of the task, <<>> before it is taken
  pc,        \* what is next: a step of run_task, or one inside an application
  use,       \* what the current application is for
  tree,      \* the working copy
  left,      \* rewrites still to write
  mode,      \* how the application for each use ended: "" for not yet
  applied,   \* and the tree it left
  routing    \* "", "PRUNE", "LIVE"

bookkeeping == <<retained, snapshot, mode, applied, routing>>
vars == <<repo, patch, pc, use, tree, left, bookkeeping>>

Pristine(v) == [version |-> v, file |-> [f \in File |-> "old"]]
NoTree == <<>>

Init ==
  /\ repo = 0 /\ patch \in Patches
  /\ retained = NoTree /\ snapshot = NoTree
  /\ pc = "plan" /\ use = "screen" /\ tree = Pristine(0) /\ left = <<>>
  /\ mode = [x \in Use |-> ""] /\ applied = [x \in Use |-> Pristine(0)]
  /\ routing = ""

(* A developer, or the program's own caller, changes the repository. *)
Edit ==
  /\ repo < MaxEdits
  /\ repo' = repo + 1
  /\ UNCHANGED <<patch, pc, use, tree, left, bookkeeping>>

-----------------------------------------------------------------------------
(* run_task around the applications. *)

(* A branch of rewrites alone is given their diff against the live files. *)
Plan ==
  /\ pc = "plan"
  /\ patch' = IF Reach(patch) = {} THEN [patch EXCEPT !.diff = ToSet(patch.rewrites)]
              ELSE patch
  /\ pc' = "retain"
  /\ UNCHANGED <<repo, use, tree, left, bookkeeping>>

Retain ==
  /\ pc = "retain"
  /\ retained' = Pristine(repo)
  /\ pc' = "snapshot"
  /\ UNCHANGED <<repo, patch, use, tree, left, snapshot, mode, applied, routing>>

Snapshot ==
  /\ pc = "snapshot"
  /\ snapshot' = Pristine(repo)
  /\ pc' = "start" /\ use' = "screen"
  /\ UNCHANGED <<repo, patch, tree, left, retained, mode, applied, routing>>

(* Every application starts from a copy of its own. *)
Copied == IF use = "audit" THEN retained ELSE snapshot

(* What becomes of the snapshot when the working copy turns to t. *)
InPlace(t) == snapshot' = IF use = "audit" THEN snapshot ELSE t   \* mutant of OnACopy
OnACopy(t) == UNCHANGED snapshot

Work(t) == tree' = t /\ OnACopy(t)

Touch(t, F, s) == [t EXCEPT !.file = [f \in File |-> IF f \in F THEN s ELSE @[f]]]

-----------------------------------------------------------------------------
(* apply_patch_strict_then_fallback. *)
Ends(m) ==
  /\ mode' = [mode EXCEPT ![use] = m]
  /\ applied' = [applied EXCEPT ![use] = tree']
  /\ pc' = "applied"

StillApplying(next) == pc' = next /\ UNCHANGED <<mode, applied>>

DiffOnly == SetToSeq(patch.diff)   \* mutant of Touched
(* touched: the files the diff names (_files_in_diff), then the rewrites. *)
Touched == SetToSeq(patch.diff) \o patch.rewrites

Unsafe ==
  \/ ToSet(Touched) \cap Sensitive # {}
  \/ Len(Touched) >= MinAbs /\ Len(Touched) * 100 > Percent * RepoFiles

Start ==
  /\ pc = "start"
  /\ Work(Copied)
  /\ left' = patch.rewrites
  /\ IF Unsafe THEN Ends("unsafe")
     ELSE StillApplying(IF Reach(patch) # {} THEN "git" ELSE "rewrite")
  /\ UNCHANGED <<repo, patch, use, retained, routing>>

(* A tree that is not what the diff was tried on refuses it. *)
Git == IF \A f \in Reach(patch) : tree.file[f] = "old" THEN patch.git[tree.version]
       ELSE "refused"

(* git apply --index is all or nothing; --3way may fail and leave markers. *)
GitApply ==
  /\ pc = "git"
  /\ LET applied_tree == Touch(tree, Reach(patch), "new") IN
     CASE Git = "exact"  -> Work(applied_tree) /\ Ends("git_apply")
       [] Git = "merges" -> Work(applied_tree) /\ Ends("git_3way_apply")
       [] Git = "conflicts" ->
            /\ Work(Touch(applied_tree, InConflict(patch), "markers"))
            /\ StillApplying("fuzzy")
       [] Git = "refused" -> Work(tree) /\ StillApplying("fuzzy")
  /\ UNCHANGED <<repo, patch, use, left, retained, routing>>

(* The lines the hunks keep or add become the text of the one file that is    *)
(* named, each removed line a blank one.                                      *)
Fuzzy ==
  /\ pc = "fuzzy"
  /\ IF Cardinality(patch.diff) = 1 /\ patch.exists
       THEN /\ Work(Touch(tree, patch.diff, IF patch.spans THEN "new" ELSE "hunks"))
            /\ Ends("fuzzy_apply")
       ELSE Work(tree) /\ StillApplying("rewrite")
  /\ UNCHANGED <<repo, patch, use, left, retained, routing>>

(* The next rewrite, unless it is over the cap: earlier ones are written.   *)
Rewrite ==
  /\ pc = "rewrite" /\ left # <<>>
  /\ left' = Tail(left)
  /\ IF Head(left) \in patch.big
       THEN Work(tree) /\ Ends("unsafe")
       ELSE /\ Work(Touch(tree, {Head(left)}, "rewritten"))
            /\ IF left' = <<>> THEN Ends("full_rewrite") ELSE StillApplying("rewrite")
  /\ UNCHANGED <<repo, patch, use, retained, routing>>

NothingApplies ==
  /\ pc = "rewrite" /\ patch.rewrites = <<>>
  /\ Work(tree) /\ Ends("failed")
  /\ UNCHANGED <<repo, patch, use, left, retained, routing>>

-----------------------------------------------------------------------------
(* What the callers do with the outcome. *)
Prune == routing' = "PRUNE" /\ pc' = "pruned"

(* ast.parse refuses conflict markers; ruff and mypy may refuse anything. *)
LintOnly(t) == {0, 1}   \* mutant of symbolic_check
symbolic_check(t) == IF \E f \in Python : t.file[f] = "markers" THEN {0} ELSE {0, 1}

(* _screen_branch: both exceptions prune; so do the gate and the score. *)
Screened ==
  /\ pc = "applied" /\ use = "screen"
  /\ \/ Prune
     \/ /\ mode["screen"] \in Modes /\ 1 \in symbolic_check(tree)
        /\ routing' = "LIVE" /\ pc' = "live"
  /\ UNCHANGED <<repo, patch, use, tree, left, retained, snapshot, mode, applied>>

Go(x) == use' = x /\ pc' = "start"

(* A live branch may be given to the oracle once, and be sandboxed or not. *)
AskOracle ==
  /\ pc = "live" /\ mode["oracle"] = ""
  /\ Go("oracle")
  /\ UNCHANGED <<repo, patch, tree, left, bookkeeping>>

Sandbox ==
  /\ pc = "live"
  /\ Go("run")
  /\ UNCHANGED <<repo, patch, tree, left, bookkeeping>>

NotSandboxed ==
  /\ pc = "live"
  /\ pc' = "done"
  /\ UNCHANGED <<repo, patch, use, tree, left, bookkeeping>>

(* run_property_oracle: no patch, no opinion; a failing harness prunes. *)
OracleAnswers ==
  /\ pc = "applied" /\ use = "oracle"
  /\ \/ pc' = "live" /\ routing' = routing
     \/ mode["oracle"] \in Modes /\ Prune
  /\ UNCHANGED <<repo, patch, use, tree, left, retained, snapshot, mode, applied>>

(* _apply_and_run: an exception of the patcher would end the task. *)
SandboxEnds ==
  /\ pc = "applied" /\ use = "run"
  /\ pc' = IF mode["run"] \in Modes THEN "done" ELSE "crashed"
  /\ UNCHANGED <<repo, patch, use, tree, left, bookkeeping>>

(* The audit loop samples the row at some later time, or never. *)
Audit ==
  /\ pc = "pruned" /\ mode["screen"] # "unsafe"
  /\ Go("audit")
  /\ UNCHANGED <<repo, patch, tree, left, bookkeeping>>

AuditEnds ==
  /\ pc = "applied" /\ use = "audit"
  /\ pc' = "done"
  /\ UNCHANGED <<repo, patch, use, tree, left, bookkeeping>>

Next ==
  \/ Edit \/ Plan \/ Retain \/ Snapshot
  \/ Start \/ GitApply \/ Fuzzy \/ Rewrite \/ NothingApplies
  \/ Screened \/ AskOracle \/ OracleAnswers \/ Sandbox \/ SandboxEnds
  \/ NotSandboxed \/ Audit \/ AuditEnds

Spec == Init /\ [][Next]_vars

-----------------------------------------------------------------------------
TypeOK ==
  /\ repo \in Version /\ patch \in PatchType
  /\ retained \in Tree \cup {NoTree} /\ snapshot \in Tree \cup {NoTree}
  /\ pc \in {"plan", "retain", "snapshot", "start", "git", "fuzzy", "rewrite",
             "applied", "live", "pruned", "done", "crashed"}
  /\ use \in Use /\ tree \in Tree /\ left \in Seq(File)
  /\ mode \in [Use -> Modes \cup {"", "unsafe", "failed"}]
  /\ applied \in [Use -> Tree]
  /\ routing \in {"", "PRUNE", "LIVE"}

(* What the oracle and the sandbox run is exactly what was screened, whatever *)
(* the developers did to the repository and however the patch went in: every  *)
(* application starts from the same clean state (orchestrator.py:466-468).    *)
(* In particular the sandbox never meets a patch that fails to apply.  The    *)
(* audit runs the same, unless the repository changed between the two copies. *)
SandboxRunsWhatWasScreened ==
  \A x \in {"oracle", "run", "audit"} :
    mode[x] # "" /\ (x = "audit" => retained.version = snapshot.version) =>
      mode[x] = mode["screen"] /\ applied[x] = applied["screen"]

(* A failed merge leaves markers behind on which later tiers may succeed: no  *)
(* Python file with markers reaches the sandbox as a branch that may win.     *)
NoMarkersInTheSandbox ==
  mode["run"] \in Modes => \A f \in Python : applied["run"].file[f] # "markers"

(* No working copy ever holds a changed sensitive file, whichever of its two  *)
(* forms the change came in and whichever tier was reached; but for one that  *)
(* the diff changes without naming it (patcher.py:37), as by deleting it.     *)
SensitiveFilesStay ==
  \A f \in Sensitive \ patch.silent :
    tree.file[f] = "old" /\ \A x \in Use : applied[x].file[f] = "old"

(* A tier that reports success did all of its work, and nothing beyond the    *)
(* files of the patch was changed.  For diff-match-patch, which takes a diff  *)
(* that names one file, that is to write this file: as the diff says if its   *)
(* hunks span it, as the bare text of the hunks otherwise (patcher.py:118).   *)
SuccessIsWhole ==
  \A x \in Use :
    /\ mode[x] \in {"git_apply", "git_3way_apply"} =>
         \A f \in Reach(patch) : applied[x].file[f] = "new"
    /\ mode[x] = "fuzzy_apply" =>
         \E f \in patch.diff :
           /\ patch.diff = {f}
           /\ applied[x].file[f] = IF patch.spans THEN "new" ELSE "hunks"
    /\ mode[x] = "full_rewrite" =>
         \A f \in ToSet(patch.rewrites) : applied[x].file[f] = "rewritten"
    /\ \A f \in File \ (ToSet(Touched) \cup patch.silent) : applied[x].file[f] = "old"

(* An application that is called a success is one, and left no wreckage.      *)
SuccessIsClean == TypeOK /\ SuccessIsWhole /\ NoMarkersInTheSandbox

(* Whatever a patch does, it does it whole, and to no sensitive file it names. *)
PatchesAreContained == SuccessIsClean /\ SensitiveFilesStay
=============================================================================
