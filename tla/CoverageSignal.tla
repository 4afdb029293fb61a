--------------------------- MODULE CoverageSignal ---------------------------
(***************************************************************************)
(* The coverage signal (nse/tools/coverage_signal.py): which lines of the  *)
(* pristine files a branch touches, by its diff or by rewriting files in   *)
(* full, and how uncertain the tests leave them.                           *)
(*                                                                         *)
(* A diff is written line by line by whoever made it, and read line by     *)
(* line by changed_lines_from_diff; the two go in step here, so that the   *)
(* invariants can compare what the reader believes with where the writer   *)
(* is.  The reader knows a line only by its first characters: the text of  *)
(* a removed line may begin with "-- " and that of an added one with       *)
(* "++ ", and git puts two lines of its own before the header of a file.   *)
(***************************************************************************)
EXTENDS Integers, Sequences, FiniteSets

CONSTANTS
  File,       \* the files of the diff
  Lines,      \* lines of each pristine file
  Executable, \* those of them that coverage.py counts as code
  FullScale,  \* hp.coverage_u_full
  UMax,       \* hp.u_max, in the same unit
  MaxDiff     \* bound: lines of the diff

Line == 1 .. Lines

(* What an instance has to assume. *)
CoverageSignalAssumption ==
  /\ IsFiniteSet(File) /\ Lines \in Nat \ {0} /\ Executable \subseteq Line
  /\ FullScale \in Nat /\ UMax \in Nat /\ MaxDiff \in Nat

VARIABLES
  \* the writer
  file,      \* the file it is at, "" before the first
  at,        \* the pristine line its next context or removed line is
  inside,    \* within a hunk
  hunks,     \* finished and current hunks: file, removed and context lines
  odd,       \* it wrote a line that misleads: it reads as something else
  written,   \* lines written
  \* the reader
  cur, old_ln, removed, context,
  \* the judgment
  whole,      \* the files the branch rewrites in full and the snapshot has
  executed,   \* for each file that was measured, the lines that the tests run
  uncertainty \* numerator and denominator, <<>> before it is computed

writer == <<file, at, inside, hunks, odd, written>>
reader == <<cur, old_ln, removed, context>>
judgment == <<whole, executed, uncertainty>>
vars   == <<writer, reader, judgment>>

NoFile == ""

Init ==
  /\ file = NoFile /\ at = 0 /\ inside = FALSE /\ hunks = <<>> /\ odd = FALSE
  /\ written = 0
  /\ cur = NoFile /\ old_ln = 0
  /\ removed = [f \in File |-> {}] /\ context = [f \in File |-> {}]
  /\ whole = {} /\ executed = [f \in File |-> {}] /\ uncertainty = <<>>

Writes == uncertainty = <<>> /\ written < MaxDiff /\ written' = written + 1

InHunk(h) == hunks' = [hunks EXCEPT ![Len(hunks)] = h]
Hunk == hunks[Len(hunks)]

-----------------------------------------------------------------------------
(* What changed_lines_from_diff does with a line, by what it looks like. *)
ReadNothing == UNCHANGED reader

ReadHeader(f) == cur' = f /\ UNCHANGED <<old_ln, removed, context>>

ReadHunk(n) == old_ln' = n /\ UNCHANGED <<cur, removed, context>>

StandStill ==   \* mutant of ReadRemoved
  /\ removed' = [removed EXCEPT ![cur] = @ \cup {old_ln}]
  /\ UNCHANGED <<cur, old_ln, context>>

ReadRemoved ==
  /\ removed' = [removed EXCEPT ![cur] = @ \cup {old_ln}]
  /\ old_ln' = old_ln + 1
  /\ UNCHANGED <<cur, context>>

(* Every other line is context. *)
ReadContext ==
  /\ context' = [context EXCEPT ![cur] = @ \cup {old_ln}]
  /\ old_ln' = old_ln + 1
  /\ UNCHANGED <<cur, removed>>

-----------------------------------------------------------------------------
(* What the writer writes, and how it is read. *)

(* "--- a/f", "+++ b/f". *)
WriteHeader ==
  /\ Writes
  /\ \E f \in File \ {h.file : h \in {hunks[k] : k \in DOMAIN hunks}} :
       /\ file' = f
       /\ ReadHeader(f)
  /\ inside' = FALSE /\ at' = 0
  /\ UNCHANGED <<hunks, odd, judgment>>

(* "diff --git", "index", then the same: past the first file, the two extra *)
(* lines are read as context of the file before, and count as such if it    *)
(* has no removed line.                                                     *)
WriteGitHeader ==
  /\ Writes
  /\ \E f \in File \ {h.file : h \in {hunks[k] : k \in DOMAIN hunks}} :
       /\ file' = f
       /\ IF cur = NoFile
            THEN ReadHeader(f)
            ELSE /\ context' = [context EXCEPT ![cur] = @ \cup {old_ln, old_ln + 1}]
                 /\ old_ln' = old_ln + 2
                 /\ cur' = f
                 /\ UNCHANGED removed
  /\ odd' = (odd \/ (cur # NoFile /\ removed[cur] = {}))
  /\ inside' = FALSE /\ at' = 0
  /\ UNCHANGED <<hunks, judgment>>

WriteHunk ==
  /\ Writes /\ file # NoFile
  /\ \E n \in Line :
       /\ n > at
       /\ at' = n
       /\ ReadHunk(n)
  /\ inside' = TRUE
  /\ hunks' = Append(hunks, [file |-> file, removed |-> {}, context |-> {}])
  /\ UNCHANGED <<file, odd, judgment>>

WriteContext ==
  /\ Writes /\ inside /\ at <= Lines
  /\ InHunk([Hunk EXCEPT !.context = @ \cup {at}])
  /\ at' = at + 1
  /\ ReadContext
  /\ UNCHANGED <<file, inside, odd, judgment>>

WriteRemoved ==
  /\ Writes /\ inside /\ at <= Lines
  /\ InHunk([Hunk EXCEPT !.removed = @ \cup {at}])
  /\ at' = at + 1
  /\ \/ ReadRemoved /\ odd' = odd
     \/ ReadNothing /\ odd' = TRUE    \* "--- ": the text began with "-- "
  /\ UNCHANGED <<file, inside, judgment>>

WriteAdded ==
  /\ Writes /\ inside
  /\ \/ ReadNothing /\ odd' = odd
     \/ /\ \E f \in File \ {cur} : ReadHeader(f)   \* "+++ ": it names another file
        /\ odd' = TRUE
  /\ UNCHANGED <<file, at, inside, hunks, judgment>>

-----------------------------------------------------------------------------
(* changed_lines: all of a rewritten file, else the lines that are removed    *)
(* from it or, if there are none, the context.                                *)
DiffAlone(f, rewritten) ==   \* mutant of Changed
  IF removed[f] # {} THEN removed[f] ELSE context[f]

Changed(f, rewritten) ==
  IF f \in rewritten THEN Line
  ELSE IF removed[f] # {} THEN removed[f] ELSE context[f]

(* coverage_fraction over all the measured files together, 1 - f scaled. *)
TouchedCode(rewritten, runs) ==
  UNION {{<<f, n>> : n \in Changed(f, rewritten) \cap Executable} : f \in DOMAIN runs}
Ran(code, runs) == {t \in code : t[2] \in runs[t[1]]}
CountCovered(code, runs) == Cardinality(Ran(code, runs))   \* mutant of Uncovered
Uncovered(code, runs) == Cardinality(code \ Ran(code, runs))

(* coverage_uncertainty, whatever the branch rewrites and the tests were       *)
(* measured to run; no measured code touched is no signal.  A measurement that *)
(* failed, and a branch that names no edited files, are one of no file.        *)
Judge ==
  /\ uncertainty = <<>>
  /\ \E rewritten \in SUBSET File, measured \in SUBSET File :
       \E runs \in [measured -> SUBSET Executable] :
         LET code == TouchedCode(rewritten, runs) IN
         /\ whole' = rewritten /\ executed' = runs
         /\ uncertainty' = IF code = {} THEN <<0, 1>>
                           ELSE <<Uncovered(code, runs) * FullScale, Cardinality(code)>>
  /\ UNCHANGED <<writer, reader>>

Next ==
  \/ WriteHeader \/ WriteGitHeader \/ WriteHunk \/ WriteContext \/ WriteRemoved
  \/ WriteAdded \/ Judge

Spec == Init /\ [][Next]_vars

-----------------------------------------------------------------------------
AllHunks == {hunks[k] : k \in DOMAIN hunks}
TrulyRemoved(f) == UNION {h.removed : h \in {g \in AllHunks : g.file = f}}
TrueContext(f)  == UNION {h.context : h \in {g \in AllHunks : g.file = f}}

TypeOK ==
  /\ file \in File \cup {NoFile} /\ cur \in File \cup {NoFile}
  /\ at \in 0 .. Lines + 1 /\ written \in 0 .. MaxDiff
  /\ inside \in BOOLEAN /\ odd \in BOOLEAN
  /\ AllHunks \subseteq [file : File, removed : SUBSET Line, context : SUBSET Line]
  /\ old_ln \in Nat
  /\ removed \in [File -> SUBSET Nat] /\ context \in [File -> SUBSET Nat]
  /\ whole \subseteq File
  /\ DOMAIN executed \subseteq File /\ executed \in [DOMAIN executed -> SUBSET Executable]
  /\ uncertainty = <<>> \/ uncertainty \in Nat \X (Nat \ {0})

(* The reader is where the writer is, in the file and in the line, over any   *)
(* number of files and hunks, for a diff as difflib or as git makes it, as    *)
(* long as none of its lines misleads.                                        *)
ReaderInStep ==
  ~odd =>
    /\ cur = file
    /\ inside => old_ln = at
    /\ \A f \in File :
         /\ removed[f] = TrulyRemoved(f)
         /\ TrulyRemoved(f) = {} => context[f] = TrueContext(f)

(* The lines that are scored are the ones the diff speaks of.                 *)
DiffsAreReadRight == TypeOK /\ ReaderInStep

(* The code a branch changes in the files that were measured: all of a file   *)
(* it rewrites, the lines its diff removes from another one or, where it only *)
(* adds, the lines around.                                                    *)
TrulyChanged(f) ==
  IF f \in whole THEN Line
  ELSE IF TrulyRemoved(f) # {} THEN TrulyRemoved(f) ELSE TrueContext(f)

ChangedCode ==
  UNION {{<<f, n>> : n \in TrulyChanged(f) \cap Executable} : f \in DOMAIN executed}

(* A change most of whose code the tests do not run is held for evidence: its *)
(* uncertainty is above u_max, however it spreads over hunks and files; and   *)
(* one that touches no code is not.  A misleading line does no harm where all *)
(* that was measured is rewritten.                                            *)
UntestedChangeIsHeld ==
  LET covered == {t \in ChangedCode : t[2] \in executed[t[1]]}
  IN  (~odd \/ DOMAIN executed \subseteq whole) /\ uncertainty # <<>> =>
        IF ChangedCode = {} THEN uncertainty[1] = 0
        ELSE uncertainty[1] > UMax * uncertainty[2] <=>
               Cardinality(covered) * FullScale
                 < (FullScale - UMax) * Cardinality(ChangedCode)

(* The signal that a change is untested comes from the lines the branch       *)
(* changes, and holds it exactly when too few of them are covered.            *)
SignalIsRight == DiffsAreReadRight /\ UntestedChangeIsHeld
=============================================================================
