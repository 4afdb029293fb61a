----------------------------- MODULE MCPatches -----------------------------
(* What the system makes of the patch of a branch.  job says what: PatchApply *)
(* applies it, CoverageSignal reads its diff, Sandbox runs the tests of the   *)
(* patched tree, or PropertyOracle compares a function before and after; the  *)
(* others are at rest.                                                        *)
EXTENDS PatchApply, TLC

(* Applied: two Python files, a data file and a sensitive one, in a           *)
(* repository of a dozen files that is edited once; and the shapes a          *)
(* planner's branch may have: a diff, one that deletes a file, rewrites, or   *)
(* both.                                                                      *)
CONSTANTS a, b, data, env

MCPatches ==
  {p \in [diff : {{}, {a}, {a, b}, {data}, {a, env}}, silent : {{}, {b}, {env}},
          rewrites : {<<>>, <<a>>, <<b, a>>, <<data>>, <<b, env>>},
          big : {{}, {a}}, exists : BOOLEAN, spans : BOOLEAN,
          git : [Version -> GitVerdict]] :
     /\ Reach(p) # {} \/ p.rewrites # <<>>
     /\ p.diff \cap p.silent = {}
     /\ p.silent # {} => p.rewrites \in {<<>>, <<b, a>>}
     /\ p.big \subseteq ToSet(p.rewrites)}

(* Read: two files of four lines, two of them code, between comments;         *)
(* uncertainties in hundredths.                                               *)
CONSTANTS DiffFile, Lines, Executable, FullScale, UMax, MaxDiff

(* Tested: two tests of one file and one of another, each of which may be     *)
(* new, gone, failing or hanging in the patched tree.                         *)
CONSTANTS SuiteFile, Test, Stem, t1, t2, t3

MCStem == a :> "x" @@ b :> "y" @@ t1 :> "x" @@ t2 :> "x" @@ t3 :> "y"

(* Compared: lists of no, one and three elements in four combinations,        *)
(* twenty-four functions.                                                     *)
CONSTANTS Pool, Inputs, Candidates

MCPool == <<0, 1, 3>>
MCInputs == << <<1, 2>>, <<2, 3>>, <<2, 1>>, <<3, 3>> >>
MCCandidates == [needs : {0, 1, 2, 5}, takes : 0 .. 2, adds : {0, 1}]

VARIABLES
  job,
  file, at, inside, hunks, odd, written, cur, old_ln, removed, context, whole, executed,
  uncertainty,
  call, pristine, tests_map, present, fails, hangs, asks, edited, affected, queue, backend,
  container, scratch, passed, failed, how,
  way, golden, candidate, loads, heap, input, trial, returned, comparable, new_crashes,
  divergences, agreed

signal_vars ==
  <<file, at, inside, hunks, odd, written, cur, old_ln, removed, context, whole, executed,
    uncertainty>>
suite_vars ==
  <<call, pristine, tests_map, present, fails, hangs, asks, edited, affected, queue,
    backend, container, scratch, passed, failed, how>>
oracle_vars ==
  <<way, golden, candidate, loads, heap, input, trial, returned, comparable, new_crashes,
    divergences, agreed>>

Signal == INSTANCE CoverageSignal WITH File <- DiffFile
Suite  == INSTANCE Sandbox WITH File <- SuiteFile, pc <- call, left <- queue
Oracle == INSTANCE PropertyOracle WITH i <- input, pc <- trial, ok <- agreed

ASSUME SignalAssumption == Signal!CoverageSignalAssumption
ASSUME SuiteAssumption  == Suite!SandboxAssumption
ASSUME OracleAssumption == Oracle!PropertyOracleAssumption

EitherInit ==
  /\ job \in {"apply", "read", "test", "compare"}
  /\ \/ job = "apply" /\ Init
     \/ job # "apply" /\ patch = (CHOOSE p \in Patches : TRUE) /\ Init
  /\ Signal!Init
  /\ \/ job = "test" /\ Suite!Init
     \/ job # "test" /\ pristine = {} /\ Suite!Init
  /\ \/ job = "compare" /\ Oracle!Init
     \/ /\ job # "compare" /\ way = "process" /\ loads = "both"
        /\ golden = [needs |-> 0, takes |-> 0, adds |-> 0] /\ candidate = golden
        /\ Oracle!Init

SuiteStep == job = "test" /\ Suite!Next

EitherNext ==
  /\ UNCHANGED job
  /\ \/ job = "apply" /\ Next /\ UNCHANGED <<signal_vars, suite_vars, oracle_vars>>
     \/ job = "read" /\ Signal!Next /\ UNCHANGED <<vars, suite_vars, oracle_vars>>
     \/ SuiteStep /\ UNCHANGED <<vars, signal_vars, oracle_vars>>
     \/ job = "compare" /\ Oracle!Next /\ UNCHANGED <<vars, signal_vars, suite_vars>>

either_vars == <<job, vars, signal_vars, suite_vars, oracle_vars>>

EitherSpec == EitherInit /\ [][EitherNext]_either_vars

(* A sandbox call blocks its caller and has a timeout. *)
FairEitherSpec == EitherSpec /\ WF_suite_vars(SuiteStep)

(* The properties of CoverageSignal, Sandbox and PropertyOracle, stated there. *)
SignalIsRight == Signal!SignalIsRight
CallIsClean   == Suite!CallIsClean
OracleIsRight == Oracle!OracleIsRight
PrunedForACrash == Oracle!PrunedForACrash
SuiteEnds     == job = "test" => Suite!CallEnds
=============================================================================
