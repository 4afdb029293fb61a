------------------------------ MODULE Sandbox ------------------------------
(***************************************************************************)
(* One call of run_sandbox (nse/orchestrator/executor.py), with the map of *)
(* tests it selects from (build_test_map in memory_graph/graph_db.py): the *)
(* selected tests are run in a container, or on the host when there is no  *)
(* Docker, until the first failure or the timeout.                         *)
(*                                                                         *)
(* The map is made from the pristine tree and used on the patched one: a   *)
(* patch may add tests and take some away.  pytest itself is external: it  *)
(* refuses targets that do not exist, and a run of no test at all fails.   *)
(***************************************************************************)
EXTENDS Naturals, FiniteSets

CONSTANTS
  File,  \* source files
  Test,  \* test ids
  Stem   \* the name of a file before .py, and of a test's file between test_ and .py

(* What an instance has to assume. *)
SandboxAssumption ==
  /\ IsFiniteSet(File) /\ IsFiniteSet(Test) /\ File \cap Test = {}
  /\ DOMAIN Stem = File \cup Test

Asks == {"edited", "all", "set"}

VARIABLES
  pc,         \* "collect", "call", "copy", "choose", "launch", "running",
              \* "remove", "clean", "returned", "raised"
  pristine,   \* tests of the pristine tree
  tests_map,  \* file -> tests
  present,    \* tests of the patched tree
  fails,      \* those that fail there
  hangs,      \* those that never return
  asks,       \* for the tests of the edited files, for all, for a designated set
  edited,     \* edited_files of the call
  affected,   \* targets of the pytest command, {} for "."
  left,       \* tests still to run
  backend,    \* "docker" or "local"
  container, scratch,  \* the container and the scratch copy exist
  passed, failed,      \* tests_passed and failed_tests of the SandboxRun
  how                  \* the call is about to be "returned" or "raised"

tree_vars == <<pristine, tests_map, present, fails, hangs>>
call_vars == <<asks, edited, affected>>
run_vars  == <<left, passed, failed, how>>
vars == <<pc, tree_vars, call_vars, run_vars, backend, container, scratch>>

Init ==
  /\ pc = "collect" /\ pristine \in SUBSET Test /\ tests_map = [f \in File |-> {}]
  /\ present = pristine /\ fails = {} /\ hangs = {}
  /\ asks = "all" /\ edited = {} /\ affected = {}
  /\ left = {} /\ backend = "local" /\ container = FALSE /\ scratch = FALSE
  /\ passed = FALSE /\ failed = {} /\ how = "returned"

-----------------------------------------------------------------------------
(* "crude: a test_foo.py exercises foo.py"; no map when pytest cannot be run. *)
Named(f) == {t \in pristine : Stem[t] = Stem[f]}

build_test_map ==
  /\ pc = "collect"
  /\ \/ tests_map' = [f \in File |-> Named(f)]
     \/ tests_map' = [f \in File |-> {}]
  /\ pc' = "call"
  /\ UNCHANGED <<pristine, present, fails, hangs, call_vars, run_vars, backend,
                 container, scratch>>

OnlyTheFirst(E) ==   \* mutant of affected_tests
  IF E = {} THEN {} ELSE tests_map[CHOOSE f \in E : TRUE]
affected_tests(E) == UNION {tests_map[f] : f \in E}

(* The caller has patched its copy.  run_task asks for the tests of the files *)
(* the planner said it edits, the audit and the miner for all of them, the    *)
(* oracle for its harness, the miner for a test_scope that may not exist; the *)
(* edited files of the others are not looked at.                              *)
Call ==
  /\ pc = "call"
  /\ present' \in SUBSET Test /\ fails' \in SUBSET present' /\ hangs' \in SUBSET present'
  /\ edited' \in SUBSET File /\ asks' \in Asks
  /\ asks' # "edited" => edited' = {}
  /\ CASE asks' = "edited" -> affected' = affected_tests(edited')
       [] asks' = "all"    -> affected' = {}
       [] asks' = "set"    -> affected' \in SUBSET Test
  /\ pc' = "copy"
  /\ UNCHANGED <<pristine, tests_map, run_vars, backend, container, scratch>>

(* Leaving the call: the container goes first, then the scratch copy. *)
Leave(h) == how' = h /\ pc' = IF container THEN "remove" ELSE "clean"

Verdict(ok, F) == passed' = ok /\ failed' = F /\ Leave("returned")

Copy ==
  /\ pc = "copy"
  /\ scratch' = TRUE
  /\ \/ pc' = "choose" /\ how' = how
     \/ Leave("raised")
  /\ UNCHANGED <<tree_vars, call_vars, left, passed, failed, backend, container>>

(* force_local, or Docker does not answer. *)
Choose ==
  /\ pc = "choose"
  /\ backend' \in {"docker", "local"}
  /\ pc' = "launch"
  /\ UNCHANGED <<tree_vars, call_vars, run_vars, container, scratch>>

Launch ==
  /\ pc = "launch"
  /\ container' = (backend = "docker")
  /\ left' = IF affected = {} THEN present ELSE affected
  /\ pc' = "running"
  /\ UNCHANGED <<tree_vars, call_vars, passed, failed, how, backend, scratch>>

(* Docker answered the ping and refuses the container. *)
LaunchRaises ==
  /\ pc = "launch" /\ backend = "docker"
  /\ Leave("raised")
  /\ UNCHANGED <<tree_vars, call_vars, left, passed, failed, backend, container, scratch>>

-----------------------------------------------------------------------------
(* pytest, in whatever order it collects the targets, with --maxfail=1. *)
Running == pc = "running" /\ affected \subseteq present

Refused ==
  /\ pc = "running" /\ ~(affected \subseteq present)
  /\ Verdict(FALSE, {})
  /\ UNCHANGED <<tree_vars, call_vars, left, backend, container, scratch>>

TestPasses ==
  /\ Running
  /\ \E t \in left \ (fails \cup hangs) : left' = left \ {t}
  /\ UNCHANGED <<pc, tree_vars, call_vars, passed, failed, how, backend, container,
                 scratch>>

TestFails ==
  /\ Running
  /\ \E t \in (left \cap fails) \ hangs : Verdict(FALSE, {t})
  /\ UNCHANGED <<tree_vars, call_vars, left, backend, container, scratch>>

AllRan ==
  /\ Running /\ left = {}
  /\ Verdict(failed = {} /\ (affected # {} \/ present # {}), failed)
  /\ UNCHANGED <<tree_vars, call_vars, left, backend, container, scratch>>

(* A slow or a hanging run: the host's is a failed one, container.wait raises. *)
OnlyOnTheHost ==   \* mutant of Timeout
  /\ pc = "running" /\ backend = "local"
  /\ Verdict(FALSE, {})
  /\ UNCHANGED <<tree_vars, call_vars, left, backend, container, scratch>>

Timeout ==
  /\ pc = "running"
  /\ \/ backend = "local" /\ Verdict(FALSE, {})
     \/ backend = "docker" /\ Leave("raised") /\ UNCHANGED <<passed, failed>>
  /\ UNCHANGED <<tree_vars, call_vars, left, backend, container, scratch>>

-----------------------------------------------------------------------------
Remove ==
  /\ pc = "remove"
  /\ \/ container' = FALSE /\ how' = how
     \/ container' = container /\ how' = "raised"   \* Docker refuses
  /\ pc' = "clean"
  /\ UNCHANGED <<tree_vars, call_vars, left, passed, failed, backend, scratch>>

CleanOnSuccess ==   \* mutant of Clean
  /\ pc = "clean"
  /\ scratch' = (how = "raised")
  /\ pc' = how
  /\ UNCHANGED <<tree_vars, call_vars, run_vars, backend, container>>

Clean ==
  /\ pc = "clean"
  /\ scratch' = FALSE
  /\ pc' = how
  /\ UNCHANGED <<tree_vars, call_vars, run_vars, backend, container>>

Next ==
  \/ build_test_map \/ Call \/ Copy \/ Choose \/ Launch \/ LaunchRaises
  \/ Refused \/ TestPasses \/ TestFails \/ AllRan \/ Timeout \/ Remove \/ Clean

Spec == Init /\ [][Next]_vars

(* Every call blocks its caller and has a timeout. *)
FairSpec == Spec /\ WF_vars(Next)

-----------------------------------------------------------------------------
Ended == pc \in {"returned", "raised"}

(* A passing run ran what it was asked to run, some test at least, and every  *)
(* one of them to its end: a timeout, a missing target or an empty suite is   *)
(* never a pass (what EXECUTE, the audit and the miner's labels rest on).     *)
PassIsEarned ==
  pc = "returned" /\ passed =>
    LET asked == IF affected = {} THEN present ELSE affected
    IN  asked # {} /\ asked \subseteq present \ (fails \cup hangs)

(* A patch does not pass the run of its own task by breaking, or by taking    *)
(* away, a test that the map gives to any of the files it says it edits.      *)
MappedTestsGate ==
  pc = "returned" /\ passed /\ asks = "edited" =>
    \A f \in edited : tests_map[f] \subseteq present \ (fails \cup hangs)

(* failed_tests names at most one test, and it is one that fails (43-45).     *)
BlameIsRight ==
  pc = "returned" =>
    /\ Cardinality(failed) <= 1 /\ failed \subseteq fails
    /\ failed # {} => ~passed

(* The result of a sandbox call says of the patched tree what is so.          *)
ResultIsEarned == PassIsEarned /\ MappedTestsGate /\ BlameIsRight

(* However the call ends, its scratch copy is gone; its container too, unless *)
(* Docker itself refuses to remove it, which the caller then hears of.        *)
NothingIsLeftBehind ==
  Ended => /\ ~scratch
           /\ container => pc = "raised" /\ backend = "docker"

(* A hanging test cannot hold the task: the call ends. *)
CallEnds == <>Ended

(* A sandbox call says what the tests said and leaves nothing behind.         *)
CallIsClean == ResultIsEarned /\ NothingIsLeftBehind
=============================================================================
