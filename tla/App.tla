-------------------------------- MODULE App --------------------------------
(***************************************************************************)
(* The HTTP entry point (nse/orchestrator/app.py).  submit_task is a plain *)
(* function, so FastAPI runs each request on a thread of its pool; the     *)
(* threads share the global _orch, and with it the three token meters and  *)
(* the SQLite connection, which refuses any thread but the one that opened *)
(* it.  What run_task does in between is the module RunTask; here it is    *)
(* only its uses of what the threads share.                                *)
(***************************************************************************)
EXTENDS Integers, Sequences

CONSTANTS
  Thread,       \* threads of the pool
  MaxTokens,    \* budgets.max_total_llm_tokens_per_task
  Usage,        \* tokens the agents may use in one phase
  MaxRequests   \* bound: requests received

ASSUME AppAssumption ==
  MaxTokens \in Nat /\ Usage \subseteq Nat /\ MaxRequests \in Nat

VARIABLES
  orch,       \* the orchestrators made so far: owner thread, mode, token meter
  current,    \* the global _orch, 0 for None
  pc,         \* what each thread is doing
  asked,      \* force_local_sandbox of its request
  mine,       \* the orchestrator it made or was given, 0 for none
  spent,      \* tokens its own task used
  reset_by,   \* threads that reset the meter its task relies on, or added to it
  raced,      \* another thread set _orch while this one was in _get_orchestrator
  verdict,    \* how its last request ended: "none", "ran", "stopped", "failed"
  received

task_vars == <<spent, reset_by, raced, verdict>>
vars == <<orch, current, pc, asked, mine, task_vars, received>>

Phases == {"idle", "test", "assign", "return", "reset", "plan", "insert",
           "check", "judge", "recheck"}
Looking == {"test", "assign", "return"}

Init ==
  /\ orch = <<>> /\ current = 0 /\ received = 0
  /\ pc = [t \in Thread |-> "idle"]
  /\ asked = [t \in Thread |-> FALSE]
  /\ mine = [t \in Thread |-> 0]
  /\ spent = [t \in Thread |-> 0]
  /\ reset_by = [t \in Thread |-> {}]
  /\ raced = [t \in Thread |-> FALSE]
  /\ verdict = [t \in Thread |-> "none"]

At(t, phase) == pc[t] = phase
Goto(t, phase) == pc' = [pc EXCEPT ![t] = phase]

Ends(t, how) ==
  /\ verdict' = [verdict EXCEPT ![t] = how]
  /\ Goto(t, "idle")

-----------------------------------------------------------------------------
Request(t) ==
  /\ At(t, "idle") /\ received < MaxRequests
  /\ received' = received + 1
  /\ \E local \in BOOLEAN : asked' = [asked EXCEPT ![t] = local]
  /\ mine' = [mine EXCEPT ![t] = 0]
  /\ spent' = [spent EXCEPT ![t] = 0]
  /\ reset_by' = [reset_by EXCEPT ![t] = {}]
  /\ raced' = [raced EXCEPT ![t] = FALSE]
  /\ verdict' = [verdict EXCEPT ![t] = "none"]
  /\ Goto(t, "test")
  /\ UNCHANGED <<orch, current>>

(* _get_orchestrator, first line. *)
AnyWillDo(t) == current # 0   \* mutant of Fits
Fits(t) == current # 0 /\ orch[current].mode = asked[t]

Reuse(t) ==
  /\ At(t, "test") /\ Fits(t)
  /\ Goto(t, "return")
  /\ UNCHANGED <<orch, current, asked, mine, task_vars, received>>

(* The constructor: opens the database, reads the weights and the files. *)
Construct(t) ==
  /\ At(t, "test") /\ ~Fits(t)
  /\ orch' = Append(orch, [owner |-> t, mode |-> asked[t], meter |-> 0])
  /\ mine' = [mine EXCEPT ![t] = Len(orch')]
  /\ Goto(t, "assign")
  /\ UNCHANGED <<current, asked, task_vars, received>>

Assign(t) ==
  /\ At(t, "assign")
  /\ current' = mine[t]
  /\ raced' = [s \in Thread |-> raced[s] \/ (s # t /\ pc[s] \in Looking)]
  /\ Goto(t, "return")
  /\ UNCHANGED <<orch, asked, mine, spent, reset_by, verdict, received>>

(* "return _orch" reads the global again. *)
Return(t) ==
  /\ At(t, "return")
  /\ mine' = [mine EXCEPT ![t] = current]
  /\ Goto(t, "reset")
  /\ UNCHANGED <<orch, current, asked, task_vars, received>>

-----------------------------------------------------------------------------
(* run_task on the orchestrator: the meters are reset, then used. *)
Sharing(t) == {s \in Thread \ {t} : mine[s] = mine[t] /\ pc[s] \notin {"idle"} \cup Looking}

Disturb(t) ==
  reset_by' = [s \in Thread |-> IF s \in Sharing(t) THEN reset_by[s] \cup {t}
                                ELSE reset_by[s]]

ForgetReset(t) ==   \* mutant of Reset
  /\ At(t, "reset")
  /\ Disturb(t)
  /\ Goto(t, "plan")
  /\ UNCHANGED <<orch, current, asked, mine, spent, raced, verdict, received>>

Reset(t) ==
  /\ At(t, "reset")
  /\ orch' = [orch EXCEPT ![mine[t]].meter = 0]
  /\ Disturb(t)
  /\ Goto(t, "plan")
  /\ UNCHANGED <<current, asked, mine, spent, raced, verdict, received>>

(* Agent calls use tokens; they are all counted by the shared meters. *)
CallAgents(t, from, to) ==
  /\ At(t, from)
  /\ \E u \in Usage :
       /\ orch' = [orch EXCEPT ![mine[t]].meter = @ + u]
       /\ spent' = [spent EXCEPT ![t] = @ + u]
  /\ Disturb(t)
  /\ Goto(t, to)
  /\ UNCHANGED <<current, asked, mine, raced, verdict, received>>

Plan(t)  == CallAgents(t, "plan", "insert")
Judge(t) == CallAgents(t, "judge", "recheck")

(* sqlite3.ProgrammingError on the first insert from another thread. *)
AnyThread(t) == TRUE   \* mutant of OwnsConnection
OwnsConnection(t) == orch[mine[t]].owner = t

InsertBranches(t) ==
  /\ At(t, "insert") /\ OwnsConnection(t)
  /\ Goto(t, "check")
  /\ UNCHANGED <<orch, current, asked, mine, task_vars, received>>

WrongThread(t) ==
  /\ At(t, "insert") /\ ~OwnsConnection(t)
  /\ Ends(t, "failed")
  /\ UNCHANGED <<orch, current, asked, mine, spent, reset_by, raced, received>>

(* check_budget, before the judges and before the sandbox. *)
OverBudget(t) == orch[mine[t]].meter > MaxTokens

BudgetStops(t) ==
  /\ pc[t] \in {"check", "recheck"} /\ OverBudget(t)
  /\ Ends(t, "stopped")
  /\ UNCHANGED <<orch, current, asked, mine, spent, reset_by, raced, received>>

ToTheJudges(t) ==
  /\ At(t, "check") /\ ~OverBudget(t)
  /\ Goto(t, "judge")
  /\ UNCHANGED <<orch, current, asked, mine, task_vars, received>>

Sandbox(t) ==
  /\ At(t, "recheck") /\ ~OverBudget(t)
  /\ Ends(t, "ran")
  /\ UNCHANGED <<orch, current, asked, mine, spent, reset_by, raced, received>>

Serve(t) ==
  \/ Reuse(t) \/ Construct(t) \/ Assign(t) \/ Return(t)
  \/ Reset(t) \/ Plan(t) \/ InsertBranches(t) \/ WrongThread(t)
  \/ BudgetStops(t) \/ ToTheJudges(t) \/ Judge(t) \/ Sandbox(t)

Next == \E t \in Thread : Request(t) \/ Serve(t)

Spec == Init /\ [][Next]_vars

-----------------------------------------------------------------------------
(* Two tasks never write through one connection, nor judge on one             *)
(* orchestrator: whatever the interleaving, at most one gets past planning.   *)
OneTaskPerConnection ==
  \A s, t \in Thread :
    s # t /\ pc[s] \in {"check", "judge", "recheck"} /\ pc[t] \in {"check", "judge", "recheck"}
      => mine[s] # mine[t]

(* Each task is held to its own budget, in both directions, unless another    *)
(* request used the same meters in between.                                   *)
BudgetIsOwnUnlessShared ==
  \A t \in Thread : reset_by[t] = {} =>
    /\ verdict[t] = "ran" => spent[t] <= MaxTokens
    /\ verdict[t] = "stopped" => spent[t] > MaxTokens

(* A task runs in the sandbox mode its request asked for, unless another      *)
(* request replaced _orch inside _get_orchestrator; replacing it later does   *)
(* not touch a task that is under way.                                        *)
ModeAsAskedUnlessRaced ==
  \A t \in Thread : pc[t] \notin {"idle"} \cup Looking /\ ~raced[t] =>
    orch[mine[t]].mode = asked[t]

(* A task runs with the budget and in the mode that its request asked for,    *)
(* up to the interference of other requests that the code allows.             *)
TasksRunAsAsked == BudgetIsOwnUnlessShared /\ ModeAsAskedUnlessRaced
=============================================================================
