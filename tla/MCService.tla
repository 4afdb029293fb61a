----------------------------- MODULE MCService -----------------------------
(* Requests and agents: App serves requests on the threads of the pool, or    *)
(* AgentClient makes the three agent calls of one task.  job says which; the  *)
(* other is at rest.  Two threads, a task using one or three of three tokens  *)
(* a phase; one retry, a reply listing no, k or k + 1 branches.               *)
EXTENDS App

CONSTANTS MaxRetries, K, Listed, ReplyUsage

VARIABLES
  job,
  agent, call, tries, attempt, text, requests, metered, billed, unread, result, branches

triad_vars ==
  <<agent, call, tries, attempt, text, requests, metered, billed, unread, result,
    branches>>

Triad == INSTANCE AgentClient WITH pc <- call, Usage <- ReplyUsage

ASSUME TriadAssumption == Triad!AgentClientAssumption

EitherInit == job \in {"serve", "agents"} /\ Init /\ Triad!Init

EitherNext ==
  /\ UNCHANGED job
  /\ \/ job = "serve" /\ Next /\ UNCHANGED triad_vars
     \/ job = "agents" /\ Triad!Next /\ UNCHANGED vars

EitherSpec == EitherInit /\ [][EitherNext]_<<job, vars, triad_vars>>

(* The property of AgentClient, stated there. *)
AgentsAreAccountable == Triad!AgentsAreAccountable
=============================================================================
