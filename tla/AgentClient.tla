---------------------------- MODULE AgentClient ----------------------------
(***************************************************************************)
(* The agent triad of one task (nse/agents): planner, then simulator and   *)
(* critic, each a call_list of LLMClient: retried requests, one repair     *)
(* round, a token meter.  run_task decides what a failed call means; the   *)
(* module RunTask builds on the three ways a call can end.                 *)
(*                                                                         *)
(* The host is the environment: it may bill tokens for a reply that the    *)
(* client never reads.                                                     *)
(***************************************************************************)
EXTENDS Integers

CONSTANTS
  MaxRetries,  \* llm.max_retries
  K,           \* hp.k
  Listed,      \* how many items a reply may list
  Usage        \* total_tokens of one reply

(* What an instance has to assume. *)
AgentClientAssumption ==
  MaxRetries \in Nat /\ K \in Nat \ {0} /\ Listed \subseteq Nat /\ Usage \subseteq Nat

VARIABLES
  agent,     \* whose call is next or running, "none" after the last
  pc,        \* "call", "request", "parse"
  tries,     \* failed requests of this _chat
  attempt,   \* 0 the original, 1 the repair
  text,      \* what the content of the reply parses to
  requests,  \* requests each agent sent
  metered,   \* tokens_used of each client
  billed,    \* tokens the host generated for each agent
  unread,    \* those of replies without a readable body
  result,    \* how each call ended
  branches   \* branches the planner returned

vars == <<agent, pc, tries, attempt, text, requests, metered, billed, unread, result,
          branches>>

Agent  == {"planner", "simulator", "critic"}
Texts  == {"items", "garbage", "null"}
Result == {"pending", "list", "AgentError", "crash"}

Init ==
  /\ agent = "planner" /\ pc = "call" /\ tries = 0 /\ attempt = 0 /\ text = "garbage"
  /\ requests = [a \in Agent |-> 0]
  /\ metered = [a \in Agent |-> 0] /\ billed = [a \in Agent |-> 0]
  /\ unread = [a \in Agent |-> 0]
  /\ result = [a \in Agent |-> "pending"]
  /\ branches = 0

-----------------------------------------------------------------------------
(* run_task resets the three meters before the first call. *)
Call ==
  /\ pc = "call" /\ agent # "none"
  /\ pc' = "request" /\ tries' = 0 /\ attempt' = 0
  /\ UNCHANGED <<agent, text, requests, metered, billed, unread, result, branches>>

StopAtFirstFailure(how, found) ==   \* mutant of After
  CASE how # "list" -> {"none"}
    [] how = "list" /\ agent = "planner" ->
         {"none"} \cup (IF found > 0 THEN {"simulator"} ELSE {})
    [] how = "list" /\ agent = "simulator" -> {"critic"}
    [] how = "list" /\ agent = "critic" -> {"none"}

(* Whose turn it may be after agent's call ended so.  The judges are not      *)
(* called without branches, nor when the screen drops them all; an exception  *)
(* other than AgentError ends the task.                                       *)
After(how, found) ==
  CASE how = "crash" -> {"none"}
    [] how # "crash" /\ agent = "planner" ->
         {"none"} \cup (IF how = "list" /\ found > 0 THEN {"simulator"} ELSE {})
    [] how # "crash" /\ agent = "simulator" -> {"critic"}
    [] how # "crash" /\ agent = "critic" -> {"none"}

Ends(how, found) ==
  /\ result' = [result EXCEPT ![agent] = how]
  /\ branches' = IF agent = "planner" THEN found ELSE branches
  /\ agent' \in After(how, found)
  /\ pc' = "call"

Sent == requests' = [requests EXCEPT ![agent] = @ + 1]

(* What is left of the loop over max_retries + 1 requests. *)
TriesLeft == tries < MaxRetries

Retry ==
  IF TriesLeft
    THEN /\ tries' = tries + 1
         /\ UNCHANGED <<agent, pc, result, branches>>
    ELSE /\ Ends("AgentError", 0)
         /\ UNCHANGED tries

(* The request fails: no connection, a timeout, an error status. *)
HttpFails ==
  /\ pc = "request" /\ Sent
  /\ \E u \in Usage \cup {0} :
       /\ billed' = [billed EXCEPT ![agent] = @ + u]
       /\ unread' = [unread EXCEPT ![agent] = @ + u]
  /\ Retry
  /\ UNCHANGED <<attempt, text, metered>>

(* The body is not JSON, or not an object: neither error is handled. *)
BodyUnreadable ==
  /\ pc = "request" /\ Sent
  /\ \E u \in Usage :
       /\ billed' = [billed EXCEPT ![agent] = @ + u]
       /\ unread' = [unread EXCEPT ![agent] = @ + u]
  /\ Ends("crash", 0)
  /\ UNCHANGED <<tries, attempt, text, metered>>

NotMetered(u) == UNCHANGED metered   \* mutant of Metered
Metered(u) == metered' = [metered EXCEPT ![agent] = @ + u]

(* A readable body without the content: KeyError, IndexError.  Its usage was  *)
(* counted before the content was looked up.                                  *)
NoContent ==
  /\ pc = "request" /\ Sent
  /\ \E u \in Usage :
       /\ billed' = [billed EXCEPT ![agent] = @ + u]
       /\ Metered(u)
  /\ Retry
  /\ UNCHANGED <<attempt, text, unread>>

(* "choices": null or "message": null: TypeError, which nothing handles. *)
NullChoice ==
  /\ pc = "request" /\ Sent
  /\ \E u \in Usage :
       /\ billed' = [billed EXCEPT ![agent] = @ + u]
       /\ Metered(u)
  /\ Ends("crash", 0)
  /\ UNCHANGED <<tries, attempt, text, unread>>

Content ==
  /\ pc = "request" /\ Sent
  /\ \E u \in Usage, t \in Texts :
       /\ billed' = [billed EXCEPT ![agent] = @ + u]
       /\ metered' = [metered EXCEPT ![agent] = @ + u]
       /\ text' = t
  /\ pc' = "parse"
  /\ UNCHANGED <<agent, tries, attempt, unread, result, branches>>

-----------------------------------------------------------------------------
(* The planner client gives every branch a fresh id and keeps the first k. *)
Kept(m) == IF m > K THEN K ELSE m

ParseItems ==
  /\ pc = "parse" /\ text = "items"
  /\ \E m \in Listed : Ends("list", Kept(m))
  /\ UNCHANGED <<tries, attempt, text, requests, metered, billed, unread>>

(* Not JSON, or an item the schema refuses: one repair round, a new _chat. *)
Repair ==
  /\ pc = "parse" /\ text = "garbage" /\ attempt = 0
  /\ attempt' = 1 /\ tries' = 0 /\ pc' = "request"
  /\ UNCHANGED <<agent, text, requests, metered, billed, unread, result, branches>>

Unrepairable ==
  /\ pc = "parse" /\ text = "garbage" /\ attempt = 1
  /\ Ends("AgentError", 0)
  /\ UNCHANGED <<tries, attempt, text, requests, metered, billed, unread>>

(* A null content has no strip(): AttributeError, which nothing handles. *)
ParseNull ==
  /\ pc = "parse" /\ text = "null"
  /\ Ends("crash", 0)
  /\ UNCHANGED <<tries, attempt, text, requests, metered, billed, unread>>

Step ==
  \/ Call \/ HttpFails \/ BodyUnreadable \/ NoContent \/ NullChoice \/ Content
  \/ ParseItems \/ Repair \/ Unrepairable \/ ParseNull

Next == Step

Spec == Init /\ [][Next]_vars

-----------------------------------------------------------------------------
TypeOK ==
  /\ agent \in Agent \cup {"none"} /\ pc \in {"call", "request", "parse"}
  /\ tries \in 0 .. MaxRetries /\ attempt \in {0, 1} /\ text \in Texts
  /\ requests \in [Agent -> Nat] /\ metered \in [Agent -> Nat]
  /\ billed \in [Agent -> Nat] /\ unread \in [Agent -> Nat]
  /\ result \in [Agent -> Result]
  /\ branches \in 0 .. K

(* A call costs at most two rounds of max_retries + 1 requests, which is what *)
(* bounds the time between two looks at the budget.                           *)
RequestsAreBounded == \A a \in Agent : requests[a] <= 2 * (MaxRetries + 1)

(* The meter the budget is checked against misses only what no client could   *)
(* read: failed, retried and repaired rounds are all paid for.                *)
MeterMissesOnlyTheUnread == \A a \in Agent : billed[a] = metered[a] + unread[a]

(* What the calls of a task cost is bounded, and on the meters.               *)
CallsAreAccounted == TypeOK /\ RequestsAreBounded /\ MeterMissesOnlyTheUnread

(* The judges are asked only when there is something to judge, and each of    *)
(* them even when the other one failed (orchestrator.py:330-339).             *)
JudgesAreIndependent ==
  /\ \A a \in {"simulator", "critic"} : requests[a] > 0 => branches > 0
  /\ agent = "none" /\ result["simulator"] \in {"list", "AgentError"} =>
       result["critic"] # "pending"

(* orchestrator.py:325: "A failed agent degrades to neutral signals (arbiter  *)
(* defaults), never a crash".                                                 *)
NeverACrash == \A a \in {"simulator", "critic"} : result[a] # "crash"

(* The three calls of a task: every request is paid for and accounted for,    *)
(* and neither judge costs the task the other one.                            *)
AgentsAreAccountable == CallsAreAccounted /\ JudgesAreIndependent
=============================================================================
