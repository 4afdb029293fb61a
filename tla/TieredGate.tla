---------------------------- MODULE TieredGate ----------------------------
(***************************************************************************)
(* What the cost-tiered cascade of NSE promises, whoever implements it     *)
(* (run_cascade in nse/orchestrator/cascade.py, Orchestrator.run_task):    *)
(* every candidate goes through the tiers in order, an expensive tier only *)
(* sees what the cheaper one let through, a tier starts when the one below *)
(* it is finished with every candidate, and the sandbox is spent either on *)
(* the one selected candidate or, when none is selected, on held ones.     *)
(***************************************************************************)
EXTENDS Integers, FiniteSets

CONSTANTS Candidate, MaxRuns

VARIABLES
  stage,    \* where each candidate stands in the cascade
  ran       \* the candidates the sandbox was spent on

vars == <<stage, ran>>

Stages == {"absent", "new", "dropped", "survivor", "held", "human", "ready"}

At(s) == {c \in Candidate : stage[c] = s}

TypeOK == stage \in [Candidate -> Stages] /\ ran \subseteq Candidate

Init == stage = [c \in Candidate |-> "absent"] /\ ran = {}

Move(c, from, to) == stage[c] = from /\ stage' = [stage EXCEPT ![c] = to]

(* The candidates of the task arrive together. *)
Propose(C) ==
  /\ At("absent") = Candidate
  /\ stage' = [c \in Candidate |-> IF c \in C THEN "new" ELSE "absent"]
  /\ UNCHANGED ran

Screen(c) ==
  /\ \E to \in {"dropped", "survivor"} : Move(c, "new", to)
  /\ UNCHANGED ran

(* A candidate may be held for evidence, or left to a human: then it is not run. *)
Judge(c) ==
  /\ At("new") = {}
  /\ \E to \in {"dropped", "held", "human", "ready"} : Move(c, "survivor", to)
  /\ UNCHANGED ran

(* The sandbox: one selected candidate, and only when no run was spent. *)
Verify(c) ==
  /\ At("new") = {} /\ At("survivor") = {}
  /\ stage[c] = "ready" /\ ran = {}
  /\ ran' = {c}
  /\ UNCHANGED stage

(* Evidence runs: held candidates, each once, when nothing was selected. *)
Probe(c) ==
  /\ At("new") = {} /\ At("survivor") = {} /\ At("ready") = {}
  /\ stage[c] = "held" /\ c \notin ran
  /\ Cardinality(ran) < MaxRuns
  /\ ran' = ran \cup {c}
  /\ UNCHANGED stage

Next ==
  \/ \E C \in SUBSET Candidate : Propose(C)
  \/ \E c \in Candidate : Screen(c) \/ Judge(c) \/ Verify(c) \/ Probe(c)

Spec == Init /\ [][Next]_vars

-----------------------------------------------------------------------------
(* The sandbox is never spent on a candidate some tier dropped or left to a  *)
(* human, never on evidence while a candidate is selected, never on two      *)
(* selected ones, and never beyond the cap.                                  *)
SpendIsSelective ==
  /\ ran \subseteq At("held") \cup At("ready")
  /\ At("ready") # {} => \E c \in At("ready") : ran \subseteq {c}
  /\ Cardinality(ran) <= MaxRuns

(* A tier's verdict is final once the sandbox was used: no candidate is      *)
(* judged with the outcome of another one known.                             *)
NoJudgingAfterASpend == [][ran # {} => stage' = stage]_vars
=============================================================================
