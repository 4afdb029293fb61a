------------------------------ MODULE Cascade ------------------------------
(***************************************************************************)
(* run_cascade (nse/orchestrator/cascade.py), the reference of the tiered  *)
(* ordering: a cheap screen of every candidate, an LLM opinion on those it *)
(* keeps, one sandbox run for the selected one.  screen, judge and verify  *)
(* are callbacks of the caller; what they answer is chosen with the call,  *)
(* so that the properties can ask what judging every candidate would have  *)
(* given, and any of them may raise.                                       *)
(***************************************************************************)
EXTENDS Arbiter, FiniteSets

CONSTANTS
  N,           \* most candidates
  Recal,       \* the caller's recalibrator
  Conformal,   \* the caller's conformal threshold, 0 for none
  Latent,      \* what screen may answer: the fields of a LatentPrediction
  Opinions,    \* the p_t_sim judge may answer
  CPlanner     \* the caller's c_planner

ASSUME CascadeAssumption ==
  /\ N \in Nat /\ Conformal \in Nat /\ CPlanner \in Prob
  /\ Recal \in Recalibrators
  /\ Latent \subseteq [latent : Prob, u : Nat, r_long : Prob]
  /\ Opinions \subseteq Prob

Candidate == 1 .. N

VARIABLES
  phase,      \* "start", "screen", "judge", "select", "returned", "raised"
  count,      \* how many candidates the caller passed
  at,         \* the candidate the loop of the phase is at
  lat,        \* what screen answers for each candidate
  opinion,    \* what judge answers for each candidate
  passes,     \* the candidates verify accepts
  pred,       \* the BranchPrediction of each candidate, its signals
  verdict,    \* and its score, routing and reason
  survivors,  \* the candidates the screen kept
  judged,     \* the candidates judge was called on
  result      \* finalist (0 for None), verified and the two "saved" counts

vars == <<phase, count, at, lat, opinion, passes, pred, verdict, survivors,
          judged, result>>

Given == 1 .. count

NoResult == [finalist |-> 0, verified |-> FALSE, llm_saved |-> 0, runs_saved |-> 0]
Blank    == [p_c |-> 1, p_t_sim |-> 0, p_t_latent |-> 0, p_t |-> 0, u |-> 0,
             u_aleatoric |-> 0, r_critic |-> 0, r_long |-> 0, c_planner |-> CPlanner]
Undecided == [score |-> NoScore, routing |-> "UNROUTED", reason |-> "NONE"]

Init ==
  /\ phase = "start" /\ at = 1 /\ count = 0
  /\ lat = <<>> /\ opinion = <<>> /\ passes = {}
  /\ pred = [c \in Candidate |-> Blank]
  /\ verdict = [c \in Candidate |-> Undecided]
  /\ survivors = {} /\ judged = {}
  /\ result = NoResult

(* The caller's list of candidates and what its callbacks will answer. *)
Call ==
  /\ phase = "start"
  /\ \E m \in 0 .. N :
       /\ count' = m
       /\ lat' \in [1 .. m -> Latent] /\ opinion' \in [1 .. m -> Opinions]
       /\ passes' \in SUBSET (1 .. m)
  /\ phase' = "screen"
  /\ UNCHANGED <<at, pred, verdict, survivors, judged, result>>

PessimisticSim == 0   \* mutant of screen_sim
screen_sim == One

(* The tier-1 prediction: the optimistic simulator, no critic. *)
Prediction(l, sim) ==
  [Blank EXCEPT !.p_t_sim = sim, !.p_t_latent = l.latent,
                !.p_t = aggregate_p_t(l.latent, sim), !.u = l.u, !.r_long = l.r_long]

(* decide() without coverage and without the aleatoric ceiling. *)
Decided(s) == decide(s, Recal, 0, Conformal, FALSE)

Record(c, s) ==
  /\ pred' = [pred EXCEPT ![c] = s]
  /\ verdict' = [verdict EXCEPT ![c] = Decided(s)]
  /\ at' = c + 1

Screen ==
  /\ phase = "screen" /\ at <= count
  /\ LET s == Prediction(lat[at], screen_sim) IN
       /\ Record(at, s)
       /\ survivors' = IF Decided(s).routing # "PRUNE" THEN survivors \cup {at} ELSE survivors
  /\ UNCHANGED <<phase, count, lat, opinion, passes, judged, result>>

ScreenEnds ==
  /\ phase = "screen" /\ at > count
  /\ phase' = "judge" /\ at' = 1
  /\ UNCHANGED <<count, lat, opinion, passes, pred, verdict, survivors, judged, result>>

Judgeable == phase = "judge" /\ at \in survivors

Judge ==
  /\ Judgeable
  /\ Record(at, WithSim(pred[at], opinion[at]))
  /\ judged' = judged \cup {at}
  /\ UNCHANGED <<phase, count, lat, opinion, passes, survivors, result>>

Skip ==
  /\ phase = "judge" /\ at <= count /\ at \notin survivors
  /\ at' = at + 1
  /\ UNCHANGED <<phase, count, lat, opinion, passes, pred, verdict, survivors,
                 judged, result>>

JudgeEnds ==
  /\ phase = "judge" /\ at > count
  /\ phase' = "select"
  /\ UNCHANGED <<count, at, lat, opinion, passes, pred, verdict, survivors, judged,
                 result>>

(* The candidates that reach the finalist pool. *)
Pool == {c \in judged : verdict[c].routing # "PRUNE"}

(* What the screen kept off the LLM, counted from the survivors. *)
SavedCalls == count - Cardinality(survivors)

VerifyAtOnce ==   \* mutant of Verify
  /\ phase \in {"judge", "select"}
  /\ \E c \in Pool :
       /\ IsBest(c, Pool, verdict)
       /\ result' = [finalist |-> c, verified |-> c \in passes,
                     llm_saved |-> SavedCalls, runs_saved |-> count - 1]
  /\ phase' = "returned"
  /\ UNCHANGED <<count, at, lat, opinion, passes, pred, verdict, survivors, judged>>

Verify ==
  /\ phase = "select"
  /\ \E c \in Pool :
       /\ IsBest(c, Pool, verdict)
       /\ result' = [finalist |-> c, verified |-> c \in passes,
                     llm_saved |-> SavedCalls, runs_saved |-> count - 1]
  /\ phase' = "returned"
  /\ UNCHANGED <<count, at, lat, opinion, passes, pred, verdict, survivors, judged>>

NothingToVerify ==
  /\ phase = "select"
  /\ \A c \in Pool : verdict[c].routing # "EXECUTE"
  /\ result' = [NoResult EXCEPT !.llm_saved = SavedCalls, !.runs_saved = count]
  /\ phase' = "returned"
  /\ UNCHANGED <<count, at, lat, opinion, passes, pred, verdict, survivors, judged>>

(* A callback raises: run_cascade handles nothing. *)
CallbackRaises ==
  /\ \/ phase = "screen" /\ at <= count
     \/ Judgeable
     \/ phase = "select" /\ \E c \in Pool : verdict[c].routing = "EXECUTE"
  /\ phase' = "raised"
  /\ UNCHANGED <<count, at, lat, opinion, passes, pred, verdict, survivors, judged,
                 result>>

Next ==
  \/ Call \/ Screen \/ ScreenEnds \/ Judge \/ Skip \/ JudgeEnds
  \/ Verify \/ NothingToVerify \/ CallbackRaises

Spec == Init /\ [][Next]_vars

-----------------------------------------------------------------------------
TypeOK ==
  /\ phase \in {"start", "screen", "judge", "select", "returned", "raised"}
  /\ count \in 0 .. N /\ at \in 1 .. N + 1
  /\ lat \in [Given -> [latent : Prob, u : Nat, r_long : Prob]]
  /\ opinion \in [Given -> Prob]
  /\ passes \subseteq Given
  /\ pred \in [Candidate -> Signals]
  /\ verdict \in [Candidate -> Decision \cup {Undecided}]
  /\ judged \subseteq survivors /\ survivors \subseteq Given
  /\ result \in [finalist : 0 .. N, verified : BOOLEAN, llm_saved : 0 .. N,
                 runs_saved : 0 .. N]

(* "Dropped before any LLM spend without hurting recall" (cascade.py:94-97): *)
(* the finalist, verified or not, is the one an exhaustive run that judges   *)
(* every candidate would have selected.                                      *)
AsIfAllJudged ==
  LET full == [c \in Given |-> Decided(Prediction(lat[c], opinion[c]))]
      best == {c \in Given : IsBest(c, Given, full)}
  IN  phase = "returned" =>
        IF best = {} THEN result.finalist = 0 ELSE result.finalist \in best

(* The savings reported are the calls that were not made: with the calls     *)
(* that were made they add up to one per candidate.                          *)
SavingsAddUp ==
  phase = "returned" =>
    /\ result.llm_saved + Cardinality(judged) = count
    /\ result.runs_saved + (IF result.finalist = 0 THEN 0 ELSE 1) = count

(* The cheap tiers cost nothing but the calls they save.                     *)
ScreeningIsFree == TypeOK /\ AsIfAllJudged /\ SavingsAddUp

StageOf(c) ==
  CASE c \notin Given -> "absent"
    [] c \in Given /\ verdict[c].routing = "UNROUTED" -> "new"
    [] c \in Given /\ verdict[c].routing = "PRUNE" -> "dropped"
    [] c \in survivors \ judged -> "survivor"
    [] c \in judged /\ verdict[c].routing = "INCREMENTAL" -> "held"
    [] OTHER -> "ready"

Gate == INSTANCE TieredGate WITH
  stage <- [c \in Candidate |-> StageOf(c)],
  ran <- {c \in Candidate : c = result.finalist},
  MaxRuns <- 1

(* run_cascade keeps the promise of the tiers (cascade.py:1-25). *)
IsACascade == Gate!Spec
=============================================================================
