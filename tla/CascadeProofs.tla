--------------------------- MODULE CascadeProofs ---------------------------
(***************************************************************************)
(* The reference cascade keeps its promises for any number of candidates,  *)
(* any weights, thresholds and monotone recalibrator, and whatever its     *)
(* callbacks answer: what the cheap tiers spare costs nothing, and the     *)
(* tiers are those of TieredGate.                                          *)
(***************************************************************************)
EXTENDS Cascade, ArbiterProofs, FiniteSetTheorems

IsDecided(c) == verdict[c].routing # "UNROUTED"

(* A candidate that was not judged still has its optimistic prediction, and  *)
(* its verdict follows from its prediction.                                  *)
Ledger ==
  \A c \in Given :
    /\ IsDecided(c) =>
         /\ pred[c] = Prediction(lat[c], IF c \in judged THEN opinion[c] ELSE One)
         /\ verdict[c] = Decided(pred[c])
    /\ c \in survivors <=>
         IsDecided(c) /\ Decided(Prediction(lat[c], One)).routing # "PRUNE"

(* How far the loops have come. *)
Progress ==
  /\ phase = "start" => /\ count = 0 /\ at = 1
                        /\ \A c \in Candidate : verdict[c] = Undecided
  /\ phase \in {"start", "screen"} => judged = {}
  /\ phase = "screen" => \A c \in Given : c < at <=> IsDecided(c)
  /\ phase \in {"judge", "select", "returned"} => \A c \in Given : IsDecided(c)
  /\ phase = "judge" => judged = {c \in survivors : c < at}
  /\ phase \in {"select", "returned"} => judged = survivors

(* What is returned: the best of the pool, or nothing when it has none. *)
Returned ==
  /\ phase # "returned" => result = NoResult
  /\ phase = "returned" =>
       /\ result.llm_saved = SavedCalls
       /\ \/ IsBest(result.finalist, Pool, verdict) /\ result.runs_saved = count - 1
          \/ /\ result.finalist = 0 /\ result.runs_saved = count
             /\ \A c \in Pool : verdict[c].routing # "EXECUTE"

CascadeInv == TypeOK /\ Ledger /\ Progress /\ Returned

-----------------------------------------------------------------------------
(* The constants are numbers, and so are the candidates. *)
LEMMA CascadeConstants ==
  /\ N \in Nat /\ Conformal \in Nat /\ CPlanner \in Prob /\ Recal \in Recalibrators
  /\ \A c \in Candidate : c \in Nat /\ c >= 1 /\ c <= N
  /\ 0 \in Prob /\ One \in Prob
BY CascadeAssumption, OneFacts DEF Candidate, Prob

(* A prediction, field by field. *)
Row(l, sim) ==
  [p_c |-> 1, p_t_sim |-> sim, p_t_latent |-> l.latent,
   p_t |-> aggregate_p_t(l.latent, sim), u |-> l.u, u_aleatoric |-> 0,
   r_critic |-> 0, r_long |-> l.r_long, c_planner |-> CPlanner]

LEMMA PredictionIsRow ==
  ASSUME NEW l, NEW sim
  PROVE  Prediction(l, sim) = Row(l, sim)
<1> DEFINE b1 == [Blank EXCEPT !.p_t_sim = sim]
           b2 == [b1 EXCEPT !.p_t_latent = l.latent]
           b3 == [b2 EXCEPT !.p_t = aggregate_p_t(l.latent, sim)]
           b4 == [b3 EXCEPT !.u = l.u]
           Fields(q, p, u) ==
             [p_c |-> 1, p_t_sim |-> sim, p_t_latent |-> q, p_t |-> p, u |-> u,
              u_aleatoric |-> 0, r_critic |-> 0, r_long |-> 0, c_planner |-> CPlanner]
<1>1. Prediction(l, sim) = [b4 EXCEPT !.r_long = l.r_long]
  BY DEF Prediction
<1>2. b1 = Fields(0, 0, 0)
  BY DEF Blank
<1> HIDE DEF b1
<1>3. b2 = Fields(l.latent, 0, 0)
  BY <1>2
<1> HIDE DEF b2
<1>4. b3 = Fields(l.latent, aggregate_p_t(l.latent, sim), 0)
  BY <1>3
<1> HIDE DEF b3
<1>5. b4 = Fields(l.latent, aggregate_p_t(l.latent, sim), l.u)
  BY <1>4
<1> HIDE DEF b4
<1>6. QED
  BY <1>1, <1>5 DEF Row

(* A prediction is a record of signals that differs from the one before the  *)
(* judgment by the judgment.                                                 *)
LEMMA PredictionFacts ==
  ASSUME NEW l \in [latent : Prob, u : Nat, r_long : Prob], NEW sim \in Prob
  PROVE  /\ Prediction(l, sim) \in Signals
         /\ Prediction(l, sim) = WithSim(Prediction(l, One), sim)
         /\ Prediction(l, sim) = WithJudgment(Prediction(l, One), sim, 0)
         /\ Prediction(l, sim).p_c = 1
<1>1. /\ l.latent \in Prob /\ l.u \in Nat /\ l.r_long \in Prob
      /\ CPlanner \in Prob /\ 0 \in Prob /\ 0 \in Nat /\ 0 \in PT
  BY CascadeConstants, OneFacts DEF PT
<1>2. aggregate_p_t(l.latent, sim) \in PT
  BY <1>1, AggregateType
<1>3. Prediction(l, sim) = Row(l, sim) /\ Prediction(l, One) = Row(l, One)
  BY PredictionIsRow
<1>5. Prediction(l, sim) \in Signals
  BY <1>1, <1>2, <1>3 DEF Signals, Row
<1>6. WithSim(Row(l, One), sim) = Row(l, sim)
  <2> DEFINE s == Row(l, One)
             r == [s EXCEPT !.p_t_sim = sim]
  <2>1. s.p_t_latent = l.latent
    BY DEF Row
  <2>2. r = [Row(l, One) EXCEPT !.p_t_sim = sim]
    OBVIOUS
  <2>3. WithSim(s, sim) = [r EXCEPT !.p_t = aggregate_p_t(l.latent, sim)]
    BY <2>1 DEF WithSim
  <2>4. QED
    BY <2>3 DEF Row
<1>7. WithJudgment(Row(l, One), sim, 0) = Row(l, sim)
  <2>1. [Row(l, sim) EXCEPT !.r_critic = 0] = Row(l, sim)
    BY DEF Row
  <2>2. QED
    BY <1>6, <2>1 DEF WithJudgment
<1>8. Row(l, sim).p_c = 1
  BY DEF Row
<1>9. QED
  BY <1>3, <1>5, <1>6, <1>7, <1>8

(* Every candidate is routed, and never left to a human. *)
LEMMA DecidedFacts ==
  ASSUME NEW l \in [latent : Prob, u : Nat, r_long : Prob], NEW sim \in Prob
  PROVE  /\ Decided(Prediction(l, sim)) \in Decision
         /\ Decided(Prediction(l, sim)).routing \in {"PRUNE", "INCREMENTAL", "EXECUTE"}
         /\ Decided(Prediction(l, sim)).routing = "PRUNE" <=>
              Decided(Prediction(l, sim)).reason = "LOW_SCORE"
<1>1. Prediction(l, sim) \in Signals /\ Prediction(l, sim).p_c = 1
  BY PredictionFacts
<1>2. Decided(Prediction(l, sim)) \in Decision
  BY <1>1, CascadeConstants, DecideType DEF Decided
<1>3. QED
  BY <1>1, <1>2 DEF Decided, decide

(* ScreenSound for the calibration of the caller. *)
LEMMA ScreenForAll ==
  ASSUME NEW s \in Signals, NEW sim \in Prob, NEW crit \in Prob,
         Decided(WithJudgment(s, One, 0)).reason = "LOW_SCORE"
  PROVE  Decided(WithJudgment(s, sim, crit)).reason = "LOW_SCORE"
<1>1. \A e \in BOOLEAN :
        decide(WithJudgment(s, One, 0), Recal, 0, Conformal, e).reason = "LOW_SCORE" =>
        decide(WithJudgment(s, sim, crit), Recal, 0, Conformal, e).reason = "LOW_SCORE"
  BY CascadeConstants, ScreenSound
<1>2. decide(WithJudgment(s, One, 0), Recal, 0, Conformal, FALSE).reason = "LOW_SCORE" =>
      decide(WithJudgment(s, sim, crit), Recal, 0, Conformal, FALSE).reason = "LOW_SCORE"
  BY <1>1
<1>3. QED
  BY <1>2 DEF Decided

(* What the screen drops, no opinion could have saved. *)
LEMMA DroppedIsDropped ==
  ASSUME NEW l \in [latent : Prob, u : Nat, r_long : Prob], NEW sim \in Prob,
         Decided(Prediction(l, One)).routing = "PRUNE"
  PROVE  Decided(Prediction(l, sim)).routing = "PRUNE"
<1>1. One \in Prob /\ 0 \in Prob
  BY CascadeConstants
<1>2. /\ Prediction(l, One) \in Signals
      /\ WithJudgment(Prediction(l, One), One, 0) = Prediction(l, One)
      /\ WithJudgment(Prediction(l, One), sim, 0) = Prediction(l, sim)
  BY <1>1, PredictionFacts
<1>3. Decided(WithJudgment(Prediction(l, One), One, 0)).reason = "LOW_SCORE"
  BY <1>1, <1>2, DecidedFacts
<1>4. Decided(WithJudgment(Prediction(l, One), sim, 0)).reason = "LOW_SCORE"
  BY <1>1, <1>2, <1>3, ScreenForAll
<1>5. QED
  BY <1>2, <1>4, DecidedFacts

-----------------------------------------------------------------------------
LatentRow == [latent : Prob, u : Nat, r_long : Prob]

(* What the callbacks answer for a candidate of the call. *)
LEMMA GivenFacts ==
  ASSUME TypeOK
  PROVE  /\ count \in 0 .. N /\ at \in Nat /\ Given \subseteq Candidate
         /\ \A c \in Given : lat[c] \in LatentRow /\ opinion[c] \in Prob /\ c \in Nat
         /\ \A c \in Nat : c >= 1 /\ c <= count => c \in Given
BY CascadeConstants DEF TypeOK, Given, Candidate, LatentRow

(* The counts that are returned are between none and all of the candidates. *)
LEMMA Counts ==
  ASSUME TypeOK
  PROVE  /\ Cardinality(survivors) \in Nat
         /\ SavedCalls \in 0 .. N /\ SavedCalls = count - Cardinality(survivors)
<1>1. IsFiniteSet(Given) /\ Cardinality(Given) = count
  BY FS_Interval, GivenFacts, CascadeConstants DEF Given
<1>2. Cardinality(survivors) <= count /\ Cardinality(survivors) \in Nat
  BY <1>1, FS_Subset, FS_CardinalityType DEF TypeOK
<1>3. QED
  BY <1>2, GivenFacts, CascadeConstants DEF SavedCalls

(* Initially nothing is given. *)
LEMMA InitInv ==
  ASSUME Init
  PROVE  CascadeInv
<1> USE DEF Init
<1>1. count = 0 /\ Given = {}
  BY DEF Given
<1>2. TypeOK
  <2>1. 0 \in 0 .. N /\ 1 \in 1 .. N + 1
    BY CascadeConstants
  <2>2. Blank \in Signals
    BY CascadeConstants, OneFacts DEF Blank, Signals, PT
  <2>3. result \in [finalist : 0 .. N, verified : BOOLEAN, llm_saved : 0 .. N,
                    runs_saved : 0 .. N]
    BY <2>1 DEF NoResult
  <2>4. QED
    BY <1>1, <2>1, <2>2, <2>3 DEF TypeOK
<1>3. QED
  BY <1>1, <1>2 DEF CascadeInv, Ledger, Progress, Returned

(* The call brings the answers, and nothing is decided yet. *)
LEMMA CallInv ==
  ASSUME CascadeInv, Call
  PROVE  CascadeInv'
<1>1. /\ phase = "start" /\ phase' = "screen" /\ judged = {} /\ at = 1
      /\ \A c \in Candidate : verdict[c] = Undecided
      /\ UNCHANGED <<at, pred, verdict, survivors, judged, result>>
  BY DEF Call, CascadeInv, Progress
<1>2. PICK m \in 0 .. N :
        /\ count' = m
        /\ lat' \in [1 .. m -> Latent] /\ opinion' \in [1 .. m -> Opinions]
        /\ passes' \in SUBSET (1 .. m)
  BY DEF Call
<1>3. /\ Given' = 1 .. m /\ Given' \subseteq Candidate /\ m \in Nat
      /\ \A c \in Given' : c \in Nat /\ c >= 1
  BY <1>2, CascadeConstants DEF Given, Candidate
<1>4. survivors = {}
  BY <1>1 DEF CascadeInv, Progress, TypeOK, Given
<1>5. TypeOK'
  <2>1. lat' \in [1 .. m -> LatentRow] /\ opinion' \in [1 .. m -> Prob]
    BY <1>2, CascadeAssumption DEF LatentRow
  <2>2. QED
    BY <1>1, <1>2, <1>3, <1>4, <2>1 DEF CascadeInv, TypeOK, LatentRow
<1>6. \A c \in Given' : ~IsDecided(c)'
  BY <1>1, <1>3 DEF IsDecided, Undecided
<1>7. Ledger'
  BY <1>1, <1>4, <1>6 DEF Ledger
<1>8. Progress'
  BY <1>1, <1>3, <1>6 DEF Progress
<1>9. Returned'
  BY <1>1 DEF CascadeInv, Returned
<1>10. QED
  BY <1>5, <1>7, <1>8, <1>9 DEF CascadeInv

(* Writing the prediction of one candidate and its verdict. *)
LEMMA RecordAt ==
  ASSUME TypeOK, NEW c \in Candidate, NEW s \in Signals, Decided(s) \in Decision,
         Record(c, s)
  PROVE  /\ pred' \in [Candidate -> Signals]
         /\ verdict' \in [Candidate -> Decision \cup {Undecided}]
         /\ pred'[c] = s /\ verdict'[c] = Decided(s) /\ at' = c + 1
         /\ \A b \in Candidate : b # c => pred'[b] = pred[b] /\ verdict'[b] = verdict[b]
BY DEF TypeOK, Record

(* Then that candidate is decided, and the others are as decided as before. *)
LEMMA DecidedAt ==
  ASSUME NEW c, verdict'[c] \in Decision, NEW C,
         \A b \in C : b # c => verdict'[b] = verdict[b]
  PROVE  IsDecided(c)' /\ \A b \in C : b # c => (IsDecided(b)' <=> IsDecided(b))
BY DEF IsDecided, Decision, Routing

(* The screen decides the candidate at the cursor. *)
LEMMA ScreenInv ==
  ASSUME CascadeInv, Screen, NEW a, a = at
  PROVE  /\ CascadeInv'
         /\ a \in Given /\ ~IsDecided(a) /\ IsDecided(a)'
         /\ a \in survivors' <=> verdict'[a].routing # "PRUNE"
         /\ \A b \in Candidate : b # a =>
              verdict'[b] = verdict[b] /\ (b \in survivors' <=> b \in survivors)
<1>1. /\ phase = "screen" /\ a <= count /\ a >= 1 /\ a \in Nat /\ judged = {}
      /\ UNCHANGED <<phase, count, lat, opinion, passes, judged, result>>
  BY GivenFacts DEF Screen, CascadeInv, Progress, TypeOK
<1>2. a \in Given /\ a \in Candidate /\ Given \subseteq Candidate /\ Given' = Given
  BY <1>1, GivenFacts DEF CascadeInv, Given
<1> DEFINE s == Prediction(lat[a], One)
<1>3. /\ Record(a, s)
      /\ survivors' = IF Decided(s).routing # "PRUNE" THEN survivors \cup {a} ELSE survivors
  BY DEF Screen, screen_sim
<1>4. s \in Signals /\ Decided(s) \in Decision
  BY <1>2, GivenFacts, CascadeConstants, PredictionFacts, DecidedFacts
     DEF CascadeInv, LatentRow
<1> HIDE DEF s
<1>5. /\ pred' \in [Candidate -> Signals]
      /\ verdict' \in [Candidate -> Decision \cup {Undecided}]
      /\ pred'[a] = s /\ verdict'[a] = Decided(s) /\ IsDecided(a)' /\ at' = a + 1
      /\ \A b \in Candidate : b # a =>
           /\ pred'[b] = pred[b] /\ verdict'[b] = verdict[b]
           /\ IsDecided(b)' <=> IsDecided(b)
  <2>1. TypeOK /\ a \in Candidate /\ Record(a, s)
    BY <1>2, <1>3 DEF CascadeInv
  <2>2. /\ pred' \in [Candidate -> Signals]
        /\ verdict' \in [Candidate -> Decision \cup {Undecided}]
        /\ pred'[a] = s /\ verdict'[a] = Decided(s) /\ at' = a + 1
        /\ \A b \in Candidate : b # a => pred'[b] = pred[b] /\ verdict'[b] = verdict[b]
    BY <1>4, <2>1, RecordAt
  <2>3. IsDecided(a)' /\ \A b \in Candidate : b # a => (IsDecided(b)' <=> IsDecided(b))
    BY <1>4, <2>1, <2>2, DecidedAt
  <2>4. QED
    BY <2>2, <2>3
<1>6. ~IsDecided(a) /\ a \notin survivors
  BY <1>1, <1>2 DEF CascadeInv, Progress, Ledger
<1>7. /\ a \in survivors' <=> Decided(s).routing # "PRUNE"
      /\ \A b \in Candidate : b # a => (b \in survivors' <=> b \in survivors)
      /\ survivors' \subseteq Given
  BY <1>2, <1>3, <1>6 DEF CascadeInv, TypeOK
<1>8. TypeOK'
  <2>1. at' \in 1 .. N + 1
    BY <1>1, <1>5, GivenFacts, CascadeConstants DEF CascadeInv
  <2>2. QED
    BY <1>1, <1>2, <1>5, <1>7, <2>1 DEF CascadeInv, TypeOK
<1>9. Ledger'
  <2> SUFFICES ASSUME NEW c \in Given
               PROVE  /\ IsDecided(c)' =>
                           /\ pred'[c] = Prediction(lat[c],
                                IF c \in judged THEN opinion[c] ELSE One)
                           /\ verdict'[c] = Decided(pred'[c])
                      /\ c \in survivors' <=>
                           /\ IsDecided(c)'
                           /\ Decided(Prediction(lat[c], One)).routing # "PRUNE"
    BY <1>1, <1>2 DEF Ledger
  <2>1. CASE c = a
    BY <1>1, <1>5, <1>7, <2>1 DEF s
  <2>2. CASE c # a
    BY <1>2, <1>5, <1>7, <2>2 DEF CascadeInv, Ledger
  <2>3. QED
    BY <2>1, <2>2
<1>10. Progress'
  <2>1. \A c \in Given : c < a + 1 <=> IsDecided(c)'
    <3>1. \A c \in Given : c < a <=> IsDecided(c)
      BY <1>1 DEF CascadeInv, Progress
    <3>2. QED
      BY <1>1, <1>2, <1>5, <3>1, GivenFacts DEF CascadeInv
  <2>2. QED
    BY <1>1, <1>2, <1>5, <2>1 DEF Progress
<1>11. Returned'
  BY <1>1 DEF CascadeInv, Returned
<1>12. QED
  BY <1>2, <1>5, <1>6, <1>7, <1>8, <1>9, <1>10, <1>11 DEF CascadeInv

(* The judgment replaces the optimistic prediction of the survivor. *)
LEMMA JudgeInv ==
  ASSUME CascadeInv, Judge, NEW a, a = at
  PROVE  /\ CascadeInv'
         /\ a \in survivors /\ a \notin judged /\ a \in Candidate
         /\ IsDecided(a) /\ verdict[a].routing # "PRUNE"
         /\ verdict'[a].routing \in {"PRUNE", "INCREMENTAL", "EXECUTE"}
         /\ \A b \in Candidate : b # a => verdict'[b] = verdict[b]
<1>1. /\ phase = "judge" /\ a \in survivors /\ judged' = judged \cup {a}
      /\ Record(a, WithSim(pred[a], opinion[a]))
      /\ UNCHANGED <<phase, count, lat, opinion, passes, survivors, result>>
  BY DEF Judge, Judgeable
<1>2. /\ a \in Given /\ a \in Candidate /\ Given \subseteq Candidate /\ Given' = Given
      /\ a \in Nat /\ a <= count
  BY <1>1, GivenFacts DEF CascadeInv, TypeOK, Given
<1>3. /\ a \notin judged /\ IsDecided(a)
      /\ judged = {c \in survivors : c < a} /\ \A c \in Given : IsDecided(c)
  BY <1>1, <1>2 DEF CascadeInv, Progress
<1>4. pred[a] = Prediction(lat[a], One) /\ verdict[a].routing # "PRUNE"
  BY <1>1, <1>2, <1>3 DEF CascadeInv, Ledger
<1> DEFINE s == Prediction(lat[a], opinion[a])
<1>5. lat[a] \in LatentRow /\ opinion[a] \in Prob
  BY <1>2, GivenFacts DEF CascadeInv
<1>6. /\ s \in Signals /\ Decided(s) \in Decision /\ s = WithSim(pred[a], opinion[a])
      /\ Decided(s).routing \in {"PRUNE", "INCREMENTAL", "EXECUTE"}
  BY <1>4, <1>5, PredictionFacts, DecidedFacts DEF LatentRow
<1> HIDE DEF s
<1>7. Record(a, s)
  BY <1>1, <1>6
<1>8. /\ pred' \in [Candidate -> Signals]
      /\ verdict' \in [Candidate -> Decision \cup {Undecided}]
      /\ pred'[a] = s /\ verdict'[a] = Decided(s) /\ IsDecided(a)' /\ at' = a + 1
      /\ \A b \in Candidate : b # a =>
           /\ pred'[b] = pred[b] /\ verdict'[b] = verdict[b]
           /\ IsDecided(b)' <=> IsDecided(b)
  <2>1. TypeOK /\ a \in Candidate /\ s \in Signals /\ Decided(s) \in Decision
    BY <1>2, <1>6 DEF CascadeInv
  <2>2. /\ pred' \in [Candidate -> Signals]
        /\ verdict' \in [Candidate -> Decision \cup {Undecided}]
        /\ pred'[a] = s /\ verdict'[a] = Decided(s) /\ at' = a + 1
        /\ \A b \in Candidate : b # a => pred'[b] = pred[b] /\ verdict'[b] = verdict[b]
    BY <1>7, <2>1, RecordAt
  <2>3. IsDecided(a)' /\ \A b \in Candidate : b # a => (IsDecided(b)' <=> IsDecided(b))
    BY <1>7, <2>1, <2>2, DecidedAt
  <2>4. QED
    BY <2>2, <2>3
<1>9. TypeOK'
  <2>1. at' \in 1 .. N + 1
    BY <1>2, <1>8, GivenFacts, CascadeConstants DEF CascadeInv
  <2>2. judged' \subseteq survivors
    BY <1>1 DEF CascadeInv, TypeOK
  <2>3. QED
    BY <1>1, <1>2, <1>8, <2>1, <2>2 DEF CascadeInv, TypeOK
<1>10. Ledger'
  <2> SUFFICES ASSUME NEW c \in Given
               PROVE  /\ IsDecided(c)' =>
                           /\ pred'[c] = Prediction(lat[c],
                                IF c \in judged' THEN opinion[c] ELSE One)
                           /\ verdict'[c] = Decided(pred'[c])
                      /\ c \in survivors <=>
                           /\ IsDecided(c)'
                           /\ Decided(Prediction(lat[c], One)).routing # "PRUNE"
    BY <1>1, <1>2 DEF Ledger
  <2>1. CASE c = a
    BY <1>1, <1>2, <1>3, <1>8, <2>1 DEF s, CascadeInv, Ledger
  <2>2. CASE c # a
    BY <1>1, <1>2, <1>8, <2>2 DEF CascadeInv, Ledger
  <2>3. QED
    BY <2>1, <2>2
<1>11. Progress'
  <2>1. judged' = {c \in survivors : c < a + 1}
    <3>1. \A c \in survivors : c \in Nat
      BY GivenFacts DEF CascadeInv, TypeOK
    <3>2. \A c \in survivors : c < a + 1 <=> c < a \/ c = a
      BY <1>2, <3>1
    <3>3. \A c : c \in judged' <=> c \in survivors /\ (c < a \/ c = a)
      BY <1>1, <1>3
    <3>4. QED
      BY <3>2, <3>3
  <2>2. \A c \in Given : IsDecided(c)'
    BY <1>2, <1>3, <1>8
  <2>3. QED
    BY <1>1, <1>2, <1>8, <2>1, <2>2 DEF Progress
<1>12. Returned'
  BY <1>1 DEF CascadeInv, Returned
<1>13. QED
  BY <1>1, <1>2, <1>3, <1>4, <1>6, <1>8, <1>9, <1>10, <1>11, <1>12 DEF CascadeInv

(* What a step that decides nothing leaves alone. *)
decided_vars == <<count, lat, opinion, passes, pred, verdict, survivors, judged>>

LEMMA SameLedger ==
  ASSUME Ledger, UNCHANGED decided_vars
  PROVE  Ledger' /\ Given' = Given /\ \A c \in Candidate : IsDecided(c)' <=> IsDecided(c)
BY DEF decided_vars, Ledger, Given, IsDecided

(* The end of a loop leaves every candidate decided, or every survivor judged. *)
LEMMA LoopInv ==
  ASSUME CascadeInv, ScreenEnds \/ Skip \/ JudgeEnds \/ CallbackRaises
  PROVE  CascadeInv'
<1>1. UNCHANGED decided_vars /\ UNCHANGED result
  BY DEF ScreenEnds, Skip, JudgeEnds, CallbackRaises, decided_vars
<1>2. /\ Ledger' /\ Given' = Given /\ \A c \in Candidate : IsDecided(c)' <=> IsDecided(c)
      /\ Given \subseteq Candidate /\ count \in 0 .. N /\ at \in Nat
      /\ \A c \in Given : c \in Nat /\ c >= 1 /\ c <= count
      /\ survivors' = survivors /\ judged' = judged /\ survivors \subseteq Given
  <2>1. Ledger' /\ Given' = Given /\ \A c \in Candidate : IsDecided(c)' <=> IsDecided(c)
    BY <1>1, SameLedger DEF CascadeInv
  <2>2. /\ Given \subseteq Candidate /\ count \in 0 .. N /\ at \in Nat
        /\ \A c \in Given : c \in Nat
    BY GivenFacts DEF CascadeInv
  <2>3. \A c \in Given : c >= 1 /\ c <= count
    BY <2>2, CascadeConstants DEF Given
  <2>4. survivors' = survivors /\ judged' = judged /\ survivors \subseteq Given
    BY <1>1 DEF CascadeInv, decided_vars, TypeOK
  <2>5. QED
    BY <2>1, <2>2, <2>3, <2>4
<1>3. phase' # "returned"
  BY DEF ScreenEnds, Skip, JudgeEnds, CallbackRaises, Judgeable
<1>4. phase # "returned"
  BY DEF ScreenEnds, Skip, JudgeEnds, CallbackRaises, Judgeable
<1>5. Returned'
  BY <1>1, <1>3, <1>4 DEF CascadeInv, Returned
<1>6. TypeOK'
  <2>1. /\ phase' \in {"start", "screen", "judge", "select", "returned", "raised"}
        /\ at' \in 1 .. N + 1
    BY <1>2, CascadeConstants
       DEF CascadeInv, TypeOK, ScreenEnds, Skip, JudgeEnds, CallbackRaises
  <2>2. QED
    BY <1>1, <1>2, <2>1 DEF CascadeInv, TypeOK, decided_vars
<1>7. Progress'
  <2>1. CASE ScreenEnds
    <3>1. phase = "screen" /\ at > count /\ phase' = "judge" /\ at' = 1 /\ judged = {}
      BY <2>1 DEF ScreenEnds, CascadeInv, Progress
    <3>2. \A c \in Given : IsDecided(c)
      BY <1>2, <3>1 DEF CascadeInv, Progress
    <3>3. {c \in survivors : c < 1} = {}
      BY <1>2
    <3>4. QED
      BY <1>2, <3>1, <3>2, <3>3 DEF Progress
  <2>2. CASE Skip
    <3>1. phase = "judge" /\ phase' = phase /\ at' = at + 1 /\ at \notin survivors
      BY <2>2 DEF Skip
    <3>2. {c \in survivors : c < at + 1} = {c \in survivors : c < at}
      BY <1>2, <3>1
    <3>3. QED
      BY <1>2, <3>1, <3>2 DEF CascadeInv, Progress
  <2>3. CASE JudgeEnds
    <3>1. phase = "judge" /\ at > count /\ phase' = "select"
      BY <2>3 DEF JudgeEnds
    <3>2. {c \in survivors : c < at} = survivors
      BY <1>2, <3>1
    <3>3. QED
      BY <1>2, <3>1, <3>2 DEF CascadeInv, Progress
  <2>4. CASE CallbackRaises
    BY <2>4 DEF CallbackRaises, Progress
  <2>5. QED
    BY <2>1, <2>2, <2>3, <2>4
<1>8. QED
  BY <1>2, <1>5, <1>6, <1>7 DEF CascadeInv

(* The result is what the pool and the survivors say. *)
LEMMA ResultInv ==
  ASSUME CascadeInv, Verify \/ NothingToVerify
  PROVE  CascadeInv'
<1>1. UNCHANGED decided_vars /\ at' = at /\ phase = "select" /\ phase' = "returned"
  BY DEF Verify, NothingToVerify, decided_vars
<1>2. /\ Ledger' /\ Given' = Given /\ \A c \in Candidate : IsDecided(c)' <=> IsDecided(c)
      /\ Given \subseteq Candidate /\ count \in 0 .. N
      /\ \A c \in Given : c \in Nat /\ c >= 1 /\ c <= count
      /\ SavedCalls \in 0 .. N
  BY <1>1, SameLedger, GivenFacts, Counts DEF CascadeInv, Given
<1>3. Pool' = Pool /\ SavedCalls' = SavedCalls /\ Pool \subseteq Given
  BY <1>1 DEF decided_vars, Pool, SavedCalls, CascadeInv, TypeOK
<1>4. /\ result' \in [finalist : 0 .. N, verified : BOOLEAN, llm_saved : 0 .. N,
                       runs_saved : 0 .. N]
      /\ result'.llm_saved = SavedCalls
      /\ \/ IsBest(result'.finalist, Pool, verdict) /\ result'.runs_saved = count - 1
         \/ /\ result'.finalist = 0 /\ result'.runs_saved = count
            /\ \A c \in Pool : verdict[c].routing # "EXECUTE"
  <2>1. CASE Verify
    <3>1. PICK c \in Pool :
            /\ IsBest(c, Pool, verdict)
            /\ result' = [finalist |-> c, verified |-> c \in passes,
                          llm_saved |-> SavedCalls, runs_saved |-> count - 1]
      BY <2>1 DEF Verify
    <3>2. c \in 0 .. N /\ count - 1 \in 0 .. N
      BY <1>2, <1>3, <3>1, CascadeConstants
    <3>3. result' \in [finalist : 0 .. N, verified : BOOLEAN, llm_saved : 0 .. N,
                       runs_saved : 0 .. N]
      BY <1>2, <3>1, <3>2
    <3>4. /\ result'.finalist = c /\ result'.runs_saved = count - 1
          /\ result'.llm_saved = SavedCalls
      BY <3>1
    <3>5. IsBest(result'.finalist, Pool, verdict)
      BY <3>1, <3>4, Zenon
    <3>6. QED
      BY <3>3, <3>4, <3>5, Zenon
  <2>2. CASE NothingToVerify
    <3>1. result' = [finalist |-> 0, verified |-> FALSE, llm_saved |-> SavedCalls,
                     runs_saved |-> count]
      BY <2>2 DEF NothingToVerify, NoResult
    <3>2. result' \in [finalist : 0 .. N, verified : BOOLEAN, llm_saved : 0 .. N,
                       runs_saved : 0 .. N]
      BY <1>2, <3>1, CascadeConstants
    <3>3. /\ result'.finalist = 0 /\ result'.runs_saved = count
          /\ result'.llm_saved = SavedCalls
      BY <3>1
    <3>4. \A c \in Pool : verdict[c].routing # "EXECUTE"
      BY <2>2 DEF NothingToVerify
    <3>5. QED
      BY <3>2, <3>3, <3>4, Zenon
  <2>3. QED
    BY <2>1, <2>2
<1>5. TypeOK'
  BY <1>1, <1>2, <1>4 DEF CascadeInv, TypeOK, decided_vars
<1>6. Progress'
  BY <1>1, <1>2 DEF CascadeInv, Progress, decided_vars
<1>7. Returned'
  BY <1>1, <1>3, <1>4 DEF Returned, decided_vars
<1>8. QED
  BY <1>2, <1>5, <1>6, <1>7 DEF CascadeInv

(* The invariant holds in every reachable state. *)
LEMMA NextInv ==
  ASSUME CascadeInv, [Next]_vars
  PROVE  CascadeInv'
<1>1. CASE UNCHANGED vars
  BY <1>1 DEF vars, CascadeInv, TypeOK, Ledger, Progress, Returned, IsDecided, Given, Pool,
     SavedCalls
<1>2. QED
  BY <1>1, CallInv, ScreenInv, JudgeInv, LoopInv, ResultInv DEF Next

LEMMA Invariant == Spec => []CascadeInv
BY InitInv, NextInv, PTL DEF Spec

-----------------------------------------------------------------------------
(* A candidate that the screen dropped is dropped by the exhaustive run too, *)
(* and the others were judged as that run judges them.                       *)
LEMMA Exhaustive ==
  ASSUME CascadeInv, phase = "returned", NEW c \in Given
  PROVE  /\ c \in judged => Decided(Prediction(lat[c], opinion[c])) = verdict[c]
         /\ c \notin judged => Decided(Prediction(lat[c], opinion[c])).routing = "PRUNE"
<1>1. IsDecided(c) /\ judged = survivors
  BY DEF CascadeInv, Progress
<1>2. c \in judged => verdict[c] = Decided(Prediction(lat[c], opinion[c]))
  BY <1>1 DEF CascadeInv, Ledger
<1>3. lat[c] \in LatentRow /\ opinion[c] \in Prob
  BY GivenFacts DEF CascadeInv
<1>4. c \notin judged => Decided(Prediction(lat[c], One)).routing = "PRUNE"
  BY <1>1 DEF CascadeInv, Ledger
<1>5. QED
  BY <1>2, <1>3, <1>4, DroppedIsDropped DEF LatentRow

(* The screen costs no recall: the finalist is the one that judging every    *)
(* candidate would have selected (cascade.py:94-97).                         *)
LEMMA FinalistIsExhaustive ==
  ASSUME CascadeInv
  PROVE  AsIfAllJudged
<1> SUFFICES ASSUME phase = "returned" PROVE AsIfAllJudged
  BY DEF AsIfAllJudged
<1> DEFINE full == [c \in Given |-> Decided(Prediction(lat[c], opinion[c]))]
           best == {c \in Given : IsBest(c, Given, full)}
<1>1. Pool \subseteq Given /\ judged \subseteq Given
  BY DEF Pool, CascadeInv, TypeOK
<1>2. \A c \in Given : full[c].routing = "EXECUTE" =>
        c \in Pool /\ verdict[c] = full[c]
  BY Exhaustive DEF Pool
<1>3. \A c \in Pool : full[c] = verdict[c]
  BY <1>1, Exhaustive DEF Pool
<1> HIDE DEF full
<1>4. \A c : IsBest(c, Given, full) <=> IsBest(c, Pool, verdict)
  BY <1>1, <1>2, <1>3 DEF IsBest
<1>5. CASE IsBest(result.finalist, Pool, verdict)
  <2>1. result.finalist \in best
    BY <1>1, <1>4, <1>5 DEF IsBest
  <2>2. QED
    BY <2>1 DEF AsIfAllJudged, full
<1>6. CASE result.finalist = 0 /\ \A c \in Pool : verdict[c].routing # "EXECUTE"
  <2>1. best = {}
    BY <1>4, <1>6 DEF IsBest
  <2>2. QED
    BY <1>6, <2>1 DEF AsIfAllJudged, full
<1>7. QED
  BY <1>5, <1>6 DEF CascadeInv, Returned

(* The savings that are reported are the calls that were not made. *)
LEMMA Savings ==
  ASSUME CascadeInv
  PROVE  SavingsAddUp
<1> SUFFICES ASSUME phase = "returned"
             PROVE  /\ result.llm_saved + Cardinality(judged) = count
                    /\ result.runs_saved + (IF result.finalist = 0 THEN 0 ELSE 1) = count
  BY DEF SavingsAddUp
<1>1. /\ judged = survivors /\ result.llm_saved = SavedCalls
      /\ \/ IsBest(result.finalist, Pool, verdict) /\ result.runs_saved = count - 1
         \/ result.finalist = 0 /\ result.runs_saved = count
  BY DEF CascadeInv, Progress, Returned
<1>2. /\ Cardinality(survivors) \in Nat /\ SavedCalls = count - Cardinality(survivors)
      /\ count \in Nat
  BY Counts, GivenFacts, CascadeConstants DEF CascadeInv
<1>3. IsBest(result.finalist, Pool, verdict) => result.finalist # 0
  <2>1. \A c \in Given : c # 0
    BY GivenFacts, CascadeConstants DEF CascadeInv
  <2>2. Pool \subseteq Given
    BY DEF Pool, CascadeInv, TypeOK
  <2>3. QED
    BY <2>1, <2>2 DEF IsBest
<1>4. QED
  BY <1>1, <1>2, <1>3

(* What the cheap tiers spare costs nothing, for every number of candidates, *)
(* every calibration and whatever the callbacks answer (cascade.py:89-97).   *)
THEOREM CheapTiersAreFree == Spec => []ScreeningIsFree
<1>1. CascadeInv => ScreeningIsFree
  BY FinalistIsExhaustive, Savings DEF ScreeningIsFree, CascadeInv
<1>2. QED
  BY <1>1, Invariant, PTL

-----------------------------------------------------------------------------
(* The stage of a candidate, from what was decided and judged. *)
LEMMA StageFacts ==
  ASSUME CascadeInv, NEW c \in Candidate
  PROVE  /\ c \notin Given <=> StageOf(c) = "absent"
         /\ c \in Given /\ ~IsDecided(c) <=> StageOf(c) = "new"
         /\ c \in survivors \ judged <=> StageOf(c) = "survivor"
         /\ c \in judged /\ verdict[c].routing = "EXECUTE" => StageOf(c) = "ready"
<1>1. CASE c \notin Given
  BY <1>1 DEF StageOf, CascadeInv, TypeOK
<1>2. CASE c \in Given /\ ~IsDecided(c)
  BY <1>2 DEF StageOf, IsDecided, CascadeInv, Ledger, TypeOK
<1>3. CASE c \in Given /\ IsDecided(c)
  <2>1. c \in survivors \ judged => verdict[c].routing # "PRUNE"
    BY <1>3 DEF CascadeInv, Ledger
  <2>2. QED
    BY <1>3, <2>1 DEF StageOf, IsDecided
<1>4. QED
  BY <1>1, <1>2, <1>3

stage == [c \in Candidate |-> StageOf(c)]
spent == {c \in Candidate : c = result.finalist}

(* The sandbox is spent by the last step only. *)
LEMMA NothingSpent ==
  ASSUME CascadeInv, phase # "returned"
  PROVE  result.finalist = 0 /\ spent = {}
<1>1. result.finalist = 0
  BY DEF CascadeInv, Returned, NoResult
<1>2. QED
  BY <1>1, CascadeConstants DEF spent

(* A step that changes one verdict moves that candidate and no other. *)
LEMMA Moves ==
  ASSUME NEW c \in Candidate, Given' = Given, result' = result,
         \A b \in Candidate : b # c =>
           /\ verdict'[b] = verdict[b]
           /\ b \in survivors' <=> b \in survivors
           /\ b \in judged' <=> b \in judged
  PROVE  Gate!Move(c, StageOf(c), StageOf(c)') /\ spent' = spent
<1>1. \A b \in Candidate : b # c => StageOf(b)' = StageOf(b)
  BY DEF StageOf
<1>2. stage' = [stage EXCEPT ![c] = StageOf(c)'] /\ stage[c] = StageOf(c)
  BY <1>1 DEF stage
<1>3. spent' = spent
  BY DEF spent
<1>4. QED
  BY <1>2, <1>3 DEF Gate!Move, stage

(* The candidates at a stage. *)
LEMMA AtStage ==
  ASSUME NEW s
  PROVE  Gate!At(s) = {c \in Candidate : StageOf(c) = s}
BY DEF Gate!At

(* The candidates of a call arrive together. *)
LEMMA CallRefines ==
  ASSUME CascadeInv, CascadeInv', Call
  PROVE  \E C \in SUBSET Candidate : Gate!Propose(C)
<1>1. /\ phase = "start" /\ phase' = "screen" /\ count = 0 /\ result' = result /\ at = 1
      /\ verdict' = verdict /\ \A c \in Candidate : verdict[c] = Undecided
  BY DEF Call, CascadeInv, Progress
<1>2. /\ Given = {} /\ Given' \in SUBSET Candidate
      /\ survivors = {} /\ judged = {} /\ survivors' = {} /\ judged' = {}
  <2>1. Given = {}
    BY <1>1 DEF Given
  <2>2. Given' \in SUBSET Candidate
    BY CascadeConstants DEF Call, Given, Candidate
  <2>3. survivors = {} /\ judged = {}
    BY <2>1 DEF CascadeInv, TypeOK
  <2>4. QED
    BY <2>1, <2>2, <2>3 DEF Call
<1>3. \A c \in Candidate : StageOf(c) = "absent"
  BY <1>2, StageFacts
<1>4. Gate!At("absent") = Candidate
  BY <1>3, AtStage
<1>5. \A c \in Candidate : StageOf(c)' = IF c \in Given' THEN "new" ELSE "absent"
  BY <1>1, <1>2 DEF StageOf, Undecided
<1>6. stage' = [c \in Candidate |-> IF c \in Given' THEN "new" ELSE "absent"]
  BY <1>5 DEF stage
<1>7. spent' = spent
  BY <1>1 DEF spent
<1>8. PICK C \in SUBSET Candidate : C = Given'
  BY <1>2
<1>9. Gate!Propose(C)
  BY <1>4, <1>6, <1>7, <1>8 DEF Gate!Propose, stage, spent
<1>10. QED
  BY <1>9

(* Tier 1: the candidate at the cursor is dropped or survives. *)
LEMMA ScreenRefines ==
  ASSUME CascadeInv, CascadeInv', Screen
  PROVE  \E c \in Candidate : Gate!Screen(c)
<1>1. PICK c : c = at
  OBVIOUS
<1>2. /\ c \in Given /\ ~IsDecided(c) /\ IsDecided(c)'
      /\ c \in survivors' <=> verdict'[c].routing # "PRUNE"
      /\ \A b \in Candidate : b # c =>
           verdict'[b] = verdict[b] /\ (b \in survivors' <=> b \in survivors)
  BY <1>1, ScreenInv
<1>3. /\ Given' = Given /\ result' = result /\ judged' = judged /\ judged = {}
      /\ c \in Candidate
  BY <1>2, GivenFacts DEF Screen, Given, CascadeInv, Progress
<1>4. Gate!Move(c, StageOf(c), StageOf(c)') /\ spent' = spent
  BY <1>2, <1>3, Moves
<1>5. StageOf(c) = "new"
  BY <1>2, <1>3, StageFacts
<1>6. StageOf(c)' \in {"dropped", "survivor"}
  BY <1>2, <1>3 DEF StageOf, IsDecided
<1>7. QED
  BY <1>3, <1>4, <1>5, <1>6 DEF Gate!Screen, spent

(* Tier 2: all are screened, and a survivor is dropped, held or selected. *)
LEMMA JudgeRefines ==
  ASSUME CascadeInv, CascadeInv', Judge
  PROVE  \E c \in Candidate : Gate!Judge(c)
<1>1. PICK c : c = at
  OBVIOUS
<1>2. /\ c \in survivors /\ c \notin judged /\ c \in Candidate
      /\ verdict'[c].routing \in {"PRUNE", "INCREMENTAL", "EXECUTE"}
      /\ \A b \in Candidate : b # c => verdict'[b] = verdict[b]
  BY <1>1, JudgeInv
<1>3. /\ Given' = Given /\ result' = result /\ survivors' = survivors
      /\ judged' = judged \cup {c} /\ phase = "judge" /\ c \in Given
  BY <1>1, <1>2 DEF Judge, Judgeable, Given, CascadeInv, TypeOK
<1>4. Gate!Move(c, StageOf(c), StageOf(c)') /\ spent' = spent
  BY <1>2, <1>3, Moves
<1>5. StageOf(c) = "survivor"
  BY <1>2, StageFacts
<1>6. \A b \in Candidate : StageOf(b) # "new"
  BY <1>3, StageFacts DEF CascadeInv, Progress
<1>7. Gate!At("new") = {}
  BY <1>6, AtStage
<1>8. StageOf(c)' \in {"dropped", "held", "human", "ready"}
  BY <1>2, <1>3 DEF StageOf
<1>9. QED
  BY <1>2, <1>4, <1>5, <1>7, <1>8 DEF Gate!Judge, spent

(* Tier 3: the sandbox is spent on the selected candidate. *)
LEMMA VerifyRefines ==
  ASSUME CascadeInv, Verify
  PROVE  \E c \in Candidate : Gate!Verify(c)
<1>1. PICK c \in Pool : IsBest(c, Pool, verdict) /\ result'.finalist = c
  BY DEF Verify
<1>2. /\ phase = "select" /\ judged = survivors /\ \A b \in Given : IsDecided(b)
      /\ UNCHANGED <<count, verdict, survivors, judged>>
  BY DEF Verify, CascadeInv, Progress
<1>3. c \in Candidate /\ c \in judged
  BY GivenFacts DEF Pool, CascadeInv, TypeOK
<1>4. StageOf(c) = "ready"
  BY <1>1, <1>3, StageFacts DEF IsBest
<1>5. \A b \in Candidate : StageOf(b) # "new" /\ StageOf(b) # "survivor"
  BY <1>2, StageFacts
<1>6. Gate!At("new") = {} /\ Gate!At("survivor") = {}
  BY <1>5, AtStage
<1>7. stage' = stage
  BY <1>2 DEF stage, StageOf, Given
<1>8. spent = {} /\ spent' = {c}
  BY <1>1, <1>2, <1>3, NothingSpent DEF spent
<1>9. QED
  BY <1>3, <1>4, <1>6, <1>7, <1>8 DEF Gate!Verify, stage, spent

(* The other steps are none of the tiers'. *)
LEMMA OthersStutter ==
  ASSUME CascadeInv,
         \/ ScreenEnds \/ Skip \/ JudgeEnds \/ CallbackRaises \/ NothingToVerify
         \/ UNCHANGED vars
  PROVE  UNCHANGED Gate!vars
<1>1. UNCHANGED <<count, verdict, survivors, judged>>
  BY DEF ScreenEnds, Skip, JudgeEnds, CallbackRaises, NothingToVerify, vars
<1>2. stage' = stage
  BY <1>1 DEF stage, StageOf, Given
<1>3. result'.finalist = result.finalist
  <2>1. CASE NothingToVerify
    <3>1. result.finalist = 0
      BY <2>1, NothingSpent DEF NothingToVerify
    <3>2. QED
      BY <2>1, <3>1 DEF NothingToVerify, NoResult
  <2>2. CASE ~NothingToVerify
    BY <2>2 DEF ScreenEnds, Skip, JudgeEnds, CallbackRaises, vars
  <2>3. QED
    BY <2>1, <2>2
<1>4. spent' = spent
  BY <1>3 DEF spent
<1>5. QED
  BY <1>2, <1>4 DEF Gate!vars, stage, spent

(* run_cascade implements the tiers (cascade.py:1-25), whichever callback    *)
(* raises.                                                                   *)
THEOREM CascadeIsACascade == Spec => IsACascade
<1>1. Init => Gate!Init
  <2> SUFFICES ASSUME Init PROVE Gate!Init
    OBVIOUS
  <2>1. \A c \in Candidate : StageOf(c) = "absent"
    BY DEF Init, StageOf, Given
  <2>2. spent = {}
    BY InitInv, NothingSpent DEF Init
  <2>3. QED
    BY <2>1, <2>2 DEF Gate!Init, spent
<1>2. CascadeInv /\ CascadeInv' /\ [Next]_vars => [Gate!Next]_(Gate!vars)
  <2> SUFFICES ASSUME CascadeInv, CascadeInv', [Next]_vars
               PROVE  [Gate!Next]_(Gate!vars)
    OBVIOUS
  <2>1. CASE Call
    BY <2>1, CallRefines DEF Gate!Next
  <2>2. CASE Screen
    BY <2>2, ScreenRefines DEF Gate!Next
  <2>3. CASE Judge
    BY <2>3, JudgeRefines DEF Gate!Next
  <2>4. CASE Verify
    BY <2>4, VerifyRefines DEF Gate!Next
  <2>5. CASE \/ ScreenEnds \/ Skip \/ JudgeEnds \/ CallbackRaises \/ NothingToVerify
             \/ UNCHANGED vars
    BY <2>5, OthersStutter
  <2>6. QED
    BY <2>1, <2>2, <2>3, <2>4, <2>5 DEF Next
<1>3. QED
  BY <1>1, <1>2, Invariant, PTL DEF Spec, IsACascade, Gate!Spec
=============================================================================
