---------------------------- MODULE LatentModel ----------------------------
(***************************************************************************)
(* The latent transition model (models/latent_model.py) as the rest of the *)
(* system meets it: the weights file that save_model writes in place and   *)
(* load_ensemble reads when an Orchestrator is constructed, the ensemble's *)
(* mean and its two uncertainties, and the heuristic that stands in when   *)
(* there are no weights.  The network itself is external: it answers with  *)
(* any heads.  torch is installed.                                         *)
(***************************************************************************)
EXTENDS Integers, FiniteSets

CONSTANTS
  M,       \* hp.M, the number of heads
  Probes   \* what a head of a trained network may answer, in 1/One

(* What an instance has to assume. *)
LatentModelAssumption == M \in Nat \ {0} /\ Probes \subseteq 0 .. 4000

VARIABLES
  weights,   \* latent.pt: "absent", "other" (of another architecture), "old",
             \* "empty" and "partial" while it is written, "new"
  server     \* "down", "heuristic", "old", "new", "crashed"

-----------------------------------------------------------------------------
(* save_model: torch.save opens the file, which empties it, and writes it. *)
OpenWeights  == weights' = "empty"
WriteWeights == weights = "empty" /\ weights' = "partial"
CloseWeights == weights = "partial" /\ weights' = "new"

(* RuntimeError and KeyError are caught: shapes that do not fit, a torn file.  *)
OnlyTorn(file) == file = "partial"   \* mutant of Degrades
Degrades(file) == file \in {"other", "partial"}

(* load_ensemble(strict=False); an empty file raises EOFError. *)
Load ==
  /\ server = "down"
  /\ server' = IF weights = "absent" \/ Degrades(weights) THEN "heuristic"
               ELSE IF weights \in {"old", "new"} THEN weights
               ELSE "crashed"
  /\ UNCHANGED weights

-----------------------------------------------------------------------------
(* Probabilities in 1/One; complexity in twentieths. *)
One == 4000
Clamp(low, high, x) == IF x < low THEN low ELSE IF x > high THEN high ELSE x

(* _heuristic_predict. *)
Center(c) == Clamp(200, 3800, 2400 - 80 * c)
HeadOf(c, i) == Clamp(40, 3960, Center(c) + (40 + 10 * c) * (2 * i - (M - 1)))
Heads(c)   == [i \in 0 .. M - 1 |-> HeadOf(c, i)]
RLong(c)   == Clamp(0, One, 800 + 120 * c)

(* f[0] + ... + f[n - 1], added up in this order. *)
RunningSum(f, n) ==
  LET upto[i \in 0 .. n] == IF i = 0 THEN 0 ELSE upto[i - 1] + f[i - 1] IN upto[n]

(* The ensemble's answer from its heads p: the mean times M, and the epistemic *)
(* and the aleatoric uncertainty times M^3.                                    *)
OverHeads(f) == RunningSum(f, M)
Sum(p) == OverHeads(p)
Squares(p, mean) == [i \in DOMAIN p |-> (M * p[i] - mean) * (M * p[i] - mean)]
FromCenter(p) == OverHeads(Squares(p, M * (One \div 2)))   \* mutant of Epistemic
Epistemic(p) == OverHeads(Squares(p, Sum(p)))
Aleatoric(p) == M * M * OverHeads([i \in DOMAIN p |-> p[i] * (One - p[i])])

-----------------------------------------------------------------------------
(* What a server may have answered with. *)
Spoken == IF server = "heuristic" THEN {Heads(c) : c \in 0 .. 20}
           ELSE IF server \in {"old", "new"} THEN [0 .. M - 1 -> Probes] ELSE {}

(* The two uncertainties split the variance of the outcome between them and   *)
(* leave nothing out: it is that of one coin of the mean probability.         *)
UncertaintySplits(p) ==
  Epistemic(p) + Aleatoric(p) = M * Sum(p) * (M * One - Sum(p))

(* "Encodes 'simpler == safer'" (latent_model.py:213): of two changes the     *)
(* more complex one is not likelier to pass, is a larger risk, and is less    *)
(* certain as long as no head is cut off at the ends.                         *)
Uncut(c) == HeadOf(c, 0) > 40 /\ HeadOf(c, M - 1) < 3960
SimplerIsSafer ==
  \A c \in 0 .. 19 :
    /\ Sum(Heads(c + 1)) <= Sum(Heads(c))
    /\ RLong(c) <= RLong(c + 1)
    /\ M > 1 /\ Uncut(c) /\ Uncut(c + 1) => Epistemic(Heads(c)) < Epistemic(Heads(c + 1))

(* Whichever ensemble answers, its uncertainties are those of its heads.      *)
AnswersAreHonest ==
  /\ \A p \in Spoken : UncertaintySplits(p)
  /\ server = "heuristic" => SimplerIsSafer
=============================================================================
