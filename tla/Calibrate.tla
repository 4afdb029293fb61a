----------------------------- MODULE Calibrate -----------------------------
(***************************************************************************)
(* What is computed from the logged predictions and their outcomes: the    *)
(* calibration error, the conformal EXECUTE threshold (models/calibrate),  *)
(* the decision to recalibrate (run_calibration) and the autonomy a        *)
(* segment of the code has earned (orchestrator/autonomy).  The rows come  *)
(* in one at a time; the module Calibration says when each of these is     *)
(* computed and what is done with it.                                      *)
(*                                                                         *)
(* A probability p is the integer p * One; the rows are a bag, since       *)
(* nothing depends on their order.                                         *)
(***************************************************************************)
EXTENDS Integers, FiniteSets, Functions

CONSTANTS
  One,           \* the denominator
  Probs,         \* the probabilities predicted
  NBins,         \* n_bins
  AlphaN, AlphaD, \* false_execute_alpha = AlphaN / AlphaD
  DeltaD,        \* conformal_delta = 1 / DeltaD
  MinSamples,    \* min_samples
  MinSupport,    \* min_support
  EceThreshold,  \* ece_threshold, over One
  MinN, MaxEce, MinPrecision,  \* AutonomyPolicy, the last two over One
  MaxRows        \* bound: rows

(* What an instance has to assume. *)
CalibrateAssumption ==
  /\ One \in Nat \ {0} /\ NBins \in Nat \ {0}
  /\ Probs \subseteq 0 .. One /\ IsFiniteSet(Probs)
  /\ AlphaN \in Nat /\ AlphaD \in Nat /\ 0 < AlphaN /\ AlphaN < AlphaD
  /\ DeltaD \in Nat \ {0} /\ MinSamples \in Nat \ {0} /\ MinSupport \in Nat
  /\ EceThreshold \in Nat /\ MinN \in Nat \ {0} /\ MaxEce \in Nat
  /\ MinPrecision \in 0 .. One /\ MaxRows \in Nat

VARIABLES
  rows,       \* how many rows there are of each probability and label
  threshold,  \* what fit_conformal_threshold returns for them
  action,     \* what run_calibration decides
  level       \* AutonomyLevel of a segment with these rows

vars == <<rows, threshold, action, level>>

Label == {0, 1}
Count(b, S) == SumFunctionOnSet(b, S)
All   == Probs \X Label
Total(b) == Count(b, All)
BothLabels(b) == \A y \in Label : Count(b, Probs \X {y}) > 0

-----------------------------------------------------------------------------
(* compute_ece, times Total * One: the rows of bin i are those with           *)
(* i / n_bins <= p < (i + 1) / n_bins.                                        *)
Bin(i) == {p \in Probs : i * One <= p * NBins /\ p * NBins < (i + 1) * One}
Gap(b, P) ==
  LET passed == Count(b, P \X {1}) * One
      hoped  == SumFunctionOnSet([r \in All |-> b[r] * r[1]], P \X Label)
  IN  IF passed >= hoped THEN passed - hoped ELSE hoped - passed

compute_ece(b) == SumFunction([i \in 0 .. NBins - 1 |-> Gap(b, Bin(i))])

EceAbove(b, bar) == compute_ece(b) > bar * Total(b)

(* Trials that fail with probability alpha, one after the other: the weight of *)
(* all outcomes of n of them, and of those with k failures or fewer.           *)
Outcomes[n \in Nat] == IF n = 0 THEN 1 ELSE AlphaD * Outcomes[n - 1]
Tail[n \in Nat] ==
  [k \in Nat |-> IF n = 0 THEN 1
                 ELSE (AlphaD - AlphaN) * Tail[n - 1][k]
                      + (IF k = 0 THEN 0 ELSE AlphaN * Tail[n - 1][k - 1])]

(* binomial_upper_bound(k, n, delta) <= alpha, exactly (Clopper-Pearson): k or *)
(* fewer failures in n trials have probability at most delta under alpha.      *)
BoundedByAlpha(k, n) == n > 0 /\ k < n /\ Tail[n][k] * DeltaD <= Outcomes[n]

(* Assumed of the bound is that it is no lower than the rate that was seen: a  *)
(* fact about the median of the binomial distribution while delta is below one *)
(* half, as in config.py.                                                      *)
BoundAssumption ==
  \A n \in 0 .. MaxRows : \A k \in 0 .. n :
    BoundedByAlpha(k, n) => k * AlphaD <= AlphaN * n

AtOrAbove(tau) == {p \in Probs : p >= tau}
OtherLabel(b, tau) == Count(b, AtOrAbove(tau) \X {1})   \* mutant of Failures
Failures(b, tau) == Count(b, AtOrAbove(tau) \X {0})
Executed(b, tau) == Count(b, AtOrAbove(tau) \X Label)

AnySupport(b, tau) == BoundedByAlpha(Failures(b, tau), Executed(b, tau))   \* mutant of Valid
Valid(b, tau) ==
  /\ Executed(b, tau) >= MinSupport
  /\ BoundedByAlpha(Failures(b, tau), Executed(b, tau))

Never == One + 1     \* CONFORMAL_NEVER
None  == -1

Seen(b) == {p \in Probs : Count(b, {p} \X Label) > 0}
FirstValid(b) ==
  {t \in Seen(b) : Valid(b, t) /\ \A s \in Seen(b) : Valid(b, s) => t <= s}

fit_conformal_threshold(b) ==
  IF Total(b) < MinSamples \/ ~BothLabels(b) THEN None
  ELSE IF FirstValid(b) = {} THEN Never
  ELSE CHOOSE t \in FirstValid(b) : TRUE

ActionAtOtherBar(b) ==   \* mutant of Action
  CASE Total(b) = 0 -> "skipped_no_data"
    [] Total(b) > 0 /\ (Total(b) < MinSamples \/ ~BothLabels(b)) -> "skipped_insufficient_data"
    [] Total(b) >= MinSamples /\ BothLabels(b) /\ EceAbove(b, MaxEce) -> "recalibrated_isotonic"
    [] OTHER -> "ok"

(* run_calibration. *)
Action(b) ==
  CASE Total(b) = 0 -> "skipped_no_data"
    [] Total(b) > 0 /\ (Total(b) < MinSamples \/ ~BothLabels(b)) -> "skipped_insufficient_data"
    [] Total(b) >= MinSamples /\ BothLabels(b) /\ EceAbove(b, EceThreshold)
         -> "recalibrated_isotonic"
    [] OTHER -> "ok"

(* SegmentCompetence.level; a row predicts a pass from one half on. *)
Predicted == {p \in Probs : 2 * p >= One}
PrecisionMet(b) ==
  /\ Count(b, Predicted \X Label) > 0
  /\ Count(b, Predicted \X {1}) * One >= MinPrecision * Count(b, Predicted \X Label)

Level(b) ==
  IF Total(b) < MinN THEN "human_review"
  ELSE IF ~EceAbove(b, MaxEce) /\ PrecisionMet(b) THEN "auto_merge" ELSE "assisted"

-----------------------------------------------------------------------------
Computed(b) ==
  /\ rows' = b
  /\ threshold' = fit_conformal_threshold(b)
  /\ action' = Action(b)
  /\ level' = Level(b)

Init ==
  /\ rows = [r \in All |-> 0]
  /\ threshold = None /\ action = "skipped_no_data" /\ level = "human_review"

(* Another outcome is logged. *)
AddRow(p, y) ==
  /\ Total(rows) < MaxRows
  /\ Computed([rows EXCEPT ![<<p, y>>] = @ + 1])

Next == \E p \in Probs, y \in Label : AddRow(p, y)

Spec == Init /\ [][Next]_vars

-----------------------------------------------------------------------------
(* A threshold that the gate is given keeps its promise on the data it was    *)
(* fitted on, and no lower one would (calibrate.py:145-151): the executed     *)
(* branches are supported and fail seldom enough.                             *)
ThresholdKeepsItsPromise ==
  LET kept(t) == /\ Executed(rows, t) >= MinSupport
                 /\ Count(rows, {p \in Probs : p >= t} \X {0}) * AlphaD
                      <= AlphaN * Executed(rows, t)
  IN  threshold \in Probs =>
        /\ kept(threshold)
        /\ Tail[Executed(rows, threshold)][Failures(rows, threshold)] * DeltaD
             <= Outcomes[Executed(rows, threshold)]

(* News moves the gate the right way: one more failure lowers the threshold   *)
(* at most to where it happened (only predictions that were made are tried as *)
(* thresholds) or to one that only lacked support, which any row lends it;    *)
(* one more success at or above it does not raise it.                         *)
NewsMovesTheGateTheRightWay ==
  [][\A p \in Probs : threshold # None =>
       /\ rows'[<<p, 0>>] > rows[<<p, 0>>] =>
            \/ threshold' >= threshold \/ threshold' >= p
            \/ Executed(rows, threshold') < MinSupport
       /\ rows'[<<p, 1>>] > rows[<<p, 1>>] /\ p >= threshold => threshold' <= threshold]_vars

(* The gate admits as much as it can: no observed p_t below the threshold     *)
(* would have kept the promise.                                               *)
GateIsTheWidest ==
  threshold # None => \A t \in Seen(rows) : t < threshold => ~Valid(rows, t)

(* The threshold the gate is given is the right one, from both sides.         *)
ThresholdIsRight == ThresholdKeepsItsPromise /\ GateIsTheWidest

(* A segment merges on its own only if its predictions, none of them certain, *)
(* are right on average as well as in precision.                              *)
AutoMergeIsCalibrated ==
  level = "auto_merge" /\ Count(rows, (Probs \cap {One}) \X Label) = 0 =>
    Gap(rows, Probs) <= MaxEce * Total(rows) /\ Total(rows) >= MinN

(* A model whose predictions are off as a whole is recalibrated               *)
(* (calibration_loop.py:71): the error of all of them together is a lower     *)
(* bound of the ECE, unless some are of probability one and fall in no bin.   *)
RecalibratesWhenOff ==
  action = "ok" /\ Count(rows, (Probs \cap {One}) \X Label) = 0 =>
    Gap(rows, Probs) <= EceThreshold * Total(rows)

(* A model that is off on average neither stays as it is nor merges alone.    *)
ErrorsAreNoticed == AutoMergeIsCalibrated /\ RecalibratesWhenOff

(* What the calibration loop and the merge gate conclude from the rows.       *)
NumbersAreRight == ThresholdIsRight /\ ErrorsAreNoticed
=============================================================================
