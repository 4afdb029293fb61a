--------------------------- MODULE MCCalibration ---------------------------
(* Calibration: the files and processes of the calibration loop, or the       *)
(* numbers that Calibrate computes from the rows it reads.  job says which;   *)
(* the other is at rest.  One process that may die while it calibrates.       *)
(* Twentieths: two probabilities in one bin, one below the half, and          *)
(* certainty; a looser promise, so that it can be kept with few rows.         *)
EXTENDS Calibration

CONSTANTS
  One, Probs, NBins, AlphaN, AlphaD, DeltaD, MinRows, MinSupport, EceThreshold, MinN,
  MaxEce, MinPrecision, MaxRows

VARIABLES job, rows, threshold, action, level

number_vars == <<rows, threshold, action, level>>

Numbers == INSTANCE Calibrate WITH MinSamples <- MinRows

ASSUME NumbersAssumption == Numbers!CalibrateAssumption /\ Numbers!BoundAssumption

EitherInit == job \in {"files", "numbers"} /\ Init /\ Numbers!Init

EitherNext ==
  /\ UNCHANGED job
  /\ \/ job = "files" /\ Next /\ UNCHANGED number_vars
     \/ job = "numbers" /\ Numbers!Next /\ UNCHANGED vars

EitherSpec == EitherInit /\ [][EitherNext]_<<job, vars, number_vars>>

(* The properties of Calibrate, stated there. *)
NumbersAreRight             == Numbers!NumbersAreRight
NewsMovesTheGateTheRightWay == Numbers!NewsMovesTheGateTheRightWay
=============================================================================
