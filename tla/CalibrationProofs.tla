------------------------- MODULE CalibrationProofs -------------------------
(***************************************************************************)
(* What one process keeps of its two calibration files, for any number of  *)
(* outcomes, any minimum of samples and any number of deaths: nothing is   *)
(* fitted on too little data, only a death between two writes parts the    *)
(* recalibrator and the threshold, and the next calibration with enough    *)
(* data mends it.  Each theorem on the files names the assumption that     *)
(* there is one process: with two, one may fit a threshold while the other *)
(* replaces the recalibrator.                                              *)
(*                                                                         *)
(* Then the numbers: the lemmas on sums over finite sets and on the tail   *)
(* of the binomial distribution, and from them what the fitted threshold,  *)
(* the decision to recalibrate and the level of autonomy say of the rows.  *)
(***************************************************************************)
EXTENDS MCCalibration, FiniteSetTheorems, WellFoundedInduction, TLAPS

Runs == [n : Versions, both : BOOLEAN, recal : Versions, recalibrated : BOOLEAN,
         threshold : Thresholds]

OneProcess == \A v, w \in Worker : v = w

(* A run reads rows that exist; the recalibrator it uses is one of the past; *)
(* what it is about to save is what it fitted.                               *)
Measured ==
  \A w \in Worker :
    /\ pc[w] # "serving" => run[w].n \in 1 .. outcomes
    /\ pc[w] = "measured" /\ recal_file # Torn => recal_file <= run[w].n
    /\ pc[w] \in {"recalibrated", "fitted"} => run[w].recal <= run[w].n
    /\ pc[w] = "fitted" => run[w].threshold = Fitted(run[w])

(* Between runs the process holds what the recalibrator file says, and during *)
(* a run the run does.                                                       *)
InStep ==
  \A w \in Worker :
    /\ pc[w] \in {"serving", "measured"} => ~run[w].recalibrated
    /\ ~run[w].recalibrated => held[w].recal = Loaded(recal_file, 0)
    /\ pc[w] \in {"recalibrated", "fitted", "recorded"} =>
         run[w].recal = Loaded(recal_file, 0)
    /\ pc[w] = "recorded" /\ Enough(run[w]) =>
         conf_file = [of |-> run[w].recal, on |-> run[w].n]

(* Without a death the files belong together, except while a run that fitted *)
(* a recalibrator is between its two writes.                                 *)
FilesMatch == conf_file # NoThreshold => conf_file.of = recal_file
Undisturbed ==
  kills = 0 =>
    /\ recal_file # Torn /\ conf_file # Torn
    /\ \A w \in Worker :
         /\ ~run[w].recalibrated \/ pc[w] = "recorded" => FilesMatch
         /\ run[w].recalibrated => Enough(run[w])
         /\ pc[w] = "serving" => GateMatches(w)

IInv == TypeOK /\ Measured /\ BackedByData /\ InStep /\ Undisturbed

(* A file that is not torn holds a version. *)
LEMMA TornIsNoVersion == Torn \notin Versions /\ Torn \notin Thresholds /\ Torn # NoThreshold
BY CalibrationAssumption DEF CalibrationAssumption, Versions, Thresholds, NoThreshold

(* The values of absent files and of no run. *)
LEMMA Defaults ==
  /\ 0 \in Versions /\ NoThreshold \in Thresholds
  /\ NoRun \in Runs /\ ~NoRun.recalibrated
BY CalibrationAssumption DEF Versions, Thresholds, NoThreshold, NoRun, Runs,
   CalibrationAssumption

(* Initially the files are absent. *)
LEMMA IInvInit ==
  ASSUME Init
  PROVE  IInv
<1>1. TypeOK
  <2>1. held \in [Worker -> [recal : Versions, conf : Thresholds]]
    BY Defaults DEF Init
  <2>2. run \in [Worker -> Runs]
    BY Defaults DEF Init
  <2>3. outcomes \in Versions /\ recal_file \in Versions /\ conf_file \in Thresholds
    <3>1. outcomes = 0 /\ recal_file = 0 /\ conf_file = NoThreshold
      BY DEF Init
    <3>2. QED
      BY <3>1, Defaults
  <2>4. kills \in 0 .. MaxKills /\ mixed \in BOOLEAN
    <3>1. kills = 0 /\ mixed = FALSE
      BY DEF Init
    <3>2. kills \in 0 .. MaxKills
      BY <3>1, CalibrationAssumption DEF CalibrationAssumption
    <3>3. mixed \in BOOLEAN
      BY <3>1, Zenon
    <3>4. QED
      BY <3>2, <3>3
  <2>5. pc \in [Worker -> {"serving", "measured", "recalibrated", "fitted", "recorded"}]
    BY DEF Init
  <2>6. QED
    BY <2>1, <2>2, <2>3, <2>4, <2>5 DEF TypeOK, Runs, Versions
<1>2. Measured /\ BackedByData
  BY CalibrationAssumption DEF Init, Measured, BackedByData, CalibrationAssumption, NoRun,
     NoThreshold
<1>3. \A w \in Worker : ~run[w].recalibrated /\ held[w].recal = 0 /\ held[w].conf = NoThreshold
  BY DEF Init, NoRun
<1>4. recal_file = 0 /\ conf_file = NoThreshold /\ 0 # Torn /\ NoThreshold # Torn
  BY TornIsNoVersion, Defaults DEF Init
<1>5. \A w \in Worker : pc[w] = "serving"
  BY DEF Init
<1>6. InStep /\ Undisturbed
  BY <1>3, <1>4, <1>5 DEF InStep, Undisturbed, FilesMatch, GateMatches, Loaded
<1>7. QED
  BY <1>1, <1>2, <1>6 DEF IInv

(* What a run fitted is a threshold. *)
LEMMA FittedIsThreshold ==
  ASSUME TypeOK, NEW w \in Worker
  PROVE  Fitted(run[w]) \in Thresholds
BY CalibrationAssumption DEF TypeOK, Fitted, Thresholds, Versions, NoThreshold,
   CalibrationAssumption

(* A step keeps the types. *)
LEMMA TypeNext ==
  ASSUME TypeOK, NEW w \in Worker, Calibrate(w) \/ Restart(w)
  PROVE  TypeOK'
<1> USE CalibrationAssumption, TornIsNoVersion DEF TypeOK, Runs, Versions, Thresholds, Goto,
        files, CalibrationAssumption, Loaded
<1>1. CASE NothingToMeasure(w)
  <2>1. held' = [held EXCEPT ![w] = [held[w] EXCEPT !.conf = Loaded(conf_file, NoThreshold)]]
    BY <1>1 DEF NothingToMeasure
  <2>2. Loaded(conf_file, NoThreshold) \in Thresholds
    BY Defaults
  <2>3. held' \in [Worker -> [recal : Versions, conf : Thresholds]]
    BY <2>1, <2>2
  <2>4. UNCHANGED <<outcomes, mixed, recal_file, conf_file, pc, run, kills>>
    BY <1>1 DEF NothingToMeasure
  <2>5. QED
    BY <2>3, <2>4
<1>2. CASE Measure(w)
  <2>1. run' = [run EXCEPT ![w] = [NoRun EXCEPT !.n = outcomes, !.both = mixed]]
    BY <1>2 DEF Measure
  <2>2. [NoRun EXCEPT !.n = outcomes, !.both = mixed] \in Runs
    BY Defaults
  <2>3. run' \in [Worker -> Runs]
    BY <2>1, <2>2
  <2>4. Goto(w, "measured") /\ UNCHANGED <<outcomes, mixed, recal_file, conf_file, held, kills>>
    BY <1>2 DEF Measure
  <2>5. QED
    BY <2>3, <2>4
<1>3. CASE Recalibrate(w)
  <2>1. run' = [run EXCEPT ![w] = [run[w] EXCEPT !.recal = run[w].n, !.recalibrated = TRUE]]
    BY <1>3 DEF Recalibrate
  <2>2. run[w] \in Runs
    OBVIOUS
  <2>3. [run[w] EXCEPT !.recal = run[w].n, !.recalibrated = TRUE] \in Runs
    <3>1. Loaded(recal_file, 0) \in Versions
      OBVIOUS
    <3>2. QED
      BY <2>2, <3>1
  <2>4. run' \in [Worker -> Runs]
    BY <2>1, <2>3
  <2>5. Goto(w, "recalibrated") /\ UNCHANGED <<outcomes, mixed, conf_file, held, kills>>
    BY <1>3 DEF Recalibrate
  <2>6. recal_file' \in Versions \cup {Torn}
    BY <1>3 DEF Recalibrate
  <2>7. QED
    BY <2>4, <2>5, <2>6
<1>4. CASE KeepRecalibrator(w)
  <2>1. run' = [run EXCEPT ![w] = [run[w] EXCEPT !.recal = Loaded(recal_file, 0)]]
    BY <1>4 DEF KeepRecalibrator
  <2>2. run[w] \in Runs
    OBVIOUS
  <2>3. [run[w] EXCEPT !.recal = Loaded(recal_file, 0)] \in Runs
    <3>1. Loaded(recal_file, 0) \in Versions
      OBVIOUS
    <3>2. QED
      BY <2>2, <3>1
  <2>4. run' \in [Worker -> Runs]
    BY <2>1, <2>3
  <2>5. Goto(w, "recalibrated") /\ UNCHANGED <<outcomes, mixed, conf_file, held, kills>>
    BY <1>4 DEF KeepRecalibrator
  <2>6. recal_file' \in Versions \cup {Torn}
    BY <1>4 DEF KeepRecalibrator
  <2>7. QED
    BY <2>4, <2>5, <2>6
<1>5. CASE FitConformal(w)
  <2>1. /\ pc[w] = "recalibrated" /\ Goto(w, "fitted")
        /\ UNCHANGED <<outcomes, mixed, recal_file, conf_file, held, kills>>
    BY <1>5 DEF FitConformal
  <2>2. run' = [run EXCEPT ![w] = [run[w] EXCEPT !.threshold = Fitted(run[w])]]
    BY <1>5 DEF FitConformal
  <2>3. run[w] \in Runs
    OBVIOUS
  <2>4. /\ [run[w] EXCEPT !.threshold = Fitted(run[w])] \in Runs
        /\ Fitted([run[w] EXCEPT !.threshold = Fitted(run[w])]) = Fitted(run[w])
    BY <2>3, FittedIsThreshold DEF Fitted, Enough, Runs
  <2>5. QED
    BY <2>1, <2>2, <2>3, <2>4 DEF Runs
<1>6. CASE SaveConformal(w)
  BY <1>6 DEF SaveConformal
<1>7. CASE Reload(w)
  BY <1>7 DEF Reload, Reloaded, NoRun, NoThreshold
<1>8. CASE Restart(w)
  BY <1>8 DEF Restart, NoRun, NoThreshold
<1>9. QED
  BY <1>1, <1>2, <1>3, <1>4, <1>5, <1>6, <1>7, <1>8 DEF Calibrate

(* A step of the one process reads and fits what there is. *)
LEMMA MeasuredNext ==
  ASSUME OneProcess, TypeOK, Measured, BackedByData, NEW w \in Worker,
         Calibrate(w) \/ Restart(w)
  PROVE  Measured'
<1> USE CalibrationAssumption, TornIsNoVersion DEF OneProcess, TypeOK, Runs, Versions,
        Thresholds, Measured, BackedByData, Goto, files, CalibrationAssumption, Loaded
<1>1. CASE NothingToMeasure(w)
  BY <1>1 DEF NothingToMeasure
<1>2. CASE Measure(w)
  BY <1>2 DEF Measure, NoRun, NoThreshold
<1>3. CASE Recalibrate(w)
  BY <1>3 DEF Recalibrate
<1>4. CASE KeepRecalibrator(w)
  BY <1>4 DEF KeepRecalibrator
<1>5. CASE FitConformal(w)
  <2>1. /\ pc[w] = "recalibrated" /\ Goto(w, "fitted")
        /\ UNCHANGED <<outcomes, mixed, recal_file, conf_file, held, kills>>
    BY <1>5 DEF FitConformal
  <2>2. run' = [run EXCEPT ![w] = [run[w] EXCEPT !.threshold = Fitted(run[w])]]
    BY <1>5 DEF FitConformal
  <2>3. run[w] \in Runs
    OBVIOUS
  <2>4. /\ [run[w] EXCEPT !.threshold = Fitted(run[w])] \in Runs
        /\ Fitted([run[w] EXCEPT !.threshold = Fitted(run[w])]) = Fitted(run[w])
    BY <2>3, FittedIsThreshold DEF Fitted, Enough, Runs
  <2>5. QED
    BY <2>1, <2>2, <2>3, <2>4 DEF Runs
<1>6. CASE SaveConformal(w)
  BY <1>6 DEF SaveConformal
<1>7. CASE Reload(w)
  BY <1>7 DEF Reload, Reloaded, NoRun, NoThreshold
<1>8. CASE Restart(w)
  BY <1>8 DEF Restart, NoRun, NoThreshold
<1>9. QED
  BY <1>1, <1>2, <1>3, <1>4, <1>5, <1>6, <1>7, <1>8 DEF Calibrate

(* A step of the one process writes files that rest on enough data. *)
LEMMA BackedNext ==
  ASSUME TypeOK, Measured, BackedByData, NEW w \in Worker,
         Calibrate(w) \/ Restart(w)
  PROVE  BackedByData'
<1> USE CalibrationAssumption, TornIsNoVersion DEF TypeOK, Runs, Versions,
        Thresholds, Measured, BackedByData, Goto, files, CalibrationAssumption, Loaded
<1>1. CASE NothingToMeasure(w)
  BY <1>1 DEF NothingToMeasure
<1>2. CASE Measure(w)
  BY <1>2 DEF Measure, NoRun, NoThreshold
<1>3. CASE Recalibrate(w)
  BY <1>3 DEF Recalibrate, Enough
<1>4. CASE KeepRecalibrator(w)
  BY <1>4 DEF KeepRecalibrator
<1>5. CASE FitConformal(w)
  <2>1. /\ pc[w] = "recalibrated" /\ Goto(w, "fitted")
        /\ UNCHANGED <<outcomes, mixed, recal_file, conf_file, held, kills>>
    BY <1>5 DEF FitConformal
  <2>2. run' = [run EXCEPT ![w] = [run[w] EXCEPT !.threshold = Fitted(run[w])]]
    BY <1>5 DEF FitConformal
  <2>3. run[w] \in Runs
    OBVIOUS
  <2>4. /\ [run[w] EXCEPT !.threshold = Fitted(run[w])] \in Runs
        /\ Fitted([run[w] EXCEPT !.threshold = Fitted(run[w])]) = Fitted(run[w])
    BY <2>3, FittedIsThreshold DEF Fitted, Enough, Runs
  <2>5. QED
    BY <2>1, <2>2, <2>3, <2>4 DEF Runs
<1>6. CASE SaveConformal(w)
  <2>1. /\ pc[w] = "fitted" /\ Goto(w, "recorded")
        /\ conf_file' = IF run[w].threshold # NoThreshold THEN run[w].threshold ELSE conf_file
        /\ UNCHANGED <<outcomes, mixed, recal_file, held, run, kills>>
    BY <1>6 DEF SaveConformal
  <2>2. run[w].threshold = Fitted(run[w])
    BY <2>1
  <2>3. CASE Enough(run[w])
    <3>1. conf_file' = [of |-> run[w].recal, on |-> run[w].n]
      BY <2>1, <2>2, <2>3 DEF Fitted, NoThreshold, Enough
    <3>2. QED
      BY <2>1, <2>3, <3>1 DEF Enough, NoThreshold
  <2>4. CASE ~Enough(run[w])
    <3>1. conf_file' = conf_file
      BY <2>1, <2>2, <2>4 DEF Fitted
    <3>2. QED
      BY <2>1, <2>4, <3>1
  <2>5. QED
    BY <2>3, <2>4
<1>7. CASE Reload(w)
  BY <1>7 DEF Reload, Reloaded, NoRun, NoThreshold
<1>8. CASE Restart(w)
  BY <1>8 DEF Restart, NoRun, NoThreshold
<1>9. QED
  BY <1>1, <1>2, <1>3, <1>4, <1>5, <1>6, <1>7, <1>8 DEF Calibrate

(* A step of the one process keeps what it holds in step with the file. *)
LEMMA InStepNext ==
  ASSUME OneProcess, TypeOK, Measured, InStep, NEW w \in Worker,
         Calibrate(w) \/ Restart(w)
  PROVE  InStep'
<1> USE CalibrationAssumption, TornIsNoVersion DEF OneProcess, TypeOK, Runs, Versions,
        Thresholds, Measured, InStep, Goto, files, CalibrationAssumption, Loaded, Enough
<1>1. CASE NothingToMeasure(w)
  BY <1>1 DEF NothingToMeasure
<1>2. CASE Measure(w)
  BY <1>2 DEF Measure, NoRun, NoThreshold
<1>3. CASE Recalibrate(w)
  BY <1>3 DEF Recalibrate
<1>4. CASE KeepRecalibrator(w)
  BY <1>4 DEF KeepRecalibrator
<1>5. CASE FitConformal(w)
  <2>1. /\ pc[w] = "recalibrated" /\ Goto(w, "fitted")
        /\ UNCHANGED <<outcomes, mixed, recal_file, conf_file, held, kills>>
    BY <1>5 DEF FitConformal
  <2>2. run' = [run EXCEPT ![w] = [run[w] EXCEPT !.threshold = Fitted(run[w])]]
    BY <1>5 DEF FitConformal
  <2>3. run[w] \in Runs
    OBVIOUS
  <2>4. /\ [run[w] EXCEPT !.threshold = Fitted(run[w])] \in Runs
        /\ Fitted([run[w] EXCEPT !.threshold = Fitted(run[w])]) = Fitted(run[w])
    BY <2>3, FittedIsThreshold DEF Fitted, Enough, Runs
  <2>5. QED
    BY <2>1, <2>2, <2>3, <2>4 DEF Runs
<1>6. CASE SaveConformal(w)
  BY <1>6 DEF SaveConformal, Fitted, Enough, NoThreshold
<1>7. CASE Reload(w)
  BY <1>7 DEF Reload, Reloaded, NoRun, NoThreshold
<1>8. CASE Restart(w)
  BY <1>8 DEF Restart, NoRun, NoThreshold
<1>9. QED
  BY <1>1, <1>2, <1>3, <1>4, <1>5, <1>6, <1>7, <1>8 DEF Calibrate

(* A step of the one process, not its death, keeps the files together. *)
LEMMA UndisturbedNext ==
  ASSUME OneProcess, TypeOK, Measured, InStep, Undisturbed, NEW w \in Worker,
         Calibrate(w) \/ Restart(w)
  PROVE  Undisturbed'
<1> USE CalibrationAssumption, TornIsNoVersion DEF OneProcess, TypeOK, Runs, Versions,
        Thresholds, Measured, InStep, Undisturbed, FilesMatch, GateMatches, Goto, files,
        CalibrationAssumption, Loaded, Enough
<1>1. CASE NothingToMeasure(w)
  BY <1>1 DEF NothingToMeasure
<1>2. CASE Measure(w)
  BY <1>2 DEF Measure, NoRun, NoThreshold
<1>3. CASE Recalibrate(w)
  BY <1>3 DEF Recalibrate
<1>4. CASE KeepRecalibrator(w)
  BY <1>4 DEF KeepRecalibrator
<1>5. CASE FitConformal(w)
  <2>1. /\ pc[w] = "recalibrated" /\ Goto(w, "fitted")
        /\ UNCHANGED <<outcomes, mixed, recal_file, conf_file, held, kills>>
    BY <1>5 DEF FitConformal
  <2>2. run' = [run EXCEPT ![w] = [run[w] EXCEPT !.threshold = Fitted(run[w])]]
    BY <1>5 DEF FitConformal
  <2>3. run[w] \in Runs
    OBVIOUS
  <2>4. /\ [run[w] EXCEPT !.threshold = Fitted(run[w])] \in Runs
        /\ Fitted([run[w] EXCEPT !.threshold = Fitted(run[w])]) = Fitted(run[w])
    BY <2>3, FittedIsThreshold DEF Fitted, Enough, Runs
  <2>5. QED
    BY <2>1, <2>2, <2>3, <2>4 DEF Runs
<1>6. CASE SaveConformal(w)
  <2>1. /\ pc[w] = "fitted" /\ Goto(w, "recorded")
        /\ conf_file' = IF run[w].threshold # NoThreshold THEN run[w].threshold ELSE conf_file
        /\ UNCHANGED <<outcomes, mixed, recal_file, held, run, kills>>
    BY <1>6 DEF SaveConformal
  <2>2. run[w].threshold = Fitted(run[w])
    BY <2>1
  <2>3. CASE Enough(run[w])
    <3>1. conf_file' = [of |-> run[w].recal, on |-> run[w].n]
      BY <2>1, <2>2, <2>3 DEF Fitted, NoThreshold, Enough
    <3>2. QED
      BY <2>1, <2>3, <3>1 DEF Enough, NoThreshold
  <2>4. CASE ~Enough(run[w])
    <3>1. conf_file' = conf_file
      BY <2>1, <2>2, <2>4 DEF Fitted
    <3>2. QED
      BY <2>1, <2>4, <3>1
  <2>5. QED
    BY <2>3, <2>4
<1>7. CASE Reload(w)
  BY <1>7 DEF Reload, Reloaded, NoRun, NoThreshold
<1>8. CASE Restart(w)
  BY <1>8 DEF Restart, NoRun, NoThreshold
<1>9. QED
  BY <1>1, <1>2, <1>3, <1>4, <1>5, <1>6, <1>7, <1>8 DEF Calibrate

(* A logged outcome is only one more. *)
LEMMA LogOutcomeKeeps ==
  ASSUME IInv, LogOutcome
  PROVE  IInv'
<1> USE CalibrationAssumption DEF IInv, LogOutcome, files, CalibrationAssumption
<1>1. TypeOK'
  BY DEF TypeOK
<1>2. Measured'
  BY DEF TypeOK, Measured, Versions
<1>3. BackedByData'
  BY DEF TypeOK, BackedByData, Versions
<1>4. InStep' /\ Undisturbed'
  BY DEF InStep, Undisturbed, FilesMatch, GateMatches
<1>5. QED
  BY <1>1, <1>2, <1>3, <1>4

(* The only step that ends a run without a death is the reload. *)
LEMMA OnlyReload ==
  ASSUME TypeOK, NEW w \in Worker, Calibrate(w) \/ Restart(w),
         NEW v \in Worker, pc[v] = "recorded", pc'[v] = "serving", kills' = kills
  PROVE  v = w /\ Reload(w)
<1> USE DEF TypeOK, Goto
<1>1. CASE NothingToMeasure(w)
  BY <1>1 DEF NothingToMeasure
<1>2. CASE Measure(w)
  BY <1>2 DEF Measure, NoRun, NoThreshold
<1>3. CASE Recalibrate(w)
  BY <1>3 DEF Recalibrate
<1>4. CASE KeepRecalibrator(w)
  BY <1>4 DEF KeepRecalibrator
<1>5. CASE FitConformal(w)
  BY <1>5 DEF FitConformal
<1>6. CASE SaveConformal(w)
  BY <1>6 DEF SaveConformal
<1>7. CASE Reload(w)
  BY <1>7 DEF Reload, Reloaded, NoRun, NoThreshold
<1>8. CASE Restart(w)
  BY <1>8 DEF Restart, NoRun, NoThreshold
<1>9. QED
  BY <1>1, <1>2, <1>3, <1>4, <1>5, <1>6, <1>7, <1>8 DEF Calibrate

(* Every step of a deployment with one process keeps the invariant. *)
LEMMA IInvNext ==
  ASSUME OneProcess, IInv, [Next]_vars
  PROVE  IInv'
<1>1. CASE LogOutcome
  BY <1>1, LogOutcomeKeeps
<1>2. CASE \E w \in Worker : Calibrate(w) \/ Restart(w)
  <2>1. PICK w \in Worker : Calibrate(w) \/ Restart(w)
    BY <1>2
  <2>2. QED
    BY <2>1, TypeNext, MeasuredNext, BackedNext, InStepNext, UndisturbedNext DEF IInv
<1>3. CASE UNCHANGED vars
  BY <1>3 DEF IInv, TypeOK, Measured, BackedByData, InStep, Undisturbed, FilesMatch,
              GateMatches, vars, files
<1>4. QED
  BY <1>1, <1>2, <1>3 DEF Next

(* The invariant holds in every reachable state of one process. *)
THEOREM Invariant ==
  ASSUME OneProcess
  PROVE  Spec => []IInv
<1>1. Init => IInv
  BY IInvInit
<1>2. IInv /\ [Next]_vars => IInv'
  BY IInvNext
<1>3. QED
  BY <1>1, <1>2, PTL DEF Spec

(* The recalibrator and the threshold rest on enough data and belong         *)
(* together, however many outcomes are logged, unless the process died.      *)
THEOREM FilesBelongTogether ==
  ASSUME OneProcess
  PROVE  Spec => []FilesAgree
<1>1. IInv => FilesAgree
  BY DEF IInv, Undisturbed, FilesAgree, MismatchNeedsADeath, GateMatchesModel
<1>2. QED
  BY <1>1, Invariant, PTL

(* The next calibration with enough data puts gate and model together again, *)
(* whatever deaths came before it.                                           *)
THEOREM CalibrationsHeal ==
  ASSUME OneProcess
  PROVE  Spec => CalibrationHeals
<1>1. IInv /\ [Next]_vars =>
        [\A w \in Worker : pc[w] = "recorded" /\ pc'[w] = "serving" /\ Enough(run[w])
            /\ kills' = kills => GateMatches(w)']_vars
  <2>1. SUFFICES ASSUME IInv, Next, NEW v \in Worker, pc[v] = "recorded", pc'[v] = "serving",
                        Enough(run[v]), kills' = kills
                 PROVE  GateMatches(v)'
    BY DEF vars
  <2>2. Reload(v)
    <3>1. ~LogOutcome
      BY <2>1 DEF LogOutcome
    <3>2. PICK w \in Worker : Calibrate(w) \/ Restart(w)
      BY <2>1, <3>1 DEF Next
    <3>3. QED
      BY <2>1, <3>2, OnlyReload DEF IInv
  <2>3. held'[v] = Reloaded(v)
    BY <2>1, <2>2 DEF Reload, IInv, TypeOK
  <2>4. /\ run[v].recal = Loaded(recal_file, 0)
        /\ conf_file = [of |-> run[v].recal, on |-> run[v].n]
        /\ ~run[v].recalibrated => held[v].recal = Loaded(recal_file, 0)
    BY <2>1 DEF IInv, InStep
  <2>5. conf_file # Torn
    BY <2>1, <2>4, TornIsNoVersion DEF IInv, TypeOK, Thresholds, Versions
  <2>6. held'[v].recal = run[v].recal /\ held'[v].conf = conf_file
    BY <2>3, <2>4, <2>5 DEF Reloaded, Loaded
  <2>7. QED
    BY <2>4, <2>6 DEF GateMatches
<1>2. QED
  BY <1>1, Invariant, PTL DEF Spec, CalibrationHeals

(***************************************************************************)
(* Induction.  The library's theorems on it take an operator, which no     *)
(* prover here instantiates; these take a set.                             *)
(***************************************************************************)
(* Of some numbers, one is the least. *)
LEMMA LeastOf ==
  ASSUME NEW T, T \subseteq Nat, T # {}
  PROVE  \E x \in T : \A y \in T : x <= y
<1>1. PICK x \in T : \A y \in T : ~ (<<y, x>> \in OpToRel(<, Nat))
  BY WFMin, NatLessThanWellFounded
<1>2. \A y \in T : ~ (y < x)
  BY <1>1 DEF OpToRel
<1>3. QED
  BY <1>2

(* A set that has nought, and with each number the next, has all numbers. *)
LEMMA AllNumbersIn ==
  ASSUME NEW T, T \subseteq Nat, 0 \in T, \A n \in T : n + 1 \in T
  PROVE  T = Nat
<1> DEFINE U == Nat \ T
<1>1. SUFFICES ASSUME U # {} PROVE FALSE
  OBVIOUS
<1>2. PICK x \in U : \A y \in U : x <= y
  <2>1. U \subseteq Nat
    OBVIOUS
  <2> HIDE DEF U
  <2>2. QED
    BY <1>1, <2>1, LeastOf
<1>3. x \in Nat /\ x # 0 /\ x - 1 \in Nat /\ x - 1 \notin U
  BY <1>2
<1>4. x - 1 \in T
  BY <1>3
<1>5. x - 1 + 1 \in T
  BY <1>4
<1>6. QED
  BY <1>2, <1>3, <1>5

(* A collection that has the empty set, and with each set all that have one    *)
(* element more, has every finite set.                                         *)
LEMMA AllSetsIn ==
  ASSUME NEW S, IsFiniteSet(S), NEW T, {} \in T,
         \A s \in SUBSET S : s \in T => \A x \in S \ s : s \cup {x} \in T
  PROVE  S \in T
<1> DEFINE U == {n \in Nat : \E s \in SUBSET S : s \notin T /\ Cardinality(s) = n}
<1>1. SUFFICES ASSUME S \notin T PROVE FALSE
  OBVIOUS
<1>2. Cardinality(S) \in U
  BY <1>1, FS_CardinalityType
<1>3. PICK n \in U : \A m \in U : n <= m
  <2>1. U \subseteq Nat /\ U # {}
    BY <1>2
  <2> HIDE DEF U
  <2>2. QED
    BY <2>1, LeastOf
<1>4. PICK s \in SUBSET S : s \notin T /\ Cardinality(s) = n
  BY <1>3
<1>5. PICK x : x \in s
  BY <1>4
<1>6. IsFiniteSet(s) /\ n \in Nat
  BY <1>3, FS_Subset
<1>7. Cardinality(s \ {x}) = n - 1 /\ n - 1 \in Nat
  <2>1. IsFiniteSet(s \ {x}) /\ Cardinality(s \ {x}) = n - 1
    BY <1>4, <1>5, <1>6, FS_RemoveElement
  <2>2. Cardinality(s \ {x}) \in Nat
    BY <2>1, FS_CardinalityType
  <2>3. QED
    BY <2>1, <2>2
<1>8. s \ {x} \in T
  <2>1. n - 1 \notin U
    BY <1>3, <1>6
  <2>2. QED
    BY <1>7, <2>1
<1>9. (s \ {x}) \cup {x} = s /\ x \in S \ (s \ {x}) /\ s \ {x} \in SUBSET S
  BY <1>5
<1>10. QED
  BY <1>4, <1>8, <1>9

(***************************************************************************)
(* Sums.  A sum over a finite set can be taken in any order.               *)
(***************************************************************************)
First(s)        == CHOOSE x \in s : TRUE
Added(it, f, s) == IF s = {} THEN 0 ELSE f[First(s)] + it[s \ {First(s)}]
IsSum(it, f, S) == it = [s \in SUBSET S |-> Added(it, f, s)]
Small(S, n)     == {s \in SUBSET S : Cardinality(s) <= n}

(* A sum is a value of the function that SumFunctionOnSet folds by. *)
LEMMA SumIsChosen ==
  ASSUME NEW f, NEW S
  PROVE  Numbers!SumFunctionOnSet(f, S) = (CHOOSE it : IsSum(it, f, S))[S]
BY DEF Numbers!SumFunctionOnSet, Numbers!FoldFunctionOnSet, Numbers!MapThenFoldSet, IsSum,
       First, Added

(* A set that is not empty has one element fewer without its first. *)
LEMMA FirstIsTaken ==
  ASSUME NEW s, IsFiniteSet(s), s # {}
  PROVE  /\ First(s) \in s /\ IsFiniteSet(s \ {First(s)})
         /\ Cardinality(s) \in Nat \ {0}
         /\ Cardinality(s \ {First(s)}) = Cardinality(s) - 1
<1>1. First(s) \in s
  BY DEF First
<1>2. IsFiniteSet(s \ {First(s)}) /\ Cardinality(s \ {First(s)}) = Cardinality(s) - 1
  BY <1>1, FS_RemoveElement
<1>3. Cardinality(s) \in Nat /\ Cardinality(s) # 0
  BY FS_CardinalityType, FS_EmptySet
<1>4. QED
  BY <1>1, <1>2, <1>3

(* There is such a function, by induction on the size of the sets it adds up. *)
LEMMA SumExists ==
  ASSUME NEW S, IsFiniteSet(S), NEW f, \A x \in S : f[x] \in Int
  PROVE  \E it \in [SUBSET S -> Int] : IsSum(it, f, S)
<1> DEFINE Good(n) == \E it \in [Small(S, n) -> Int] :
                        \A s \in Small(S, n) : it[s] = Added(it, f, s)
           T       == {n \in Nat : Good(n)}
<1>0. \A s \in SUBSET S : IsFiniteSet(s) /\ Cardinality(s) \in Nat
  BY FS_Subset, FS_CardinalityType
<1>1. 0 \in T
  <2>1. \A s \in Small(S, 0) : s = {}
    <3>1. \A s \in SUBSET S : Cardinality(s) = 0 => s = {}
      BY <1>0, FS_EmptySet
    <3>2. QED
      BY <1>0, <3>1 DEF Small
  <2>2. [s \in Small(S, 0) |-> 0] \in [Small(S, 0) -> Int]
    OBVIOUS
  <2>3. \A s \in Small(S, 0) : [t \in Small(S, 0) |-> 0][s] = Added([t \in Small(S, 0) |-> 0], f, s)
    BY <2>1 DEF Added
  <2>4. QED
    BY <2>2, <2>3
<1>2. ASSUME NEW n \in Nat, Good(n) PROVE Good(n + 1)
  <2>1. PICK it \in [Small(S, n) -> Int] : \A s \in Small(S, n) : it[s] = Added(it, f, s)
    BY <1>2
  <2> DEFINE new == [s \in Small(S, n + 1) |-> Added(it, f, s)]
  <2>2. \A s \in Small(S, n + 1) : s # {} => s \ {First(s)} \in Small(S, n) /\ First(s) \in S
    BY <1>0, FirstIsTaken DEF Small
  <2>3. \A s \in Small(S, n) : s \in Small(S, n + 1)
    BY <1>0 DEF Small
  <2>4. new \in [Small(S, n + 1) -> Int]
    <3>1. \A s \in Small(S, n + 1) : Added(it, f, s) \in Int
      BY <2>2 DEF Added
    <3>2. QED
      BY <3>1
  <2>5. \A s \in Small(S, n) : new[s] = it[s]
    BY <2>1, <2>3
  <2>6. \A s \in Small(S, n + 1) : new[s] = Added(it, f, s)
    OBVIOUS
  <2> HIDE DEF new
  <2>7. \A s \in Small(S, n + 1) : Added(it, f, s) = Added(new, f, s)
    BY <2>2, <2>5 DEF Added
  <2>8. QED
    BY <2>4, <2>6, <2>7
<1>3. T = Nat
  <2>1. \A n \in T : n + 1 \in T
    BY <1>2
  <2> HIDE DEF T
  <2>2. QED
    BY <1>1, <2>1, AllNumbersIn DEF T
<1>4. Good(Cardinality(S))
  BY <1>0, <1>3
<1>5. Small(S, Cardinality(S)) = SUBSET S
  <2>1. \A s \in SUBSET S : Cardinality(s) <= Cardinality(S)
    BY FS_Subset
  <2>2. QED
    BY <2>1 DEF Small
<1>6. PICK it \in [SUBSET S -> Int] : \A s \in SUBSET S : it[s] = Added(it, f, s)
  BY <1>4, <1>5
<1>7. IsSum(it, f, S)
  <2>1. it = [s \in SUBSET S |-> it[s]]
    OBVIOUS
  <2>2. QED
    BY <1>6, <2>1 DEF IsSum
<1>8. QED
  BY <1>7

(* Two such functions agree where what they add up agrees. *)
LEMMA SumsAgree ==
  ASSUME NEW S, NEW R, NEW f, NEW g, NEW a, NEW b, IsSum(a, f, S), IsSum(b, g, R),
         IsFiniteSet(S \cap R), \A x \in S \cap R : f[x] = g[x]
  PROVE  \A s \in SUBSET (S \cap R) : a[s] = b[s]
<1> DEFINE U == {n \in Nat : \E s \in SUBSET (S \cap R) : a[s] # b[s] /\ Cardinality(s) = n}
<1>0. \A s \in SUBSET (S \cap R) : IsFiniteSet(s) /\ Cardinality(s) \in Nat
  BY FS_Subset, FS_CardinalityType
<1>1. SUFFICES ASSUME U # {} PROVE FALSE
  BY <1>0
<1>2. PICK n \in U : \A m \in U : n <= m
  <2>1. U \subseteq Nat
    OBVIOUS
  <2> HIDE DEF U
  <2>2. QED
    BY <1>1, <2>1, LeastOf
<1>3. PICK s \in SUBSET (S \cap R) : a[s] # b[s] /\ Cardinality(s) = n
  BY <1>2
<1>4. a[s] = Added(a, f, s) /\ b[s] = Added(b, g, s)
  BY DEF IsSum
<1>5. s # {}
  BY <1>3, <1>4 DEF Added
<1>6. /\ First(s) \in s /\ s \ {First(s)} \in SUBSET (S \cap R)
      /\ Cardinality(s \ {First(s)}) = n - 1 /\ n - 1 \in Nat
  BY <1>0, <1>3, <1>5, FirstIsTaken
<1>7. a[s \ {First(s)}] = b[s \ {First(s)}]
  <2>1. n - 1 \notin U
    BY <1>2, <1>6
  <2>2. QED
    BY <1>6, <2>1
<1>8. f[First(s)] = g[First(s)]
  BY <1>3, <1>6
<1>9. QED
  BY <1>3, <1>4, <1>7, <1>8 DEF Added

Sum(f, S) == Numbers!SumFunctionOnSet(f, S)

(* A sum is that of one element and of the rest, and that of none is nought. *)
LEMMA SumIs ==
  ASSUME NEW S, IsFiniteSet(S), NEW f, \A x \in S : f[x] \in Int
  PROVE  /\ Sum(f, S) \in Int
         /\ S = {} => Sum(f, S) = 0
         /\ S # {} => First(S) \in S /\ Sum(f, S) = f[First(S)] + Sum(f, S \ {First(S)})
<1> DEFINE it(R) == CHOOSE i : IsSum(i, f, R)
<1>1. ASSUME NEW R, R \subseteq S
      PROVE  IsSum(it(R), f, R) /\ it(R)[R] \in Int
  <2>1. IsFiniteSet(R)
    BY <1>1, FS_Subset
  <2>2. PICK i \in [SUBSET R -> Int] : IsSum(i, f, R)
    BY <1>1, <2>1, SumExists
  <2>3. IsSum(it(R), f, R)
    BY <2>2
  <2> HIDE DEF it
  <2>4. it(R)[R] = i[R]
    BY <2>1, <2>2, <2>3, SumsAgree
  <2>5. QED
    BY <2>2, <2>3, <2>4
<1>2. \A R : Sum(f, R) = it(R)[R]
  BY SumIsChosen DEF Sum
<1> HIDE DEF it
<1>3. it(S)[S] = Added(it(S), f, S)
  BY <1>1 DEF IsSum
<1>4. ASSUME S # {}
      PROVE  /\ First(S) \in S
             /\ it(S)[S \ {First(S)}] = it(S \ {First(S)})[S \ {First(S)}]
  <2>1. First(S) \in S /\ IsFiniteSet(S \ {First(S)})
    BY <1>4, FirstIsTaken
  <2>2. IsSum(it(S), f, S) /\ IsSum(it(S \ {First(S)}), f, S \ {First(S)})
    BY <1>1
  <2>3. S \cap (S \ {First(S)}) = S \ {First(S)}
    OBVIOUS
  <2>4. \A s \in SUBSET (S \cap (S \ {First(S)})) : it(S)[s] = it(S \ {First(S)})[s]
    BY <2>1, <2>2, <2>3, SumsAgree
  <2>5. QED
    BY <2>1, <2>3, <2>4
<1>5. QED
  BY <1>1, <1>2, <1>3, <1>4 DEF Added

(* ... and it may be any element. *)
LEMMA SumTakes ==
  ASSUME NEW S, IsFiniteSet(S), NEW f, \A y \in S : f[y] \in Int
  PROVE  \A x \in S : Sum(f, S) = f[x] + Sum(f, S \ {x})
<1> DEFINE Takes(s) == \A x \in s : Sum(f, s) = f[x] + Sum(f, s \ {x})
           U == {n \in Nat : \E s \in SUBSET S : ~Takes(s) /\ Cardinality(s) = n}
<1>0. \A s \in SUBSET S : IsFiniteSet(s) /\ Cardinality(s) \in Nat
  BY FS_Subset, FS_CardinalityType
<1>1. SUFFICES ASSUME U # {} PROVE FALSE
  <2>1. Cardinality(S) \in Nat /\ S \in SUBSET S
    BY <1>0
  <2>2. U = {} => Takes(S)
    BY <2>1
  <2>3. QED
    BY <2>2
<1>2. PICK n \in U : \A m \in U : n <= m
  <2>1. U \subseteq Nat
    OBVIOUS
  <2> HIDE DEF U
  <2>2. QED
    BY <1>1, <2>1, LeastOf
<1>3. PICK s \in SUBSET S : ~Takes(s) /\ Cardinality(s) = n
  BY <1>2
<1>4. /\ \A R \in SUBSET S : Sum(f, R) \in Int
      /\ s # {} => First(s) \in s /\ Sum(f, s) = f[First(s)] + Sum(f, s \ {First(s)})
  BY <1>0, SumIs
<1>5. PICK x \in s : Sum(f, s) # f[x] + Sum(f, s \ {x})
  BY <1>3
<1> DEFINE c == First(s)
<1>6. c \in s /\ x # c /\ Sum(f, s) = f[c] + Sum(f, s \ {c})
  <2>1. s # {} /\ s \in SUBSET S
    BY <1>3, <1>5
  <2>2. c \in s /\ Sum(f, s) = f[c] + Sum(f, s \ {c})
    BY <1>4, <2>1
  <2> HIDE DEF c
  <2>3. QED
    BY <1>5, <2>2
<1>7. ASSUME NEW y \in s PROVE Takes(s \ {y})
  <2>1. IsFiniteSet(s \ {y}) /\ Cardinality(s \ {y}) = n - 1
    BY <1>0, <1>3, FS_RemoveElement
  <2>2. n - 1 \in Nat
    BY <2>1, FS_CardinalityType
  <2>3. n - 1 \notin U
    BY <1>2, <2>2
  <2> HIDE DEF Takes
  <2>4. QED
    BY <2>1, <2>2, <2>3
<1> HIDE DEF U, c
<1>8. Sum(f, s \ {c}) = f[x] + Sum(f, (s \ {c}) \ {x})
  BY <1>6, <1>7
<1>9. Sum(f, s \ {x}) = f[c] + Sum(f, (s \ {x}) \ {c})
  BY <1>6, <1>7
<1>10. (s \ {c}) \ {x} = (s \ {x}) \ {c}
  OBVIOUS
<1>11. f[x] \in Int /\ f[c] \in Int /\ Sum(f, (s \ {x}) \ {c}) \in Int
  <2>1. Sum(f, (s \ {x}) \ {c}) \in Int
    <3>1. (s \ {x}) \ {c} \in SUBSET S
      BY <1>3
    <3> HIDE DEF Takes
    <3>2. QED
      BY <1>4, <3>1
  <2>2. x \in S /\ c \in S
    BY <1>3, <1>5, <1>6
  <2>3. f[x] \in Int /\ f[c] \in Int
    BY <2>2
  <2>4. QED
    BY <2>1, <2>3
<1>12. Sum(f, s) = f[c] + (f[x] + Sum(f, (s \ {x}) \ {c}))
  BY <1>6, <1>8, <1>10
<1>13. QED
  BY <1>5, <1>9, <1>11, <1>12

(* A new element is added to the sum. *)
LEMMA SumAdds ==
  ASSUME NEW S, IsFiniteSet(S), NEW x, x \notin S, NEW f, \A y \in S \cup {x} : f[y] \in Int
  PROVE  Sum(f, S \cup {x}) = f[x] + Sum(f, S)
<1>1. IsFiniteSet(S \cup {x})
  BY FS_AddElement
<1>2. (S \cup {x}) \ {x} = S /\ x \in S \cup {x}
  OBVIOUS
<1>3. QED
  BY <1>1, <1>2, SumTakes

(* The sum depends only on what is added up. *)
LEMMA SumSame ==
  ASSUME NEW S, IsFiniteSet(S), NEW f, NEW h, \A x \in S : f[x] \in Int /\ h[x] = f[x]
  PROVE  Sum(h, S) = Sum(f, S)
<1> DEFINE T == {s \in SUBSET S : Sum(h, s) = Sum(f, s)}
<1>1. {} \in T
  <2>1. IsFiniteSet({})
    BY FS_EmptySet
  <2>2. Sum(h, {}) = 0 /\ Sum(f, {}) = 0
    BY <2>1, SumIs
  <2>3. QED
    BY <2>2
<1>2. ASSUME NEW s \in SUBSET S, s \in T, NEW x \in S \ s
      PROVE  s \cup {x} \in T
  <2>1. IsFiniteSet(s)
    BY FS_Subset
  <2>2. Sum(h, s \cup {x}) = h[x] + Sum(h, s) /\ Sum(f, s \cup {x}) = f[x] + Sum(f, s)
    BY <2>1, SumAdds
  <2>3. QED
    BY <1>2, <2>2
<1>3. S \in T
  <2> HIDE DEF T
  <2>1. QED
    BY <1>1, <1>2, AllSetsIn
<1>4. QED
  BY <1>3

(* The sum over two sets that are apart. *)
LEMMA SumOfBoth ==
  ASSUME NEW A, IsFiniteSet(A), NEW B, IsFiniteSet(B), A \cap B = {},
         NEW f, \A x \in A \cup B : f[x] \in Int
  PROVE  Sum(f, A \cup B) = Sum(f, A) + Sum(f, B)
<1> DEFINE T == {s \in SUBSET B : Sum(f, A \cup s) = Sum(f, A) + Sum(f, s)}
<1>0. Sum(f, A) \in Int /\ \A s \in SUBSET B : IsFiniteSet(s) /\ Sum(f, s) \in Int
  BY FS_Subset, SumIs
<1>1. {} \in T
  <2>1. Sum(f, {}) = 0 /\ A \cup {} = A
    BY <1>0, SumIs
  <2>2. QED
    BY <1>0, <2>1
<1>2. ASSUME NEW s \in SUBSET B, s \in T, NEW x \in B \ s
      PROVE  s \cup {x} \in T
  <2>1. IsFiniteSet(s) /\ IsFiniteSet(A \cup s) /\ x \notin A \cup s
    BY <1>0, FS_Union
  <2>2. Sum(f, s \cup {x}) = f[x] + Sum(f, s)
    BY <2>1, SumAdds
  <2>3. Sum(f, (A \cup s) \cup {x}) = f[x] + Sum(f, A \cup s)
    BY <2>1, SumAdds
  <2>4. (A \cup s) \cup {x} = A \cup (s \cup {x})
    OBVIOUS
  <2>5. f[x] \in Int /\ Sum(f, s) \in Int
    BY <1>0
  <2>6. QED
    BY <1>0, <1>2, <2>2, <2>3, <2>4, <2>5
<1>3. B \in T
  <2> HIDE DEF T
  <2>1. QED
    BY <1>1, <1>2, AllSetsIn
<1>4. QED
  BY <1>3

(* What is added up is natural: so is the sum, and that of a part is no more. *)
LEMMA SumOfPart ==
  ASSUME NEW S, IsFiniteSet(S), NEW R \in SUBSET S, NEW f, \A x \in S : f[x] \in Nat
  PROVE  Sum(f, S) \in Nat /\ Sum(f, R) \in Nat /\ Sum(f, R) <= Sum(f, S)
<1>1. ASSUME NEW Q, Q \subseteq S PROVE Sum(f, Q) \in Nat
  <2> DEFINE T == {s \in SUBSET Q : Sum(f, s) \in Nat}
  <2>0. IsFiniteSet(Q)
    BY <1>1, FS_Subset
  <2>1. {} \in T
    <3>1. IsFiniteSet({})
      BY FS_EmptySet
    <3>2. Sum(f, {}) = 0
      BY <3>1, SumIs
    <3>3. QED
      BY <3>2
  <2>2. ASSUME NEW s \in SUBSET Q, s \in T, NEW x \in Q \ s
        PROVE  s \cup {x} \in T
    <3>1. IsFiniteSet(s)
      BY <2>0, FS_Subset
    <3>2. Sum(f, s \cup {x}) = f[x] + Sum(f, s)
      <4>1. x \notin s /\ \A y \in s \cup {x} : f[y] \in Int
        BY <1>1, <2>2
      <4>2. QED
        BY <3>1, <4>1, SumAdds
    <3>3. QED
      BY <1>1, <2>2, <3>2
  <2>3. Q \in T
    <3> HIDE DEF T
    <3>1. QED
      BY <2>0, <2>1, <2>2, AllSetsIn
  <2>4. QED
    BY <2>3
<1>2. Sum(f, S) = Sum(f, R) + Sum(f, S \ R)
  <2>1. IsFiniteSet(R) /\ IsFiniteSet(S \ R) /\ R \cup (S \ R) = S /\ R \cap (S \ R) = {}
    BY FS_Subset
  <2>2. Sum(f, R \cup (S \ R)) = Sum(f, R) + Sum(f, S \ R)
    BY <2>1, SumOfBoth
  <2>3. QED
    BY <2>1, <2>2
<1>3. Sum(f, R) \in Nat /\ Sum(f, S \ R) \in Nat /\ Sum(f, S) \in Nat
  BY <1>1
<1>4. QED
  BY <1>2, <1>3

(***************************************************************************)
(* The binomial tail, for any rate.                                        *)
(***************************************************************************)
(* Products keep the order. *)
LEMMA TimesMonotone ==
  ASSUME NEW a \in Nat, NEW b \in Nat, NEW c \in Nat, a <= b
  PROVE  a * c <= b * c /\ c * a <= c * b /\ a * c \in Nat
<1>1. b * c = a * c + (b - a) * c
  OBVIOUS
<1>2. a * c \in Nat /\ (b - a) * c \in Nat
  OBVIOUS
<1>3. a * c <= b * c
  BY <1>1, <1>2
<1>4. c * a = a * c /\ c * b = b * c
  OBVIOUS
<1>5. QED
  BY <1>2, <1>3, <1>4

(* ... and a positive factor can be taken from both sides. *)
LEMMA TimesCancels ==
  ASSUME NEW a \in Nat, NEW b \in Nat, NEW c \in Nat \ {0}, c * a <= c * b
  PROVE  a <= b
<1>1. SUFFICES ASSUME a >= b + 1 PROVE FALSE
  OBVIOUS
<1>2. c * (b + 1) <= c * a
  BY <1>1, TimesMonotone
<1>3. c * (b + 1) = c * b + c /\ c * b \in Nat
  OBVIOUS
<1>4. QED
  BY <1>2, <1>3

(* A value that is to follow from the one before it is there for every number. *)
LEMMA StepsExist ==
  ASSUME NEW V, NEW v \in V, NEW step \in [V -> V]
  PROVE  \E h \in [Nat -> V] : h[0] = v /\ \A n \in Nat : h[n + 1] = step[h[n]]
<1> DEFINE Goes(a, n) == a \in [0 .. n -> V] /\ a[0] = v
                         /\ \A i \in 0 .. n - 1 : a[i + 1] = step[a[i]]
<1>1. \A n \in Nat : \E a : Goes(a, n)
  <2> DEFINE T == {n \in Nat : \E a : Goes(a, n)}
  <2>1. 0 \in T
    <3>1. Goes([i \in 0 .. 0 |-> v], 0)
      OBVIOUS
    <3>2. QED
      BY <3>1
  <2>2. ASSUME NEW n \in Nat, NEW a, Goes(a, n) PROVE \E e : Goes(e, n + 1)
    <3> DEFINE e == [i \in 0 .. n + 1 |-> IF i <= n THEN a[i] ELSE step[a[n]]]
    <3>1. \A i \in 0 .. n : a[i] \in V /\ e[i] = a[i]
      BY <2>2
    <3>2. e[n + 1] = step[a[n]] /\ a[n] \in V
      BY <3>1
    <3>3. e \in [0 .. n + 1 -> V]
      BY <3>1, <3>2
    <3>4. e[0] = v
      BY <2>2, <3>1
    <3>5. \A i \in 0 .. n : e[i + 1] = step[e[i]]
      <4>1. SUFFICES ASSUME NEW i \in 0 .. n PROVE e[i + 1] = step[e[i]]
        OBVIOUS
      <4>2. CASE i = n
        BY <3>1, <3>2, <4>2
      <4>3. CASE i # n
        <5>1. i \in 0 .. n - 1 /\ i + 1 \in 0 .. n
          BY <4>3
        <5> HIDE DEF e
        <5>2. QED
          BY <2>2, <3>1, <5>1
      <4>4. QED
        BY <4>2, <4>3
    <3> HIDE DEF e
    <3>6. QED
      BY <3>3, <3>4, <3>5
  <2>3. T = Nat
    <3>1. \A n \in T : n + 1 \in T
      BY <2>2
    <3> HIDE DEF T
    <3>2. QED
      BY <2>1, <3>1, AllNumbersIn DEF T
  <2>4. QED
    BY <2>3
<1>2. ASSUME NEW n \in Nat, NEW m \in Nat, NEW a, NEW b, Goes(a, n), Goes(b, m)
      PROVE  \A i \in Nat : i <= n /\ i <= m => a[i] = b[i]
  <2> DEFINE T == {i \in Nat : i <= n /\ i <= m => a[i] = b[i]}
  <2>1. 0 \in T
    BY <1>2
  <2>2. ASSUME NEW i \in T PROVE i + 1 \in T
    BY <1>2
  <2>3. T = Nat
    <3> HIDE DEF T
    <3>1. T \subseteq Nat
      BY DEF T
    <3>2. QED
      BY <2>1, <2>2, <3>1, AllNumbersIn
  <2>4. QED
    BY <2>3
<1> DEFINE app(n) == CHOOSE a : Goes(a, n)
           h      == [n \in Nat |-> app(n)[n]]
<1>3. \A n \in Nat : Goes(app(n), n)
  BY <1>1
<1> HIDE DEF app
<1>4. h \in [Nat -> V] /\ h[0] = v
  BY <1>3
<1>5. ASSUME NEW n \in Nat PROVE h[n + 1] = step[h[n]]
  <2>1. app(n + 1)[n] = app(n)[n]
    <3>1. Goes(app(n), n) /\ Goes(app(n + 1), n + 1) /\ n + 1 \in Nat
      BY <1>3
    <3> HIDE DEF Goes
    <3>2. \A i \in Nat : i <= n + 1 /\ i <= n => app(n + 1)[i] = app(n)[i]
      BY <1>2, <3>1
    <3>3. QED
      BY <3>2
  <2>2. app(n + 1)[n + 1] = step[app(n + 1)[n]]
    BY <1>3
  <2>3. QED
    BY <2>1, <2>2
<1>6. QED
  BY <1>4, <1>5

(* The weight of all outcomes of n trials: a power of the denominator. *)
LEMMA OutcomesAre ==
  /\ \A n \in Nat : Numbers!Outcomes[n] \in Nat
  /\ Numbers!Outcomes[0] = 1
  /\ \A n \in Nat : Numbers!Outcomes[n + 1] = AlphaD * Numbers!Outcomes[n]
<1> DEFINE Fits(o) == o = [n \in Nat |-> IF n = 0 THEN 1 ELSE AlphaD * o[n - 1]]
<1>0. AlphaD \in Nat
  BY NumbersAssumption DEF Numbers!CalibrateAssumption
<1>1. PICK h \in [Nat -> Nat] : h[0] = 1 /\ \A n \in Nat : h[n + 1] = AlphaD * h[n]
  <2> DEFINE V    == Nat
             step == [x \in V |-> AlphaD * x]
             one  == 1
  <2>1. step \in [V -> V] /\ (\A x \in V : step[x] = AlphaD * x) /\ one \in V
    BY <1>0
  <2> HIDE DEF V, step, one
  <2>2. PICK h \in [Nat -> V] : h[0] = one /\ \A n \in Nat : h[n + 1] = step[h[n]]
    <3>1. one \in V /\ step \in [V -> V]
      BY <2>1
    <3>2. QED
      BY <3>1, StepsExist
  <2>3. \A n \in Nat : h[n + 1] = AlphaD * h[n]
    BY <2>1, <2>2
  <2>4. QED
    BY <2>2, <2>3 DEF V, one
<1>2. Fits(h)
  <2>1. \A n \in Nat : h[n] = IF n = 0 THEN 1 ELSE AlphaD * h[n - 1]
    <3>1. \A n \in Nat : n # 0 => n - 1 \in Nat /\ (n - 1) + 1 = n
      OBVIOUS
    <3>2. QED
      BY <1>1, <3>1
  <2>2. h = [n \in Nat |-> h[n]]
    OBVIOUS
  <2>3. QED
    BY <2>1, <2>2
<1>3. Numbers!Outcomes = CHOOSE o : Fits(o)
  BY DEF Numbers!Outcomes
<1>4. Fits(Numbers!Outcomes)
  BY <1>2, <1>3
<1>5. /\ Numbers!Outcomes[0] = 1
      /\ \A n \in Nat : Numbers!Outcomes[n + 1] = AlphaD * Numbers!Outcomes[n]
  <2>1. \A n \in Nat : Numbers!Outcomes[n] =
                        IF n = 0 THEN 1 ELSE AlphaD * Numbers!Outcomes[n - 1]
    BY <1>4
  <2> HIDE DEF Fits
  <2>2. \A n \in Nat : n + 1 \in Nat /\ n + 1 # 0 /\ (n + 1) - 1 = n
    OBVIOUS
  <2>3. QED
    BY <2>1, <2>2
<1> DEFINE T == {n \in Nat : Numbers!Outcomes[n] \in Nat}
<1>6. 0 \in T /\ \A n \in T : n + 1 \in T
  BY <1>0, <1>5
<1>7. T = Nat
  <2>1. T \subseteq Nat
    OBVIOUS
  <2> HIDE DEF T
  <2>2. QED
    BY <1>6, <2>1, AllNumbersIn
<1>8. QED
  BY <1>5, <1>7

(* The weight of k failures or fewer in one trial more: the last succeeds, or *)
(* it fails and there was one failure fewer.                                  *)
LEMMA TailsAre ==
  /\ \A n, k \in Nat : Numbers!Tail[n][k] \in Nat
  /\ \A k \in Nat : Numbers!Tail[0][k] = 1
  /\ \A n \in Nat : Numbers!Tail[n + 1][0] = (AlphaD - AlphaN) * Numbers!Tail[n][0]
  /\ \A n, k \in Nat : Numbers!Tail[n + 1][k + 1] =
                        (AlphaD - AlphaN) * Numbers!Tail[n][k + 1] + AlphaN * Numbers!Tail[n][k]
<1> DEFINE F == [Nat -> Nat]
           Next2(t) == [k \in Nat |-> (AlphaD - AlphaN) * t[k]
                                      + (IF k = 0 THEN 0 ELSE AlphaN * t[k - 1])]
           Row(t, n) == [k \in Nat |-> IF n = 0 THEN 1
                                       ELSE (AlphaD - AlphaN) * t[n - 1][k]
                                            + (IF k = 0 THEN 0 ELSE AlphaN * t[n - 1][k - 1])]
           Fits(t) == t = [n \in Nat |-> Row(t, n)]
           one == [k \in Nat |-> 1]
<1>0. AlphaD \in Nat /\ AlphaN \in Nat /\ AlphaD - AlphaN \in Nat
  BY NumbersAssumption DEF Numbers!CalibrateAssumption
<1>1. ASSUME NEW t \in F PROVE Next2(t) \in F
  <2>1. \A k \in Nat : (AlphaD - AlphaN) * t[k] \in Nat
    BY <1>0
  <2>2. \A k \in Nat : k # 0 => AlphaN * t[k - 1] \in Nat
    BY <1>0
  <2>3. QED
    BY <2>1, <2>2
<1>2. PICK h \in [Nat -> F] : h[0] = one /\ \A n \in Nat : h[n + 1] = Next2(h[n])
  <2> DEFINE step == [t \in F |-> Next2(t)]
  <2>1. step \in [F -> F] /\ (\A t \in F : step[t] = Next2(t)) /\ one \in F
    BY <1>1
  <2> HIDE DEF step, F, Next2, one
  <2>2. PICK h \in [Nat -> F] : h[0] = one /\ \A n \in Nat : h[n + 1] = step[h[n]]
    <3>1. one \in F /\ step \in [F -> F]
      BY <2>1
    <3>2. QED
      BY <3>1, StepsExist
  <2>3. QED
    BY <2>1, <2>2
<1>3. Fits(h)
  <2>1. ASSUME NEW n \in Nat PROVE h[n] = Row(h, n)
    <3>1. CASE n = 0
      <4>1. Row(h, n) = one
        BY <3>1
      <4>2. QED
        BY <1>2, <3>1, <4>1
    <3>2. CASE n # 0
      <4>1. n - 1 \in Nat /\ (n - 1) + 1 = n
        BY <3>2
      <4>2. Row(h, n) = Next2(h[n - 1])
        BY <3>2
      <4> HIDE DEF Next2, Row
      <4>3. h[(n - 1) + 1] = Next2(h[n - 1])
        BY <1>2, <4>1
      <4>4. QED
        BY <4>1, <4>2, <4>3
    <3>3. QED
      BY <3>1, <3>2
  <2> HIDE DEF Row
  <2>2. h = [n \in Nat |-> h[n]]
    OBVIOUS
  <2>3. QED
    BY <2>1, <2>2
<1>4. Numbers!Tail = CHOOSE t : Fits(t)
  BY DEF Numbers!Tail
<1>5. Fits(Numbers!Tail)
  BY <1>3, <1>4
<1>6. \A n \in Nat : Numbers!Tail[n] = Row(Numbers!Tail, n)
  <2> HIDE DEF Row
  <2>1. QED
    BY <1>5
<1>7. \A n, k \in Nat : Numbers!Tail[n][k] =
        IF n = 0 THEN 1 ELSE (AlphaD - AlphaN) * Numbers!Tail[n - 1][k]
                             + (IF k = 0 THEN 0 ELSE AlphaN * Numbers!Tail[n - 1][k - 1])
  BY <1>6
<1>8. \A n \in Nat : n + 1 \in Nat /\ n + 1 # 0 /\ (n + 1) - 1 = n
  OBVIOUS
<1>9. /\ \A k \in Nat : Numbers!Tail[0][k] = 1
      /\ \A n, k \in Nat : Numbers!Tail[n + 1][k] =
           (AlphaD - AlphaN) * Numbers!Tail[n][k]
           + (IF k = 0 THEN 0 ELSE AlphaN * Numbers!Tail[n][k - 1])
  <2>1. \A k \in Nat : Numbers!Tail[0][k] = 1
    BY <1>7
  <2>2. ASSUME NEW n \in Nat, NEW k \in Nat
        PROVE  Numbers!Tail[n + 1][k] =
                 (AlphaD - AlphaN) * Numbers!Tail[n][k]
                 + (IF k = 0 THEN 0 ELSE AlphaN * Numbers!Tail[n][k - 1])
    <3> DEFINE m == n + 1
    <3>1. m \in Nat /\ m # 0 /\ m - 1 = n
      OBVIOUS
    <3> HIDE DEF m
    <3>2. Numbers!Tail[m][k] =
            IF m = 0 THEN 1 ELSE (AlphaD - AlphaN) * Numbers!Tail[m - 1][k]
                             + (IF k = 0 THEN 0 ELSE AlphaN * Numbers!Tail[m - 1][k - 1])
      BY <1>7, <3>1
    <3>3. Numbers!Tail[m][k] =
            (AlphaD - AlphaN) * Numbers!Tail[n][k]
            + (IF k = 0 THEN 0 ELSE AlphaN * Numbers!Tail[n][k - 1])
      BY <3>1, <3>2
    <3>4. QED
      BY <3>3 DEF m
  <2>3. QED
    BY <2>1, <2>2
<1> HIDE DEF F, Next2, Row, Fits, one
<1> DEFINE Natural(n) == \A k \in Nat : Numbers!Tail[n][k] \in Nat
           T          == {n \in Nat : Natural(n)}
<1>10. ASSUME NEW n \in Nat, Natural(n) PROVE Natural(n + 1)
  <2>1. ASSUME NEW k \in Nat PROVE Numbers!Tail[n + 1][k] \in Nat
    <3>1. Numbers!Tail[n][k] \in Nat /\ (k # 0 => Numbers!Tail[n][k - 1] \in Nat)
      BY <1>10
    <3>2. (AlphaD - AlphaN) * Numbers!Tail[n][k] \in Nat
      BY <1>0, <3>1
    <3>3. k # 0 => AlphaN * Numbers!Tail[n][k - 1] \in Nat
      BY <1>0, <3>1
    <3>4. Numbers!Tail[n + 1][k] = (AlphaD - AlphaN) * Numbers!Tail[n][k]
            + (IF k = 0 THEN 0 ELSE AlphaN * Numbers!Tail[n][k - 1])
      BY <1>9
    <3>5. QED
      BY <3>2, <3>3, <3>4
  <2>2. QED
    BY <2>1
<1>11. T = Nat
  <2>1. Natural(0)
    BY <1>9
  <2> HIDE DEF Natural
  <2>2. T \subseteq Nat /\ 0 \in T
    BY <2>1
  <2>3. \A n \in T : n + 1 \in T
    BY <1>10
  <2> HIDE DEF T
  <2>4. QED
    BY <2>2, <2>3, AllNumbersIn
<1>12. \A n, k \in Nat : Numbers!Tail[n][k] \in Nat
  <2>1. \A n \in Nat : n \in T
    BY <1>11
  <2>2. \A n \in Nat : Natural(n)
    BY <2>1
  <2>3. QED
    BY <2>2
<1>13. ASSUME NEW n \in Nat
       PROVE  Numbers!Tail[n + 1][0] = (AlphaD - AlphaN) * Numbers!Tail[n][0]
  <2>1. (AlphaD - AlphaN) * Numbers!Tail[n][0] \in Nat
    BY <1>0, <1>12
  <2>2. Numbers!Tail[n + 1][0] = (AlphaD - AlphaN) * Numbers!Tail[n][0] + 0
    BY <1>9
  <2>3. QED
    BY <2>1, <2>2
<1>14. ASSUME NEW n \in Nat, NEW k \in Nat
       PROVE  Numbers!Tail[n + 1][k + 1] =
                (AlphaD - AlphaN) * Numbers!Tail[n][k + 1] + AlphaN * Numbers!Tail[n][k]
  BY <1>8, <1>9
<1>15. QED
  BY <1>9, <1>12, <1>13, <1>14

(* Two weights share what they weigh: all of both on the smaller is no more. *)
LEMMA Weighted ==
  ASSUME NEW q \in Nat, NEW a \in Nat, NEW x \in Nat, NEW y \in Nat, x <= y
  PROVE  /\ (q + a) * x \in Nat /\ (q + a) * y \in Nat
         /\ q * y + a * x \in Nat
         /\ (q + a) * x <= q * y + a * x /\ q * y + a * x <= (q + a) * y
<1>1. q * x <= q * y /\ a * x <= a * y
  BY TimesMonotone
<1>2. (q + a) * x = q * x + a * x /\ (q + a) * y = q * y + a * y
  OBVIOUS
<1>3. q * x \in Nat /\ a * x \in Nat /\ q * y \in Nat /\ a * y \in Nat
  OBVIOUS
<1>4. QED
  BY <1>1, <1>2, <1>3

(* More failures are allowed: more outcomes have no more than that. *)
LEMMA TailGrows == \A n, k \in Nat : Numbers!Tail[n][k] <= Numbers!Tail[n][k + 1]
<1> DEFINE Grows(n) == \A k \in Nat : Numbers!Tail[n][k] <= Numbers!Tail[n][k + 1]
           T        == {n \in Nat : Grows(n)}
           q        == AlphaD - AlphaN
<1>0. q \in Nat /\ AlphaN \in Nat
  BY NumbersAssumption DEF Numbers!CalibrateAssumption
<1>1. Grows(0)
  BY TailsAre
<1>2. ASSUME NEW n \in Nat, Grows(n) PROVE Grows(n + 1)
  <2>1. SUFFICES ASSUME NEW k \in Nat
                 PROVE  Numbers!Tail[n + 1][k] <= Numbers!Tail[n + 1][k + 1]
    OBVIOUS
  <2> DEFINE x == Numbers!Tail[n][k]
             y == Numbers!Tail[n][k + 1]
  <2>2. x \in Nat /\ y \in Nat /\ x <= y
    BY <1>2, TailsAre
  <2>3. Numbers!Tail[n + 1][k + 1] = q * y + AlphaN * x
    BY TailsAre
  <2>4. q * x <= q * y /\ q * x \in Nat /\ q * y \in Nat /\ AlphaN * x \in Nat
    <3> HIDE DEF q, x, y
    <3>1. QED
      BY <1>0, <2>2, TimesMonotone
  <2>5. CASE k = 0
    <3>1. Numbers!Tail[n + 1][k] = q * x
      BY <2>5, TailsAre
    <3> HIDE DEF q, x, y
    <3>2. QED
      BY <2>3, <2>4, <3>1
  <2>6. CASE k # 0
    <3> DEFINE w == Numbers!Tail[n][k - 1]
    <3>1. PICK j \in Nat : j + 1 = k
      <4>1. k - 1 \in Nat /\ (k - 1) + 1 = k
        BY <2>6
      <4>2. QED
        BY <4>1
    <3>2. w = Numbers!Tail[n][j]
      BY <3>1
    <3>3. w \in Nat /\ w <= x
      BY <1>2, <3>1, <3>2, TailsAre
    <3>4. Numbers!Tail[n + 1][k] = q * x + AlphaN * w
      <4>1. Numbers!Tail[n + 1][j + 1] = q * Numbers!Tail[n][j + 1] + AlphaN * Numbers!Tail[n][j]
        BY <3>1, TailsAre
      <4>2. QED
        BY <3>1, <3>2, <4>1
    <3> HIDE DEF q, x, y, w
    <3>5. AlphaN * w <= AlphaN * x /\ AlphaN * w \in Nat
      BY <1>0, <2>2, <3>3, TimesMonotone
    <3>6. QED
      BY <2>3, <2>4, <3>4, <3>5
  <2>7. QED
    BY <2>5, <2>6
<1>3. T = Nat
  <2> HIDE DEF Grows
  <2>1. T \subseteq Nat /\ 0 \in T /\ \A n \in T : n + 1 \in T
    BY <1>1, <1>2
  <2> HIDE DEF T
  <2>2. QED
    BY <2>1, AllNumbersIn
<1>4. \A n \in Nat : Grows(n)
  <2>1. \A n \in Nat : n \in T
    BY <1>3
  <2> HIDE DEF Grows
  <2>2. QED
    BY <2>1
<1>5. QED
  BY <1>4

(* A success more does not break the bound. *)
LEMMA SuccessHelps ==
  ASSUME NEW k \in Nat, NEW n \in Nat, Numbers!BoundedByAlpha(k, n)
  PROVE  Numbers!BoundedByAlpha(k, n + 1)
<1> DEFINE x == Numbers!Tail[n][k]
           z == Numbers!Tail[n + 1][k]
           o == Numbers!Outcomes[n]
           q == AlphaD - AlphaN
<1>0. q \in Nat /\ AlphaN \in Nat /\ AlphaD = q + AlphaN /\ DeltaD \in Nat
  BY NumbersAssumption DEF Numbers!CalibrateAssumption
<1>1. x \in Nat /\ z \in Nat /\ o \in Nat /\ n + 1 \in Nat
  BY TailsAre, OutcomesAre
<1>2. x * DeltaD <= o /\ n > 0 /\ k < n
  BY DEF Numbers!BoundedByAlpha
<1>3. z <= (q + AlphaN) * x
  <2>1. CASE k = 0
    <3>1. z = q * x
      BY <2>1, TailsAre
    <3> HIDE DEF q, x, z
    <3>2. (q + AlphaN) * x = q * x + AlphaN * x /\ AlphaN * x \in Nat /\ q * x \in Nat
      BY <1>0, <1>1
    <3>3. QED
      BY <3>1, <3>2
  <2>2. CASE k # 0
    <3>1. PICK j \in Nat : j + 1 = k
      <4>1. k - 1 \in Nat /\ (k - 1) + 1 = k
        BY <2>2
      <4>2. QED
        BY <4>1
    <3> DEFINE w == Numbers!Tail[n][j]
    <3>2. w \in Nat /\ w <= x
      BY <3>1, TailGrows, TailsAre
    <3>3. z = q * x + AlphaN * w
      <4>1. Numbers!Tail[n + 1][j + 1] = q * Numbers!Tail[n][j + 1] + AlphaN * Numbers!Tail[n][j]
        BY <3>1, TailsAre
      <4>2. QED
        BY <3>1, <4>1
    <3> HIDE DEF q, x, z, w
    <3>4. q * x + AlphaN * w <= (q + AlphaN) * x
      BY <1>0, <1>1, <3>2, Weighted
    <3>5. QED
      BY <3>3, <3>4
  <2>3. QED
    BY <2>1, <2>2
<1>4. z * DeltaD <= AlphaD * o
  <2> HIDE DEF q, x, z, o
  <2>1. z <= AlphaD * x /\ AlphaD * x \in Nat /\ AlphaD \in Nat
    BY <1>0, <1>1, <1>3
  <2>2. z * DeltaD <= (AlphaD * x) * DeltaD
    BY <1>0, <1>1, <2>1, TimesMonotone
  <2>3. (AlphaD * x) * DeltaD = AlphaD * (x * DeltaD) /\ x * DeltaD \in Nat
    BY <1>0, <1>1, <2>1
  <2>4. AlphaD * (x * DeltaD) <= AlphaD * o
    BY <1>1, <1>2, <2>1, <2>3, TimesMonotone
  <2>5. z * DeltaD \in Nat /\ AlphaD * o \in Nat /\ AlphaD * (x * DeltaD) \in Nat
    BY <1>0, <1>1, <2>1, <2>3
  <2>6. QED
    BY <2>2, <2>3, <2>4, <2>5
<1>5. Numbers!Outcomes[n + 1] = AlphaD * o
  BY OutcomesAre
<1>6. QED
  <2>1. n + 1 > 0 /\ k < n + 1
    BY <1>2
  <2>2. QED
    BY <1>4, <1>5, <2>1 DEF Numbers!BoundedByAlpha

(* A failure more does not mend it. *)
LEMMA FailureHurts ==
  ASSUME NEW k \in Nat, NEW n \in Nat, Numbers!BoundedByAlpha(k + 1, n + 1)
  PROVE  Numbers!BoundedByAlpha(k, n)
<1> DEFINE x == Numbers!Tail[n][k]
           y == Numbers!Tail[n][k + 1]
           z == Numbers!Tail[n + 1][k + 1]
           o == Numbers!Outcomes[n]
           q == AlphaD - AlphaN
<1>0. q \in Nat /\ AlphaN \in Nat /\ AlphaD = q + AlphaN /\ AlphaD \in Nat \ {0} /\ DeltaD \in Nat
  BY NumbersAssumption DEF Numbers!CalibrateAssumption
<1>1. x \in Nat /\ y \in Nat /\ z \in Nat /\ o \in Nat /\ x <= y
  BY TailsAre, OutcomesAre, TailGrows
<1>2. z * DeltaD <= AlphaD * o /\ k + 1 < n + 1
  BY OutcomesAre DEF Numbers!BoundedByAlpha
<1>3. AlphaD * x <= z
  <2>1. z = q * y + AlphaN * x
    BY TailsAre
  <2> HIDE DEF q, x, y, z
  <2>2. QED
    BY <1>0, <1>1, <2>1, Weighted
<1>4. x * DeltaD <= o
  <2> HIDE DEF q, x, y, z, o
  <2>1. AlphaD * x \in Nat /\ x * DeltaD \in Nat
    BY <1>0, <1>1
  <2>2. (AlphaD * x) * DeltaD <= z * DeltaD
    BY <1>0, <1>1, <1>3, <2>1, TimesMonotone
  <2>3. (AlphaD * x) * DeltaD = AlphaD * (x * DeltaD)
    BY <1>0, <1>1
  <2>4. AlphaD * (x * DeltaD) \in Nat /\ z * DeltaD \in Nat /\ AlphaD * o \in Nat
    BY <1>0, <1>1, <2>1
  <2>5. AlphaD * (x * DeltaD) <= AlphaD * o
    BY <1>2, <2>2, <2>3, <2>4
  <2>6. QED
    BY <1>0, <1>1, <2>1, <2>5, TimesCancels
<1>5. k < n /\ n > 0
  BY <1>2
<1>6. QED
  BY <1>4, <1>5 DEF Numbers!BoundedByAlpha

RowBags == [Numbers!All -> Nat]

(* The kinds of rows are finitely many. *)
LEMMA KindsAreFinite ==
  /\ IsFiniteSet(Numbers!All)
  /\ \A P \in SUBSET Probs, Y \in SUBSET Numbers!Label :
       P \X Y \in SUBSET Numbers!All /\ IsFiniteSet(P \X Y)
<1>1. IsFiniteSet(Probs)
  BY NumbersAssumption DEF Numbers!CalibrateAssumption, Numbers!IsFiniteSet, IsFiniteSet
<1>2. IsFiniteSet(Numbers!Label)
  <2>1. Numbers!Label = 0 .. 1
    BY DEF Numbers!Label
  <2>2. IsFiniteSet(0 .. 1)
    <3>1. 0 \in Int /\ 1 \in Int
      OBVIOUS
    <3>2. QED
      BY <3>1, FS_Interval, Zenon
  <2>3. QED
    BY <2>1, <2>2
<1>3. IsFiniteSet(Numbers!All)
  BY <1>1, <1>2, FS_Product DEF Numbers!All
<1>4. ASSUME NEW P \in SUBSET Probs, NEW Y \in SUBSET Numbers!Label
      PROVE  P \X Y \in SUBSET Numbers!All
  <2>1. \A r \in P \X Y : r \in Probs \X Numbers!Label
    OBVIOUS
  <2>2. QED
    BY <2>1 DEF Numbers!All
<1>5. QED
  BY <1>3, <1>4, FS_Subset

(* How many rows of some kinds there are: a number, and more for more kinds. *)
LEMMA CountIs ==
  ASSUME NEW b \in RowBags, NEW S \in SUBSET Numbers!All, NEW R \in SUBSET S
  PROVE  /\ Numbers!Count(b, S) \in Nat /\ Numbers!Count(b, R) \in Nat
         /\ Numbers!Count(b, R) <= Numbers!Count(b, S)
<1>1. IsFiniteSet(S)
  BY KindsAreFinite, FS_Subset
<1>2. \A r \in S : b[r] \in Nat
  BY DEF RowBags
<1>3. Sum(b, S) \in Nat /\ Sum(b, R) \in Nat /\ Sum(b, R) <= Sum(b, S)
  BY <1>1, <1>2, SumOfPart
<1>4. QED
  BY <1>3 DEF Sum, Numbers!Count

(* One row more counts once, among the kinds that include its own. *)
LEMMA CountAdds ==
  ASSUME NEW b \in RowBags, NEW r \in Numbers!All, NEW S \in SUBSET Numbers!All
  PROVE  /\ [b EXCEPT ![r] = @ + 1] \in RowBags
         /\ Numbers!Count([b EXCEPT ![r] = @ + 1], S) =
              Numbers!Count(b, S) + (IF r \in S THEN 1 ELSE 0)
<1> DEFINE c == [b EXCEPT ![r] = @ + 1]
<1>1. IsFiniteSet(S)
  BY KindsAreFinite, FS_Subset
<1>2. c \in RowBags /\ \A x \in Numbers!All : c[x] = IF x = r THEN b[r] + 1 ELSE b[x]
  BY DEF RowBags
<1>3. \A x \in S : b[x] \in Int /\ c[x] \in Int
  BY <1>2 DEF RowBags
<1> HIDE DEF c
<1>4. Sum(c, S) = Sum(b, S) + (IF r \in S THEN 1 ELSE 0)
  <2>1. CASE r \in S
    <3>1. Sum(b, S) = b[r] + Sum(b, S \ {r}) /\ Sum(c, S) = c[r] + Sum(c, S \ {r})
      BY <1>1, <1>3, <2>1, SumTakes
    <3>2. IsFiniteSet(S \ {r})
      BY <1>1, FS_Subset
    <3>3. \A x \in S \ {r} : b[x] \in Int /\ c[x] = b[x]
      BY <1>2, <1>3
    <3>4. Sum(c, S \ {r}) = Sum(b, S \ {r}) /\ Sum(b, S \ {r}) \in Int
      BY <3>2, <3>3, SumSame, SumIs
    <3>5. c[r] = b[r] + 1 /\ b[r] \in Int
      BY <1>2, <1>3, <2>1
    <3>6. QED
      BY <2>1, <3>1, <3>4, <3>5
  <2>2. CASE r \notin S
    <3>1. \A x \in S : b[x] \in Int /\ c[x] = b[x]
      BY <1>2, <1>3, <2>2
    <3>2. Sum(c, S) = Sum(b, S) /\ Sum(b, S) \in Int
      BY <1>1, <3>1, SumSame, SumIs
    <3>3. QED
      BY <2>2, <3>2
  <2>3. QED
    BY <2>1, <2>2
<1>5. QED
  BY <1>2, <1>4 DEF Sum, Numbers!Count, c

(***************************************************************************)
(* The rows, and what is concluded from them.                              *)
(***************************************************************************)
NumbersInv ==
  /\ rows \in RowBags /\ Numbers!Total(rows) <= MaxRows
  /\ threshold = Numbers!fit_conformal_threshold(rows)
  /\ action = Numbers!Action(rows)
  /\ level = Numbers!Level(rows)

(* Initially there are no rows, and nothing is concluded. *)
LEMMA NumbersInvInit == Numbers!Init => NumbersInv
<1> SUFFICES ASSUME Numbers!Init PROVE NumbersInv
  OBVIOUS
<1>1. rows \in RowBags
  BY DEF Numbers!Init, RowBags
<1>2. Numbers!Total(rows) = 0
  <2> DEFINE zero == [r \in {} |-> 0]
  <2>1. ASSUME NEW S \in SUBSET Numbers!All, IsFiniteSet(S) PROVE Sum(rows, S) = 0
    <3> DEFINE T == {s \in SUBSET S : Sum(rows, s) = 0}
    <3>1. IsFiniteSet({})
      BY FS_EmptySet
    <3>2. {} \in T
      <4>1. Sum(rows, {}) = 0
        BY <3>1, SumIs
      <4>2. QED
        BY <4>1
    <3>3. ASSUME NEW s \in SUBSET S, s \in T, NEW x \in S \ s PROVE s \cup {x} \in T
      <4>1. IsFiniteSet(s) /\ x \notin s /\ \A y \in s \cup {x} : rows[y] = 0 /\ rows[y] \in Int
        BY <2>1, <3>3, FS_Subset DEF Numbers!Init
      <4>2. Sum(rows, s \cup {x}) = rows[x] + Sum(rows, s)
        BY <4>1, SumAdds
      <4>3. QED
        BY <3>3, <4>1, <4>2
    <3>4. S \in T
      <4> HIDE DEF T
      <4>1. QED
        BY <2>1, <3>2, <3>3, AllSetsIn
    <3>5. QED
      BY <3>4
  <2>2. QED
    BY <2>1, KindsAreFinite DEF Numbers!Total, Numbers!Count, Sum
<1>3. MinRows \in Nat \ {0} /\ MinN \in Nat \ {0} /\ MaxRows \in Nat
  BY NumbersAssumption DEF Numbers!CalibrateAssumption
<1>4. threshold = Numbers!fit_conformal_threshold(rows)
  BY <1>2, <1>3 DEF Numbers!Init, Numbers!fit_conformal_threshold
<1>5. action = Numbers!Action(rows)
  BY <1>2, <1>3 DEF Numbers!Init, Numbers!Action
<1>6. level = Numbers!Level(rows)
  BY <1>2, <1>3 DEF Numbers!Init, Numbers!Level
<1>7. QED
  BY <1>1, <1>2, <1>3, <1>4, <1>5, <1>6 DEF NumbersInv

(* A row more: they are concluded anew. *)
LEMMA NumbersInvStep == NumbersInv /\ [Numbers!Next]_number_vars => NumbersInv'
<1> SUFFICES ASSUME NumbersInv, [Numbers!Next]_number_vars PROVE NumbersInv'
  OBVIOUS
<1>1. CASE UNCHANGED number_vars
  BY <1>1 DEF NumbersInv, number_vars
<1>2. ASSUME NEW p \in Probs, NEW y \in Numbers!Label, Numbers!AddRow(p, y) PROVE NumbersInv'
  <2>1. rows' = [rows EXCEPT ![<<p, y>>] = @ + 1] /\ Numbers!Total(rows) < MaxRows
    BY <1>2 DEF Numbers!AddRow, Numbers!Computed
  <2>2. <<p, y>> \in Numbers!All /\ Numbers!All \in SUBSET Numbers!All
    BY DEF Numbers!All
  <2>3. rows \in RowBags
    BY DEF NumbersInv
  <2>4. rows' \in RowBags /\ Numbers!Total(rows') = Numbers!Total(rows) + 1
    BY <2>1, <2>2, <2>3, CountAdds DEF Numbers!Total
  <2>5. Numbers!Total(rows) \in Nat /\ MaxRows \in Nat
    BY <2>2, <2>3, CountIs, NumbersAssumption DEF Numbers!Total, Numbers!CalibrateAssumption
  <2>6. Numbers!Total(rows') <= MaxRows
    BY <2>1, <2>4, <2>5
  <2>7. /\ threshold' = Numbers!fit_conformal_threshold(rows')
        /\ action' = Numbers!Action(rows') /\ level' = Numbers!Level(rows')
    BY <1>2, <2>1 DEF Numbers!AddRow, Numbers!Computed
  <2>8. QED
    BY <2>4, <2>6, <2>7 DEF NumbersInv
<1>3. QED
  BY <1>1, <1>2 DEF Numbers!Next

(* Probabilities and thresholds are numbers. *)
LEMMA Numbered ==
  /\ \A p \in Probs : p \in Nat /\ p <= One /\ p # Numbers!None /\ p < Numbers!Never
  /\ One \in Nat \ {0} /\ NBins \in Nat \ {0} /\ Numbers!Never # Numbers!None
  /\ Numbers!Never \in Nat /\ Numbers!Never \notin Probs
  /\ MinRows \in Nat \ {0} /\ MinSupport \in Nat /\ MaxRows \in Nat
BY NumbersAssumption DEF Numbers!CalibrateAssumption, Numbers!None, Numbers!Never

(* What is executed at a threshold, and what of it failed. *)
LEMMA Tried ==
  ASSUME NEW b \in RowBags, NEW t \in Probs
  PROVE  /\ Numbers!Failures(b, t) \in Nat /\ Numbers!Executed(b, t) \in Nat
         /\ Numbers!Failures(b, t) <= Numbers!Executed(b, t)
         /\ Numbers!Executed(b, t) <= Numbers!Total(b)
<1> DEFINE P == Numbers!AtOrAbove(t)
<1>1. P \in SUBSET Probs
  BY DEF Numbers!AtOrAbove
<1>2. {0} \in SUBSET Numbers!Label /\ Numbers!Label \in SUBSET Numbers!Label
  BY DEF Numbers!Label
<1> HIDE DEF P
<1>3. P \X {0} \in SUBSET (P \X Numbers!Label)
  BY <1>2
<1>4. P \X Numbers!Label \in SUBSET Numbers!All /\ Numbers!All \in SUBSET Numbers!All
  BY <1>1, <1>2, KindsAreFinite
<1>5. /\ Numbers!Count(b, P \X {0}) \in Nat /\ Numbers!Count(b, P \X Numbers!Label) \in Nat
      /\ Numbers!Count(b, P \X {0}) <= Numbers!Count(b, P \X Numbers!Label)
      /\ Numbers!Count(b, P \X Numbers!Label) <= Numbers!Count(b, Numbers!All)
  BY <1>3, <1>4, CountIs
<1>6. QED
  BY <1>5 DEF P, Numbers!Failures, Numbers!Executed, Numbers!Total

(* What one more row changes of it. *)
LEMMA TriedAdds ==
  ASSUME NEW b \in RowBags, NEW t \in Probs, NEW p \in Probs, NEW y \in Numbers!Label
  PROVE  LET c == [b EXCEPT ![<<p, y>>] = @ + 1]
         IN  /\ Numbers!Failures(c, t) = Numbers!Failures(b, t) + (IF p >= t /\ y = 0 THEN 1 ELSE 0)
             /\ Numbers!Executed(c, t) = Numbers!Executed(b, t) + (IF p >= t THEN 1 ELSE 0)
<1> DEFINE P == Numbers!AtOrAbove(t)
           c == [b EXCEPT ![<<p, y>>] = @ + 1]
<1>1. P \in SUBSET Probs /\ (p \in P <=> p >= t)
  BY DEF Numbers!AtOrAbove
<1>2. {0} \in SUBSET Numbers!Label /\ Numbers!Label \in SUBSET Numbers!Label
  BY DEF Numbers!Label
<1>3. <<p, y>> \in Numbers!All
  BY DEF Numbers!All
<1> HIDE DEF P
<1>4. P \X Numbers!Label \in SUBSET Numbers!All /\ P \X {0} \in SUBSET Numbers!All
  BY <1>1, <1>2, KindsAreFinite
<1>5. /\ Numbers!Count(c, P \X {0}) =
           Numbers!Count(b, P \X {0}) + (IF <<p, y>> \in P \X {0} THEN 1 ELSE 0)
      /\ Numbers!Count(c, P \X Numbers!Label) =
           Numbers!Count(b, P \X Numbers!Label) + (IF <<p, y>> \in P \X Numbers!Label THEN 1 ELSE 0)
  BY <1>3, <1>4, CountAdds
<1>6. (<<p, y>> \in P \X {0} <=> p >= t /\ y = 0) /\ (<<p, y>> \in P \X Numbers!Label <=> p >= t)
  BY <1>1
<1> HIDE DEF c
<1>7. /\ Numbers!Failures(c, t) = Numbers!Failures(b, t) + (IF p >= t /\ y = 0 THEN 1 ELSE 0)
      /\ Numbers!Executed(c, t) = Numbers!Executed(b, t) + (IF p >= t THEN 1 ELSE 0)
  BY <1>5, <1>6 DEF Numbers!Failures, Numbers!Executed, P
<1>8. QED
  BY <1>7 DEF c

(* A probability that was seen is seen from then on, and a row shows its own. *)
LEMMA SeenAdds ==
  ASSUME NEW b \in RowBags, NEW p \in Probs, NEW y \in Numbers!Label
  PROVE  LET c == [b EXCEPT ![<<p, y>>] = @ + 1]
         IN  /\ Numbers!Seen(b) \in SUBSET Numbers!Seen(c)
             /\ Numbers!Seen(c) \in SUBSET (Numbers!Seen(b) \cup {p})
<1> DEFINE c == [b EXCEPT ![<<p, y>>] = @ + 1]
           K(t) == {t} \X Numbers!Label
<1>1. <<p, y>> \in Numbers!All
  BY DEF Numbers!All
<1>2. ASSUME NEW t \in Probs
      PROVE  /\ Numbers!Count(b, K(t)) \in Nat
             /\ Numbers!Count(c, K(t)) = Numbers!Count(b, K(t)) + (IF t = p THEN 1 ELSE 0)
  <2>1. K(t) \in SUBSET Numbers!All
    <3>1. {t} \in SUBSET Probs /\ Numbers!Label \in SUBSET Numbers!Label
      OBVIOUS
    <3>2. QED
      BY <3>1, KindsAreFinite
  <2>2. <<p, y>> \in K(t) <=> t = p
    OBVIOUS
  <2> HIDE DEF K
  <2>3. Numbers!Count(b, K(t)) \in Nat
    BY <2>1, CountIs
  <2>4. Numbers!Count(c, K(t)) = Numbers!Count(b, K(t)) + (IF <<p, y>> \in K(t) THEN 1 ELSE 0)
    BY <1>1, <2>1, CountAdds
  <2>5. QED
    BY <2>2, <2>3, <2>4
<1> HIDE DEF c
<1>3. /\ Numbers!Seen(b) \in SUBSET Numbers!Seen(c)
      /\ Numbers!Seen(c) \in SUBSET (Numbers!Seen(b) \cup {p})
  <2>1. /\ Numbers!Seen(b) = {t \in Probs : Numbers!Count(b, K(t)) > 0}
        /\ Numbers!Seen(c) = {t \in Probs : Numbers!Count(c, K(t)) > 0}
    BY DEF Numbers!Seen
  <2> HIDE DEF K
  <2>2. \A t \in Probs : Numbers!Count(b, K(t)) > 0 => Numbers!Count(c, K(t)) > 0
    BY <1>2
  <2>3. \A t \in Probs : Numbers!Count(c, K(t)) > 0 => t = p \/ Numbers!Count(b, K(t)) > 0
    BY <1>2
  <2>4. QED
    BY <2>1, <2>2, <2>3
<1>4. QED
  BY <1>3 DEF c

(* The threshold that is fitted: where there is enough data, the least one    *)
(* that is valid, and CONFORMAL_NEVER where none is.                          *)
LEMMA FittedIs ==
  ASSUME NEW b \in RowBags
  PROVE  LET t == Numbers!fit_conformal_threshold(b)
         IN  /\ t \in Probs \cup {Numbers!Never, Numbers!None}
             /\ t = Numbers!None <=> Numbers!Total(b) < MinRows \/ ~Numbers!BothLabels(b)
             /\ t \in Probs => t \in Numbers!Seen(b) /\ Numbers!Valid(b, t)
             /\ t # Numbers!None => \A s \in Numbers!Seen(b) : Numbers!Valid(b, s) => t <= s
<1> DEFINE t == Numbers!fit_conformal_threshold(b)
           enough == ~(Numbers!Total(b) < MinRows \/ ~Numbers!BothLabels(b))
           V == {s \in Numbers!Seen(b) : Numbers!Valid(b, s)}
<1>1. V \subseteq Probs /\ V \subseteq Nat
  BY Numbered DEF Numbers!Seen
<1>2. Numbers!FirstValid(b) = {s \in V : \A r \in V : s <= r}
  BY DEF Numbers!FirstValid
<1>3. CASE ~enough
  <2>1. t = Numbers!None
    BY <1>3 DEF Numbers!fit_conformal_threshold
  <2>2. Numbers!None \notin Probs
    BY Numbered
  <2> HIDE DEF t, enough
  <2>3. QED
    BY <1>3, <2>1, <2>2 DEF t, enough
<1>4. CASE enough /\ V = {}
  <2>1. t = Numbers!Never
    BY <1>2, <1>4 DEF Numbers!fit_conformal_threshold
  <2>2. Numbers!Never \notin Probs /\ Numbers!Never # Numbers!None
    BY Numbered
  <2>3. \A s \in Numbers!Seen(b) : ~Numbers!Valid(b, s)
    BY <1>4
  <2> HIDE DEF t, V
  <2>4. QED
    BY <1>4, <2>1, <2>2, <2>3 DEF t
<1>5. CASE enough /\ V # {}
  <2>1. Numbers!FirstValid(b) # {}
    <3> HIDE DEF V
    <3>1. \E x \in V : \A r \in V : x <= r
      BY <1>1, <1>5, LeastOf
    <3>2. QED
      BY <1>2, <3>1
  <2>2. t \in Numbers!FirstValid(b)
    <3>1. t = CHOOSE s \in Numbers!FirstValid(b) : TRUE
      BY <1>5, <2>1 DEF Numbers!fit_conformal_threshold
    <3> HIDE DEF t
    <3>2. QED
      BY <2>1, <3>1
  <2>3. t \in V /\ \A r \in V : t <= r
    <3> HIDE DEF t, V
    <3>1. QED
      BY <1>2, <2>2
  <2>4. t \in Probs /\ t # Numbers!None
    BY <1>1, <2>3, Numbered
  <2>5. t \in Numbers!Seen(b) /\ Numbers!Valid(b, t)
    BY <2>3
  <2>6. \A s \in Numbers!Seen(b) : Numbers!Valid(b, s) => t <= s
    BY <2>3
  <2> HIDE DEF t, V
  <2>7. QED
    BY <1>5, <2>4, <2>5, <2>6 DEF t
<1>6. QED
  BY <1>3, <1>4, <1>5

(* The threshold keeps its promise, and no lower one would. *)
LEMMA ThresholdHolds == NumbersInv => Numbers!ThresholdIsRight
<1> SUFFICES ASSUME NumbersInv PROVE Numbers!ThresholdIsRight
  OBVIOUS
<1>1. /\ rows \in RowBags /\ Numbers!Total(rows) <= MaxRows
      /\ threshold = Numbers!fit_conformal_threshold(rows)
  BY DEF NumbersInv
<1>2. /\ threshold \in Probs => threshold \in Numbers!Seen(rows) /\ Numbers!Valid(rows, threshold)
      /\ threshold # Numbers!None =>
           \A s \in Numbers!Seen(rows) : Numbers!Valid(rows, s) => threshold <= s
  BY <1>1, FittedIs
<1>3. Numbers!ThresholdKeepsItsPromise
  <2>1. SUFFICES ASSUME threshold \in Probs
                 PROVE  /\ Numbers!Executed(rows, threshold) >= MinSupport
                        /\ Numbers!Failures(rows, threshold) * AlphaD
                             <= AlphaN * Numbers!Executed(rows, threshold)
                        /\ Numbers!Tail[Numbers!Executed(rows, threshold)]
                                       [Numbers!Failures(rows, threshold)] * DeltaD
                             <= Numbers!Outcomes[Numbers!Executed(rows, threshold)]
    BY DEF Numbers!ThresholdKeepsItsPromise, Numbers!Failures, Numbers!AtOrAbove
  <2> DEFINE k == Numbers!Failures(rows, threshold)
             n == Numbers!Executed(rows, threshold)
  <2>2. n >= MinSupport /\ Numbers!BoundedByAlpha(k, n)
    BY <1>2, <2>1 DEF Numbers!Valid
  <2>3. k \in 0 .. n /\ n \in 0 .. MaxRows
    <3>1. k \in Nat /\ n \in Nat /\ k <= n /\ n <= Numbers!Total(rows)
      BY <1>1, <2>1, Tried
    <3>2. Numbers!Total(rows) \in Nat /\ MaxRows \in Nat
      <4>1. Numbers!All \in SUBSET Numbers!All
        OBVIOUS
      <4>2. QED
        BY <1>1, <4>1, CountIs, Numbered DEF Numbers!Total
    <3> HIDE DEF k, n
    <3>3. QED
      BY <1>1, <3>1, <3>2
  <2>4. k * AlphaD <= AlphaN * n
    <3> HIDE DEF k, n
    <3>1. QED
      BY <2>2, <2>3, NumbersAssumption DEF Numbers!BoundAssumption
  <2>5. QED
    BY <2>2, <2>4 DEF Numbers!BoundedByAlpha
<1>4. Numbers!GateIsTheWidest
  <2>1. SUFFICES ASSUME threshold # Numbers!None, NEW t \in Numbers!Seen(rows), t < threshold,
                        Numbers!Valid(rows, t)
                 PROVE  FALSE
    BY DEF Numbers!GateIsTheWidest
  <2>2. threshold <= t
    BY <1>2, <2>1
  <2>3. t \in Nat /\ threshold \in Int
    <3>1. threshold \in Probs \cup {Numbers!Never, Numbers!None}
      BY <1>1, FittedIs
    <3>2. QED
      BY <2>1, <3>1, Numbered DEF Numbers!Seen
  <2>4. QED
    BY <2>1, <2>2, <2>3
<1>5. QED
  BY <1>3, <1>4 DEF Numbers!ThresholdIsRight

(* A row more does not take away what there is to fit a threshold on. *)
LEMMA StillEnough ==
  ASSUME NEW b \in RowBags, NEW p \in Probs, NEW y \in Numbers!Label,
         ~(Numbers!Total(b) < MinRows \/ ~Numbers!BothLabels(b))
  PROVE  LET c == [b EXCEPT ![<<p, y>>] = @ + 1]
         IN  ~(Numbers!Total(c) < MinRows \/ ~Numbers!BothLabels(c))
<1> DEFINE c == [b EXCEPT ![<<p, y>>] = @ + 1]
<1>1. <<p, y>> \in Numbers!All
  BY DEF Numbers!All
<1>2. ASSUME NEW S \in SUBSET Numbers!All
      PROVE  Numbers!Count(b, S) \in Nat /\ Numbers!Count(c, S) \in Nat
             /\ Numbers!Count(b, S) <= Numbers!Count(c, S)
  <2>1. Numbers!Count(b, S) \in Nat
    BY CountIs
  <2>2. Numbers!Count(c, S) = Numbers!Count(b, S) + (IF <<p, y>> \in S THEN 1 ELSE 0)
    BY <1>1, CountAdds
  <2> HIDE DEF c
  <2>3. QED
    BY <2>1, <2>2
<1> HIDE DEF c
<1>3. Numbers!Total(c) >= MinRows
  <2>1. Numbers!All \in SUBSET Numbers!All
    OBVIOUS
  <2>2. QED
    BY <1>2, <2>1, Numbered DEF Numbers!Total
<1>4. Numbers!BothLabels(c)
  <2>1. SUFFICES ASSUME NEW z \in Numbers!Label PROVE Numbers!Count(c, Probs \X {z}) > 0
    BY DEF Numbers!BothLabels
  <2>2. Probs \X {z} \in SUBSET Numbers!All
    <3>1. {z} \in SUBSET Numbers!Label /\ Probs \in SUBSET Probs
      OBVIOUS
    <3>2. QED
      BY <3>1, KindsAreFinite
  <2>3. Numbers!Count(b, Probs \X {z}) > 0
    BY DEF Numbers!BothLabels
  <2>4. QED
    BY <1>2, <2>2, <2>3
<1>5. Numbers!Total(c) \in Nat
  <2>1. Numbers!All \in SUBSET Numbers!All
    OBVIOUS
  <2>2. QED
    BY <1>2, <2>1 DEF Numbers!Total
<1>6. ~(Numbers!Total(c) < MinRows \/ ~Numbers!BothLabels(c))
  BY <1>3, <1>4, <1>5, Numbered
<1>7. QED
  BY <1>6 DEF c

(* What a new row does to the threshold. *)
LEMMA NewsIs ==
  ASSUME NEW b \in RowBags, NEW p \in Probs, NEW y \in Numbers!Label,
         Numbers!fit_conformal_threshold(b) # Numbers!None
  PROVE  LET c == [b EXCEPT ![<<p, y>>] = @ + 1]
             t == Numbers!fit_conformal_threshold(b)
             u == Numbers!fit_conformal_threshold(c)
         IN  /\ y = 0 => u >= t \/ u >= p \/ Numbers!Executed(b, u) < MinSupport
             /\ y = 1 /\ p >= t => u <= t
<1> DEFINE c == [b EXCEPT ![<<p, y>>] = @ + 1]
           t == Numbers!fit_conformal_threshold(b)
           u == Numbers!fit_conformal_threshold(c)
<1>1. /\ t \in Probs \cup {Numbers!Never}
      /\ t \in Probs => t \in Numbers!Seen(b) /\ Numbers!Valid(b, t)
      /\ \A s \in Numbers!Seen(b) : Numbers!Valid(b, s) => t <= s
  BY FittedIs
<1>2. c \in RowBags
  <2>1. <<p, y>> \in Numbers!All /\ Numbers!All \in SUBSET Numbers!All
    BY DEF Numbers!All
  <2>2. QED
    BY <2>1, CountAdds
<1>3. /\ u \in Probs \cup {Numbers!Never}
      /\ u \in Probs => u \in Numbers!Seen(c) /\ Numbers!Valid(c, u)
      /\ \A s \in Numbers!Seen(c) : Numbers!Valid(c, s) => u <= s
  <2>1. ~(Numbers!Total(b) < MinRows \/ ~Numbers!BothLabels(b))
    BY FittedIs
  <2>2. ~(Numbers!Total(c) < MinRows \/ ~Numbers!BothLabels(c))
    BY <2>1, StillEnough
  <2> HIDE DEF c
  <2>3. QED
    BY <1>2, <2>2, FittedIs
<1>4. ASSUME NEW s \in Probs
      PROVE  /\ Numbers!Failures(c, s) = Numbers!Failures(b, s) + (IF p >= s /\ y = 0 THEN 1 ELSE 0)
             /\ Numbers!Executed(c, s) = Numbers!Executed(b, s) + (IF p >= s THEN 1 ELSE 0)
             /\ Numbers!Failures(b, s) \in Nat /\ Numbers!Executed(b, s) \in Nat
  BY TriedAdds, Tried
<1>5. /\ Numbers!Seen(b) \in SUBSET Numbers!Seen(c)
      /\ Numbers!Seen(c) \in SUBSET (Numbers!Seen(b) \cup {p})
  BY SeenAdds
<1>6. t \in Nat /\ u \in Nat /\ p \in Nat /\ p < Numbers!Never /\ Numbers!Never \in Nat
  BY <1>1, <1>3, Numbered
<1> HIDE DEF c, t, u
<1>7. ASSUME y = 0, u < t, u < p, Numbers!Executed(b, u) >= MinSupport PROVE FALSE
  <2>1. u \in Probs
    BY <1>3, <1>6, <1>7
  <2>2. u \in Numbers!Seen(b)
    BY <1>3, <1>5, <1>6, <1>7, <2>1
  <2>3. /\ Numbers!Failures(c, u) = Numbers!Failures(b, u) + 1
        /\ Numbers!Executed(c, u) = Numbers!Executed(b, u) + 1
    BY <1>4, <1>6, <1>7, <2>1
  <2>4. Numbers!BoundedByAlpha(Numbers!Failures(b, u) + 1, Numbers!Executed(b, u) + 1)
    BY <1>3, <2>1, <2>3 DEF Numbers!Valid
  <2>5. Numbers!BoundedByAlpha(Numbers!Failures(b, u), Numbers!Executed(b, u))
    BY <1>4, <2>1, <2>4, FailureHurts
  <2>6. Numbers!Valid(b, u)
    BY <1>7, <2>5 DEF Numbers!Valid
  <2>7. t <= u
    BY <1>1, <2>2, <2>6
  <2>8. QED
    BY <1>6, <1>7, <2>7
<1>8. ASSUME y = 1, p >= t PROVE u <= t
  <2>1. t \in Probs
    BY <1>1, <1>6, <1>8
  <2>2. /\ Numbers!Failures(c, t) = Numbers!Failures(b, t)
        /\ Numbers!Executed(c, t) = Numbers!Executed(b, t) + 1
    BY <1>4, <1>8, <2>1
  <2>3. /\ Numbers!Executed(b, t) >= MinSupport
        /\ Numbers!BoundedByAlpha(Numbers!Failures(b, t), Numbers!Executed(b, t))
    BY <1>1, <2>1 DEF Numbers!Valid
  <2>4. Numbers!BoundedByAlpha(Numbers!Failures(b, t), Numbers!Executed(b, t) + 1)
    BY <1>4, <2>1, <2>3, SuccessHelps
  <2>5. Numbers!Executed(b, t) + 1 >= MinSupport
    BY <1>4, <2>1, <2>3, Numbered
  <2>6. Numbers!Valid(c, t)
    BY <2>2, <2>4, <2>5 DEF Numbers!Valid
  <2>7. QED
    BY <1>1, <1>3, <1>5, <2>1, <2>6
<1>9. /\ y = 0 => u >= t \/ u >= p \/ Numbers!Executed(b, u) < MinSupport
      /\ y = 1 /\ p >= t => u <= t
  <2>1. y = 0 /\ u \in Probs => Numbers!Executed(b, u) \in Nat
    BY <1>4
  <2>2. u \notin Probs => u >= t
    BY <1>1, <1>3, <1>6, Numbered
  <2>3. QED
    BY <1>6, <1>7, <1>8, <2>1, <2>2, Numbered
<1>10. QED
  BY <1>9 DEF c, t, u

(* News moves the gate the right way, from every state of the invariant. *)
LEMMA NewsHolds ==
  NumbersInv /\ [Numbers!Next]_number_vars =>
    [\A p \in Probs : threshold # Numbers!None =>
       /\ rows'[<<p, 0>>] > rows[<<p, 0>>] =>
            \/ threshold' >= threshold \/ threshold' >= p
            \/ Numbers!Executed(rows, threshold') < MinSupport
       /\ rows'[<<p, 1>>] > rows[<<p, 1>>] /\ p >= threshold => threshold' <= threshold]_number_vars
<1> SUFFICES ASSUME NumbersInv, Numbers!Next, threshold # Numbers!None, NEW p \in Probs
             PROVE  /\ rows'[<<p, 0>>] > rows[<<p, 0>>] =>
                         \/ threshold' >= threshold \/ threshold' >= p
                         \/ Numbers!Executed(rows, threshold') < MinSupport
                    /\ rows'[<<p, 1>>] > rows[<<p, 1>>] /\ p >= threshold =>
                         threshold' <= threshold
  OBVIOUS
<1>1. PICK q \in Probs, y \in Numbers!Label : Numbers!AddRow(q, y)
  BY DEF Numbers!Next
<1>2. /\ rows' = [rows EXCEPT ![<<q, y>>] = @ + 1]
      /\ threshold' = Numbers!fit_conformal_threshold(rows')
  BY <1>1 DEF Numbers!AddRow, Numbers!Computed
<1>3. rows \in RowBags /\ threshold = Numbers!fit_conformal_threshold(rows)
  BY DEF NumbersInv
<1>4. /\ y = 0 => threshold' >= threshold \/ threshold' >= q
                  \/ Numbers!Executed(rows, threshold') < MinSupport
      /\ y = 1 /\ q >= threshold => threshold' <= threshold
  BY <1>2, <1>3, NewsIs
<1>5. ASSUME NEW z \in Numbers!Label, rows'[<<p, z>>] > rows[<<p, z>>] PROVE q = p /\ y = z
  <2>1. <<p, z>> \in Numbers!All /\ rows[<<p, z>>] \in Nat
    BY <1>3 DEF Numbers!All, RowBags
  <2>2. <<p, z>> = <<q, y>>
    BY <1>2, <1>3, <1>5, <2>1 DEF RowBags
  <2>3. QED
    BY <2>2
<1>6. 0 \in Numbers!Label /\ 1 \in Numbers!Label
  BY DEF Numbers!Label
<1>7. QED
  BY <1>4, <1>5, <1>6

(***************************************************************************)
(* The error of all predictions together is no more than the ECE.          *)
(***************************************************************************)
Hoped(b)  == [r \in Numbers!All |-> b[r] * r[1]]
Off(b, P) == Sum(b, P \X {1}) * One - Sum(Hoped(b), P \X Numbers!Label)
Below(n)  == {p \in Probs : p * NBins < n * One}
Sized(x)  == IF x >= 0 THEN x ELSE - x

(* The error of some predictions is how far they are off. *)
LEMMA GapIs ==
  ASSUME NEW b \in RowBags, NEW P \in SUBSET Probs
  PROVE  Off(b, P) \in Int /\ Numbers!Gap(b, P) = Sized(Off(b, P))
<1> DEFINE x == Sum(b, P \X {1}) * One
           z == Sum(Hoped(b), P \X Numbers!Label)
<1>1. {1} \in SUBSET Numbers!Label /\ Numbers!Label \in SUBSET Numbers!Label
  BY DEF Numbers!Label
<1>2. /\ P \X {1} \in SUBSET Numbers!All /\ IsFiniteSet(P \X {1})
      /\ P \X Numbers!Label \in SUBSET Numbers!All /\ IsFiniteSet(P \X Numbers!Label)
  BY <1>1, KindsAreFinite
<1>3. \A r \in Numbers!All : b[r] \in Int /\ Hoped(b)[r] \in Int
  <2>1. ASSUME NEW r \in Numbers!All PROVE b[r] \in Int /\ r[1] \in Int
    BY Numbered DEF RowBags, Numbers!All
  <2>2. \A r \in Numbers!All : Hoped(b)[r] = b[r] * r[1]
    BY DEF Hoped
  <2>3. QED
    BY <2>1, <2>2
<1>4. x \in Int /\ z \in Int
  <2>1. Sum(b, P \X {1}) \in Int /\ z \in Int
    BY <1>2, <1>3, SumIs
  <2>2. One \in Int
    BY Numbered
  <2>3. QED
    BY <2>1, <2>2
<1>5. Numbers!Gap(b, P) = IF x >= z THEN x - z ELSE z - x
  BY DEF Numbers!Gap, Numbers!Count, Sum, Hoped
<1>6. Off(b, P) = x - z
  BY DEF Off
<1> HIDE DEF x, z
<1>7. QED
  BY <1>4, <1>5, <1>6 DEF Sized

(* Two groups of predictions that are apart are off by as much as both. *)
LEMMA OffOfBoth ==
  ASSUME NEW b \in RowBags, NEW P \in SUBSET Probs, NEW Q \in SUBSET Probs, P \cap Q = {}
  PROVE  Off(b, P \cup Q) = Off(b, P) + Off(b, Q)
<1>1. ASSUME NEW Y \in SUBSET Numbers!Label, NEW f, \A r \in Numbers!All : f[r] \in Int
      PROVE  /\ Sum(f, (P \cup Q) \X Y) = Sum(f, P \X Y) + Sum(f, Q \X Y)
             /\ Sum(f, P \X Y) \in Int /\ Sum(f, Q \X Y) \in Int
  <2>1. /\ P \X Y \in SUBSET Numbers!All /\ IsFiniteSet(P \X Y)
        /\ Q \X Y \in SUBSET Numbers!All /\ IsFiniteSet(Q \X Y)
    BY KindsAreFinite
  <2>2. (P \cup Q) \X Y = (P \X Y) \cup (Q \X Y) /\ (P \X Y) \cap (Q \X Y) = {}
    OBVIOUS
  <2>3. /\ \A r \in (P \X Y) \cup (Q \X Y) : f[r] \in Int
        /\ \A r \in P \X Y : f[r] \in Int
        /\ \A r \in Q \X Y : f[r] \in Int
    BY <1>1, <2>1
  <2>4. Sum(f, (P \X Y) \cup (Q \X Y)) = Sum(f, P \X Y) + Sum(f, Q \X Y)
    BY <2>1, <2>2, <2>3, SumOfBoth
  <2>5. Sum(f, P \X Y) \in Int /\ Sum(f, Q \X Y) \in Int
    BY <2>1, <2>3, SumIs
  <2>6. QED
    BY <2>2, <2>4, <2>5
<1>2. {1} \in SUBSET Numbers!Label /\ Numbers!Label \in SUBSET Numbers!Label
  BY DEF Numbers!Label
<1>3. \A r \in Numbers!All : b[r] \in Int /\ Hoped(b)[r] \in Int
  <2>1. ASSUME NEW r \in Numbers!All PROVE b[r] \in Int /\ r[1] \in Int
    BY Numbered DEF RowBags, Numbers!All
  <2>2. \A r \in Numbers!All : Hoped(b)[r] = b[r] * r[1]
    BY DEF Hoped
  <2>3. QED
    BY <2>1, <2>2
<1>4. /\ Sum(b, (P \cup Q) \X {1}) = Sum(b, P \X {1}) + Sum(b, Q \X {1})
      /\ Sum(b, P \X {1}) \in Int /\ Sum(b, Q \X {1}) \in Int
  BY <1>1, <1>2, <1>3
<1>5. /\ Sum(Hoped(b), (P \cup Q) \X Numbers!Label) =
           Sum(Hoped(b), P \X Numbers!Label) + Sum(Hoped(b), Q \X Numbers!Label)
      /\ Sum(Hoped(b), P \X Numbers!Label) \in Int /\ Sum(Hoped(b), Q \X Numbers!Label) \in Int
  BY <1>1, <1>2, <1>3
<1>6. ASSUME NEW s \in Int, NEW t \in Int, NEW u \in Int, NEW v \in Int
      PROVE  (s + t) * One - (u + v) = (s * One - u) + (t * One - v)
  BY Numbered
<1>7. QED
  BY <1>4, <1>5, <1>6 DEF Off

(* Predictions of which there are none are not off. *)
LEMMA NoneAreOff ==
  ASSUME NEW b \in RowBags, NEW P \in SUBSET Probs, Numbers!Count(b, P \X Numbers!Label) = 0
  PROVE  Off(b, P) = 0
<1>1. {1} \in SUBSET Numbers!Label /\ Numbers!Label \in SUBSET Numbers!Label
  BY DEF Numbers!Label
<1>2. /\ P \X Numbers!Label \in SUBSET Numbers!All /\ IsFiniteSet(P \X Numbers!Label)
      /\ P \X {1} \in SUBSET (P \X Numbers!Label)
  BY <1>1, KindsAreFinite
<1>3. \A r \in P \X Numbers!Label : b[r] \in Nat
  BY <1>2 DEF RowBags
<1>4. \A r \in P \X Numbers!Label : b[r] = 0
  <2>1. SUFFICES ASSUME NEW r \in P \X Numbers!Label PROVE b[r] = 0
    OBVIOUS
  <2>2. {r} \in SUBSET (P \X Numbers!Label) /\ IsFiniteSet({r})
    BY FS_Singleton
  <2>3. Sum(b, {r}) = b[r] + Sum(b, {r} \ {r})
    BY <1>3, <2>2, SumTakes
  <2>4. Sum(b, {r} \ {r}) = 0
    <3>1. {r} \ {r} = {} /\ IsFiniteSet({})
      BY FS_EmptySet
    <3>2. QED
      BY <3>1, SumIs
  <2>5. Sum(b, {r}) <= Sum(b, P \X Numbers!Label) /\ Sum(b, {r}) \in Nat
    BY <1>2, <1>3, <2>2, SumOfPart
  <2>6. QED
    BY <1>3, <2>3, <2>4, <2>5 DEF Numbers!Count, Sum
<1>5. Sum(b, P \X {1}) = 0
  <2>1. /\ Sum(b, P \X {1}) \in Nat
        /\ Sum(b, P \X {1}) <= Sum(b, P \X Numbers!Label)
    BY <1>2, <1>3, SumOfPart
  <2>2. QED
    BY <2>1 DEF Numbers!Count, Sum
<1>6. Sum(Hoped(b), P \X Numbers!Label) = 0
  <2>1. \A r \in P \X Numbers!Label : b[r] \in Int /\ Hoped(b)[r] = b[r]
    <3>1. ASSUME NEW r \in P \X Numbers!Label PROVE Hoped(b)[r] = 0
      <4>1. r \in Numbers!All /\ r[1] \in Int
        BY <1>2, Numbered DEF Numbers!All
      <4>2. Hoped(b)[r] = b[r] * r[1]
        BY <4>1 DEF Hoped
      <4>3. b[r] = 0
        BY <1>4
      <4>4. QED
        BY <4>1, <4>2, <4>3
    <3>2. QED
      BY <1>4, <3>1
  <2>2. Sum(Hoped(b), P \X Numbers!Label) = Sum(b, P \X Numbers!Label)
    BY <1>2, <2>1, SumSame
  <2>3. QED
    BY <2>2 DEF Numbers!Count, Sum
<1>7. QED
  BY <1>5, <1>6, Numbered DEF Off

(* Bin after bin, what is below is off by no more than the bins' errors. *)
LEMMA GapIsBelowECE ==
  ASSUME NEW b \in RowBags, Numbers!Count(b, (Probs \cap {One}) \X Numbers!Label) = 0
  PROVE  /\ Numbers!Gap(b, Probs) \in Nat /\ Numbers!compute_ece(b) \in Nat
         /\ Numbers!Gap(b, Probs) <= Numbers!compute_ece(b)
<1> DEFINE f == [i \in 0 .. NBins - 1 |-> Numbers!Gap(b, Numbers!Bin(i))]
           Bounded(n) == n <= NBins =>
             Numbers!Gap(b, Below(n)) <= Sum(f, 0 .. n - 1)
           T == {n \in Nat : Bounded(n)}
<1>0. NBins \in Nat \ {0} /\ One \in Nat \ {0}
  BY Numbered
<1>1. ASSUME NEW P \in SUBSET Probs
      PROVE  Numbers!Gap(b, P) \in Nat
  BY GapIs DEF Sized
<1>2. \A n \in Nat : Below(n) \in SUBSET Probs /\ Numbers!Bin(n) \in SUBSET Probs
  BY DEF Below, Numbers!Bin
<1>3. /\ \A i \in 0 .. NBins - 1 : f[i] = Numbers!Gap(b, Numbers!Bin(i))
      /\ \A i \in 0 .. NBins - 1 : f[i] \in Nat /\ f[i] \in Int
      /\ DOMAIN f = 0 .. NBins - 1
  <2>1. \A i \in 0 .. NBins - 1 : Numbers!Gap(b, Numbers!Bin(i)) \in Nat
    BY <1>0, <1>1, <1>2
  <2>2. QED
    BY <2>1
<1>4. Numbers!compute_ece(b) = Sum(f, 0 .. NBins - 1)
  BY <1>3 DEF Numbers!compute_ece, Numbers!SumFunction, Sum
<1> HIDE DEF f
<1>5. \A n \in Nat : n <= NBins => IsFiniteSet(0 .. n - 1) /\ 0 .. n - 1 \subseteq 0 .. NBins - 1
  <2>1. ASSUME NEW n \in Nat PROVE IsFiniteSet(0 .. n - 1)
    <3>1. 0 \in Int /\ n - 1 \in Int
      OBVIOUS
    <3>2. QED
      BY <3>1, FS_Interval, Zenon
  <2>2. QED
    BY <1>0, <2>1
<1>6. Bounded(0)
  <2>1. Below(0) = {}
    <3>1. ASSUME NEW p \in Probs PROVE ~(p * NBins < 0 * One)
      <4>1. p \in Nat
        BY Numbered
      <4>2. p * NBins \in Nat /\ 0 * One = 0
        BY <1>0, <4>1
      <4>3. QED
        BY <4>2
    <3>2. QED
      BY <3>1 DEF Below
  <2>2. Off(b, {}) = 0
    <3>1. {} \in SUBSET Probs /\ {} \cap {} = {} /\ {} \cup {} = {}
      OBVIOUS
    <3>2. Off(b, {} \cup {}) = Off(b, {}) + Off(b, {})
      BY <3>1, OffOfBoth
    <3>3. Off(b, {} \cup {}) = Off(b, {})
      BY <3>1, Zenon
    <3>4. Off(b, {}) \in Int
      BY <3>1, GapIs
    <3>5. \A x \in Int : x = x + x => x = 0
      OBVIOUS
    <3>6. QED
      BY <3>2, <3>3, <3>4, <3>5, Zenon
  <2>3. Numbers!Gap(b, Below(0)) = 0
    <3>1. {} \in SUBSET Probs
      OBVIOUS
    <3>2. Numbers!Gap(b, {}) = Sized(Off(b, {}))
      BY <3>1, GapIs
    <3>3. QED
      BY <2>1, <2>2, <3>2 DEF Sized
  <2>4. Sum(f, 0 .. 0 - 1) = 0
    <3>1. 0 .. 0 - 1 = {} /\ IsFiniteSet({})
      BY FS_EmptySet
    <3>2. QED
      BY <3>1, SumIs
  <2>5. QED
    BY <2>3, <2>4
<1>7. ASSUME NEW n \in Nat, Bounded(n) PROVE Bounded(n + 1)
  <2>1. SUFFICES ASSUME n + 1 <= NBins
                 PROVE  Numbers!Gap(b, Below(n + 1)) <= Sum(f, 0 .. n)
    <3>1. 0 .. (n + 1) - 1 = 0 .. n
      OBVIOUS
    <3>2. QED
      BY <3>1
  <2>2. Below(n + 1) = Below(n) \cup Numbers!Bin(n) /\ Below(n) \cap Numbers!Bin(n) = {}
    <3>1. ASSUME NEW p \in Probs
          PROVE  /\ p * NBins < (n + 1) * One <=>
                      p * NBins < n * One
                      \/ (n * One <= p * NBins /\ p * NBins < (n + 1) * One)
                 /\ ~(p * NBins < n * One /\ n * One <= p * NBins)
      <4>1. p * NBins \in Nat /\ n * One \in Nat /\ (n + 1) * One = n * One + One
        BY <1>0, Numbered
      <4>2. QED
        BY <1>0, <4>1
    <3>2. QED
      BY <3>1 DEF Below, Numbers!Bin
  <2>3. Off(b, Below(n + 1)) = Off(b, Below(n)) + Off(b, Numbers!Bin(n))
    BY <1>2, <2>2, OffOfBoth
  <2>4. Numbers!Gap(b, Below(n + 1)) <= Numbers!Gap(b, Below(n)) + Numbers!Gap(b, Numbers!Bin(n))
    <3>1. n + 1 \in Nat
      OBVIOUS
    <3>2. /\ Off(b, Below(n)) \in Int /\ Off(b, Numbers!Bin(n)) \in Int
          /\ Numbers!Gap(b, Below(n)) = Sized(Off(b, Below(n)))
          /\ Numbers!Gap(b, Numbers!Bin(n)) = Sized(Off(b, Numbers!Bin(n)))
          /\ Numbers!Gap(b, Below(n + 1)) = Sized(Off(b, Below(n + 1)))
      BY <1>2, <3>1, GapIs
    <3>3. QED
      BY <2>3, <3>2 DEF Sized
  <2>5. Sum(f, 0 .. n) = f[n] + Sum(f, 0 .. n - 1)
    <3>1. IsFiniteSet(0 .. n - 1) /\ 0 .. n - 1 \subseteq 0 .. NBins - 1 /\ n \in 0 .. NBins - 1
      BY <1>0, <1>5, <2>1
    <3>2. n \notin 0 .. n - 1 /\ (0 .. n - 1) \cup {n} = 0 .. n
      OBVIOUS
    <3>3. \A i \in (0 .. n - 1) \cup {n} : f[i] \in Int
      BY <1>3, <3>1
    <3> DEFINE R == 0 .. n - 1
    <3>4. IsFiniteSet(R) /\ n \notin R /\ \A i \in R \cup {n} : f[i] \in Int
      BY <3>1, <3>2, <3>3
    <3> HIDE DEF R
    <3>5. Sum(f, R \cup {n}) = f[n] + Sum(f, R)
      BY <3>4, SumAdds
    <3>6. R \cup {n} = 0 .. n
      BY <3>2 DEF R
    <3>7. Sum(f, 0 .. n) = f[n] + Sum(f, R)
      BY <3>5, <3>6, Zenon
    <3>8. QED
      BY <3>7, Zenon DEF R
  <2>6. Sum(f, 0 .. n - 1) \in Int
    <3>1. IsFiniteSet(0 .. n - 1) /\ \A i \in 0 .. n - 1 : f[i] \in Int
      BY <1>0, <1>3, <1>5, <2>1
    <3>2. QED
      BY <3>1, SumIs
  <2>7. f[n] = Numbers!Gap(b, Numbers!Bin(n)) /\ f[n] \in Int
    BY <1>0, <1>3, <2>1
  <2>8. Numbers!Gap(b, Below(n)) <= Sum(f, 0 .. n - 1)
    BY <1>7, <2>1, <1>0
  <2>9. Numbers!Gap(b, Below(n)) \in Nat /\ Numbers!Gap(b, Below(n + 1)) \in Nat
    <3>1. n + 1 \in Nat
      OBVIOUS
    <3>2. QED
      BY <1>1, <1>2, <3>1
  <2>10. QED
    BY <2>4, <2>5, <2>6, <2>7, <2>8, <2>9
<1>8. T = Nat
  <2> HIDE DEF Bounded
  <2>1. T \subseteq Nat /\ 0 \in T /\ \A n \in T : n + 1 \in T
    BY <1>6, <1>7
  <2> HIDE DEF T
  <2>2. QED
    BY <2>1, AllNumbersIn
<1>9. Numbers!Gap(b, Below(NBins)) <= Sum(f, 0 .. NBins - 1)
  <2>1. NBins \in T
    BY <1>0, <1>8
  <2>2. QED
    BY <1>0, <2>1
<1>10. Probs = Below(NBins) \cup (Probs \cap {One}) /\ Below(NBins) \cap (Probs \cap {One}) = {}
  <2>1. ASSUME NEW p \in Probs PROVE p * NBins < NBins * One <=> p # One
    <3>1. p \in Nat /\ p <= One
      BY Numbered
    <3>2. CASE p = One
      <4>1. p * NBins = NBins * One /\ p * NBins \in Nat
        BY <1>0, <3>1, <3>2
      <4>2. QED
        BY <3>2, <4>1
    <3>3. CASE p # One
      <4>1. p + 1 <= One /\ p + 1 \in Nat
        BY <1>0, <3>1, <3>3
      <4>2. (p + 1) * NBins <= One * NBins
        BY <1>0, <4>1, TimesMonotone
      <4>3. (p + 1) * NBins = p * NBins + NBins /\ One * NBins = NBins * One
            /\ p * NBins \in Nat /\ One * NBins \in Nat
        BY <1>0, <3>1
      <4>4. QED
        BY <1>0, <3>3, <4>2, <4>3
    <3>4. QED
      BY <3>2, <3>3
  <2>2. QED
    BY <2>1 DEF Below
<1>11. Off(b, Probs) = Off(b, Below(NBins))
  <2>1. Probs \cap {One} \in SUBSET Probs /\ Below(NBins) \in SUBSET Probs
    BY <1>0, <1>2
  <2>2. Off(b, Probs \cap {One}) = 0 /\ Off(b, Below(NBins)) \in Int
    BY <2>1, NoneAreOff, GapIs
  <2>3. Off(b, Below(NBins) \cup (Probs \cap {One}))
          = Off(b, Below(NBins)) + Off(b, Probs \cap {One})
    BY <1>10, <2>1, OffOfBoth
  <2>4. Off(b, Probs) = Off(b, Below(NBins)) + Off(b, Probs \cap {One})
    BY <1>10, <2>3, Zenon
  <2>5. QED
    BY <2>2, <2>4
<1>12. Numbers!Gap(b, Probs) = Numbers!Gap(b, Below(NBins))
  <2>1. Probs \in SUBSET Probs /\ Below(NBins) \in SUBSET Probs
    BY <1>0, <1>2
  <2>2. QED
    BY <1>11, <2>1, GapIs
<1>13. Numbers!compute_ece(b) \in Nat
  <2> DEFINE R == 0 .. NBins - 1
  <2>1. IsFiniteSet(R) /\ R \in SUBSET R /\ \A i \in R : f[i] \in Nat
    BY <1>0, <1>3, <1>5
  <2>2. Numbers!compute_ece(b) = Sum(f, R)
    BY <1>4
  <2> HIDE DEF R
  <2>3. QED
    BY <2>1, <2>2, SumOfPart
<1>14. Numbers!Gap(b, Probs) \in Nat
  BY <1>1
<1>15. QED
  BY <1>4, <1>9, <1>12, <1>13, <1>14

(* A model that is off on average neither stays as it is nor merges alone. *)
LEMMA ErrorsHold == NumbersInv => Numbers!ErrorsAreNoticed
<1> SUFFICES ASSUME NumbersInv PROVE Numbers!ErrorsAreNoticed
  OBVIOUS
<1>1. rows \in RowBags /\ action = Numbers!Action(rows) /\ level = Numbers!Level(rows)
  BY DEF NumbersInv
<1>2. Numbers!Total(rows) \in Nat
  <2>1. Numbers!All \in SUBSET Numbers!All
    OBVIOUS
  <2>2. QED
    BY <1>1, <2>1, CountIs DEF Numbers!Total
<1>3. MaxEce \in Nat /\ EceThreshold \in Nat /\ MinN \in Nat
  BY NumbersAssumption DEF Numbers!CalibrateAssumption
<1>4. ASSUME NEW bar \in Nat, ~Numbers!EceAbove(rows, bar),
             Numbers!Count(rows, (Probs \cap {One}) \X Numbers!Label) = 0
      PROVE  Numbers!Gap(rows, Probs) <= bar * Numbers!Total(rows)
  <2>1. bar * Numbers!Total(rows) \in Nat
    BY <1>2
  <2>2. ~(Numbers!compute_ece(rows) > bar * Numbers!Total(rows))
    BY <1>4 DEF Numbers!EceAbove
  <2>3. /\ Numbers!Gap(rows, Probs) \in Nat /\ Numbers!compute_ece(rows) \in Nat
        /\ Numbers!Gap(rows, Probs) <= Numbers!compute_ece(rows)
    BY <1>1, <1>4, GapIsBelowECE
  <2>4. QED
    BY <2>1, <2>2, <2>3
<1>5. level = "auto_merge" => ~Numbers!EceAbove(rows, MaxEce) /\ Numbers!Total(rows) >= MinN
  BY <1>1, <1>2, <1>3 DEF Numbers!Level
<1>6. action = "ok" => ~Numbers!EceAbove(rows, EceThreshold)
  <2>1. Numbers!Total(rows) = 0 \/ Numbers!Total(rows) > 0
    BY <1>2
  <2>2. QED
    BY <1>1, <1>2, <2>1, Numbered DEF Numbers!Action
<1>7. QED
  BY <1>3, <1>4, <1>5, <1>6
     DEF Numbers!ErrorsAreNoticed, Numbers!AutoMergeIsCalibrated, Numbers!RecalibratesWhenOff

(* The invariant holds, whether the rows or the files are at work. *)
LEMMA NumbersInvHolds == EitherSpec => []NumbersInv
<1>1. EitherInit => NumbersInv
  BY NumbersInvInit DEF EitherInit
<1>2. NumbersInv /\ [EitherNext]_<<job, vars, number_vars>> => NumbersInv'
  <2> SUFFICES ASSUME NumbersInv, [EitherNext]_<<job, vars, number_vars>> PROVE NumbersInv'
    OBVIOUS
  <2>1. [Numbers!Next]_number_vars
    BY DEF EitherNext
  <2>2. QED
    BY <2>1, NumbersInvStep
<1>3. QED
  BY <1>1, <1>2, PTL DEF EitherSpec

(* For any probabilities, bins, rate of failure and minimum of rows, and as   *)
(* many rows as there are: the fitted threshold keeps its promise and is the  *)
(* lowest that does, and a model that is off on average is recalibrated and   *)
(* does not merge alone (fit_conformal_threshold, run_calibration,            *)
(* SegmentCompetence.level).                                                  *)
THEOREM ConclusionsAreRight == EitherSpec => []NumbersAreRight
<1>1. NumbersInv => NumbersAreRight
  BY ThresholdHolds, ErrorsHold DEF NumbersAreRight, Numbers!NumbersAreRight
<1>2. QED
  BY <1>1, NumbersInvHolds, PTL

(* One more failure lowers the threshold at most to where it happened, or to  *)
(* one that lacked only support; one more success does not raise it           *)
(* (fit_conformal_threshold).                                                 *)
THEOREM NewsIsHeeded == EitherSpec => NewsMovesTheGateTheRightWay
<1> DEFINE Heeded ==
      \A p \in Probs : threshold # Numbers!None =>
        /\ rows'[<<p, 0>>] > rows[<<p, 0>>] =>
             \/ threshold' >= threshold \/ threshold' >= p
             \/ Numbers!Executed(rows, threshold') < MinSupport
        /\ rows'[<<p, 1>>] > rows[<<p, 1>>] /\ p >= threshold => threshold' <= threshold
<1>1. NumbersInv /\ [EitherNext]_<<job, vars, number_vars>> => [Heeded]_number_vars
  <2> SUFFICES ASSUME NumbersInv, [EitherNext]_<<job, vars, number_vars>>
               PROVE  [Heeded]_number_vars
    OBVIOUS
  <2>1. [Numbers!Next]_number_vars
    BY DEF EitherNext
  <2>2. QED
    BY <2>1, NewsHolds
<1>2. NewsMovesTheGateTheRightWay <=> [][Heeded]_number_vars
  BY DEF NewsMovesTheGateTheRightWay, Numbers!NewsMovesTheGateTheRightWay, Numbers!vars, number_vars
<1> HIDE DEF Heeded
<1>3. QED
  BY <1>1, <1>2, NumbersInvHolds, PTL DEF EitherSpec
=============================================================================
