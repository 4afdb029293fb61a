---------------------------- MODULE Calibration ----------------------------
(***************************************************************************)
(* The calibration half of the control loop (nse/models/calibration_loop   *)
(* and Orchestrator._maybe_run_controls): the logged outcomes, the two     *)
(* files that hold the recalibrator and the conformal EXECUTE threshold,   *)
(* and the copies of both that each process holds in memory.               *)
(*                                                                         *)
(* The data are abstracted to versions.  A recalibrator is named by the    *)
(* number of outcomes it was fitted on (0 is "none"); a threshold by the   *)
(* recalibrator whose probabilities it was fitted on and by the number of  *)
(* outcomes.  Files are written in place, one after the other, so a        *)
(* process may die in the middle of either write, which leaves the file    *)
(* unreadable, and die or be overtaken by another one between the two.     *)
(* The table calibrations, to which each run and a detected drift add a    *)
(* row, is left out: nothing reads it.                                     *)
(***************************************************************************)
EXTENDS Integers

CONSTANTS
  Worker,      \* processes sharing the database and the files
  MinSamples,  \* min_samples of run_calibration
  MaxOutcomes, \* bound: outcomes logged
  MaxKills,    \* bound: deaths of a process
  Torn         \* the content of a file whose writing was cut short

ASSUME CalibrationAssumption ==
  /\ MinSamples \in Nat \ {0} /\ MaxOutcomes \in Nat /\ MaxKills \in Nat
  /\ Torn \notin Nat /\ Torn \notin [of : Nat, on : Nat]

VARIABLES
  outcomes,   \* number of joined prediction/outcome rows
  mixed,      \* whether both labels occur among them
  recal_file, \* latent_recalibrator.json: 0 for absent
  conf_file,  \* the conformal file: NoThreshold for absent
  held,       \* what each process holds: recal and conf
  pc,         \* "serving", "measured", "recalibrated", "fitted", "recorded"
  run,        \* its run of run_calibration: rows read, recal used, result
  kills

files == <<recal_file, conf_file>>
vars  == <<outcomes, mixed, files, held, pc, run, kills>>

NoThreshold == [of |-> 0, on |-> 0]
NoRun == [n |-> 0, both |-> FALSE, recal |-> 0, recalibrated |-> FALSE,
          threshold |-> NoThreshold]

Init ==
  /\ outcomes = 0 /\ mixed = FALSE
  /\ recal_file = 0 /\ conf_file = NoThreshold
  /\ held = [w \in Worker |-> [recal |-> 0, conf |-> NoThreshold]]
  /\ pc = [w \in Worker |-> "serving"]
  /\ run = [w \in Worker |-> NoRun]
  /\ kills = 0

(* load_recalibrator and load_conformal_threshold: None if unreadable. *)
Loaded(file, none) == IF file = Torn THEN none ELSE file

Goto(w, phase) == pc' = [pc EXCEPT ![w] = phase]

(* A task of any process logs an outcome; at some point both labels occur. *)
LogOutcome ==
  /\ outcomes < MaxOutcomes
  /\ outcomes' = outcomes + 1
  /\ mixed' \in (IF mixed \/ outcomes = 0 THEN {mixed} ELSE BOOLEAN)
  /\ UNCHANGED <<files, held, pc, run, kills>>

(* run_calibration without any joined row: the threshold is reloaded. *)
NothingToMeasure(w) ==
  /\ pc[w] = "serving" /\ outcomes = 0
  /\ held' = [held EXCEPT ![w].conf = Loaded(conf_file, NoThreshold)]
  /\ UNCHANGED <<outcomes, mixed, files, pc, run, kills>>

(* run_calibration reads the joined rows. *)
Measure(w) ==
  /\ pc[w] = "serving" /\ outcomes > 0
  /\ run' = [run EXCEPT ![w] = [NoRun EXCEPT !.n = outcomes, !.both = mixed]]
  /\ Goto(w, "measured")
  /\ UNCHANGED <<outcomes, mixed, files, held, kills>>

Enough(r) == r.n >= MinSamples /\ r.both

(* ECE above the threshold: fit the recalibrator on the raw p_t and save it. *)
Recalibrate(w) ==
  /\ pc[w] = "measured" /\ Enough(run[w])
  /\ recal_file' = run[w].n
  /\ run' = [run EXCEPT ![w] = [@ EXCEPT !.recal = run[w].n, !.recalibrated = TRUE]]
  /\ Goto(w, "recalibrated")
  /\ UNCHANGED <<outcomes, mixed, conf_file, held, kills>>

(* "ok" or "skipped_insufficient_data": the recalibrator of the file is used. *)
KeepRecalibrator(w) ==
  /\ pc[w] = "measured"
  /\ run' = [run EXCEPT ![w] = [@ EXCEPT !.recal = Loaded(recal_file, 0)]]
  /\ Goto(w, "recalibrated")
  /\ UNCHANGED <<outcomes, mixed, files, held, kills>>

FitOnRaw(r) ==   \* mutant of Fitted
  IF Enough(r) THEN [of |-> 0, on |-> r.n] ELSE NoThreshold

(* fit_conformal_threshold on the effective probabilities; None without enough *)
(* data, the "execute nothing" value when no threshold is good enough.         *)
Fitted(r) == IF Enough(r) THEN [of |-> r.recal, on |-> r.n] ELSE NoThreshold

FitConformal(w) ==
  /\ pc[w] = "recalibrated"
  /\ run' = [run EXCEPT ![w] = [@ EXCEPT !.threshold = Fitted(run[w])]]
  /\ Goto(w, "fitted")
  /\ UNCHANGED <<outcomes, mixed, files, held, kills>>

SaveConformal(w) ==
  /\ pc[w] = "fitted"
  /\ conf_file' = IF run[w].threshold # NoThreshold THEN run[w].threshold ELSE conf_file
  /\ Goto(w, "recorded")
  /\ UNCHANGED <<outcomes, mixed, recal_file, held, run, kills>>

ReloadConformalOnly(w) ==   \* mutant of Reloaded
  [recal |-> held[w].recal, conf |-> Loaded(conf_file, NoThreshold)]

(* The recalibrator is reloaded only if this run fitted one, the threshold    *)
(* always.                                                                    *)
Reloaded(w) ==
  [recal |-> IF run[w].recalibrated THEN Loaded(recal_file, 0) ELSE held[w].recal,
   conf |-> Loaded(conf_file, NoThreshold)]

(* Back in _maybe_run_controls, the run recorded: reload. *)
Reload(w) ==
  /\ pc[w] = "recorded"
  /\ held' = [held EXCEPT ![w] = Reloaded(w)]
  /\ run' = [run EXCEPT ![w] = NoRun]
  /\ Goto(w, "serving")
  /\ UNCHANGED <<outcomes, mixed, files, kills>>

(* The process dies, perhaps while it writes a file; a new Orchestrator loads *)
(* what the files hold.                                                       *)
Restart(w) ==
  /\ kills < MaxKills
  /\ kills' = kills + 1
  /\ recal_file' \in {recal_file} \cup (IF pc[w] = "measured" /\ Enough(run[w])
                                      THEN {Torn} ELSE {})
  /\ conf_file' \in {conf_file} \cup (IF pc[w] = "fitted" /\ run[w].threshold # NoThreshold
                                    THEN {Torn} ELSE {})
  /\ held' = [held EXCEPT ![w] = [recal |-> Loaded(recal_file', 0),
                                  conf |-> Loaded(conf_file', NoThreshold)]]
  /\ run' = [run EXCEPT ![w] = NoRun]
  /\ Goto(w, "serving")
  /\ UNCHANGED <<outcomes, mixed>>

Calibrate(w) ==
  \/ NothingToMeasure(w) \/ Measure(w) \/ Recalibrate(w) \/ KeepRecalibrator(w)
  \/ FitConformal(w) \/ SaveConformal(w) \/ Reload(w)

Next == LogOutcome \/ \E w \in Worker : Calibrate(w) \/ Restart(w)

Spec == Init /\ [][Next]_vars

-----------------------------------------------------------------------------
Thresholds == [of : 0 .. MaxOutcomes, on : 0 .. MaxOutcomes]
Versions   == 0 .. MaxOutcomes

TypeOK ==
  /\ outcomes \in 0 .. MaxOutcomes /\ mixed \in BOOLEAN
  /\ recal_file \in Versions \cup {Torn} /\ conf_file \in Thresholds \cup {Torn}
  /\ held \in [Worker -> [recal : Versions, conf : Thresholds]]
  /\ pc \in [Worker -> {"serving", "measured", "recalibrated", "fitted", "recorded"}]
  /\ run \in [Worker -> [n : Versions, both : BOOLEAN, recal : Versions,
                         recalibrated : BOOLEAN, threshold : Thresholds]]
  /\ kills \in 0 .. MaxKills

(* The gate of a process compares what its recalibrator produces with a       *)
(* threshold that was fitted on what that same recalibrator produced          *)
(* (calibration_loop.py:102-103: "as the arbiter will compare them at         *)
(* decision time").                                                           *)
GateMatches(w) ==
  held[w].conf # NoThreshold => held[w].conf.of = held[w].recal

GateMatchesModel == \A w \in Worker : pc[w] = "serving" => GateMatches(w)

(* With one process, only its death between the two writes parts them ...     *)
MismatchNeedsADeath == kills = 0 => GateMatchesModel

(* ... and the next calibration with enough data puts them together again.    *)
CalibrationHeals ==
  [][\A w \in Worker : pc[w] = "recorded" /\ pc'[w] = "serving" /\ Enough(run[w])
        /\ kills' = kills => GateMatches(w)']_vars

(* Neither file is ever the product of too little data, or of more than there *)
(* is, however runs interleave and die.                                       *)
BackedByData ==
  /\ recal_file # Torn => recal_file \in {0} \cup MinSamples .. outcomes
  /\ conf_file \notin {Torn, NoThreshold} =>
       conf_file.on \in MinSamples .. outcomes /\ conf_file.of <= conf_file.on

(* The recalibrator and the threshold a process decides with belong together  *)
(* and rest on enough data, as far as one process without deaths, and no      *)
(* further than that, can promise it.                                         *)
FilesAgree == TypeOK /\ BackedByData /\ MismatchNeedsADeath
=============================================================================
