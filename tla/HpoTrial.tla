------------------------------ MODULE HpoTrial ------------------------------
(***************************************************************************)
(* One trial of the validation objective (tuning/rl_objective.py): a model *)
(* is trained and scored for every fold of a walk-forward split and every  *)
(* seed.  The process may die at any point; the resumed study evaluates    *)
(* the same suggestion again and loads the checkpoints it finds.           *)
(*                                                                         *)
(* A score names the model and the window it comes from.                   *)
(***************************************************************************)
EXTENDS Integers, Sequences, FiniteSets

CONSTANTS Folds, Seeds,       \* numbers of folds and of seeds
          TrainEnd, Width,    \* the base split: train and validation windows
          Strides,            \* walk_forward_stride; 0 is the default, Width
          Lengths,            \* lengths of the panel
          MaxDeaths

VARIABLES stride, length,
          checkpoints,        \* final_model.zip files: directory -> model or none
          records,            \* of the evaluation that runs, in memory
          outcome,            \* "running", "completed", "failed"
          deaths

hpoVars == <<stride, length, checkpoints, records, outcome, deaths>>

\* the bounds of the configuration
TrialAssumption ==
  /\ {Folds, Seeds, Width} \subseteq Nat \ {0} /\ {TrainEnd, MaxDeaths} \subseteq Nat
  /\ Strides \subseteq Nat /\ Lengths \subseteq Nat

Directories == (0..(Folds - 1)) \X (1..Seeds)
At(i) == <<i \div Seeds, (i % Seeds) + 1>>     \* folds outside, seeds inside
Fold == At(Len(records))[1]
Seed == At(Len(records))[2]

\* Mutant: the folds of a seed share a directory.
SeedDirectory(fold, seed) == <<0, seed>>
Directory(fold, seed) == <<fold, seed>>

Shift(fold) == fold * (IF stride = 0 THEN Width ELSE stride)
\* the split of a fold: an expanding train window, then validation; no test
TrainWindow(fold) == 0..(TrainEnd + Shift(fold) - 1)
ValidationWindow(fold) == (TrainEnd + Shift(fold))..(TrainEnd + Shift(fold) + Width - 1)
Buildable(fold) == TrainEnd + Shift(fold) + Width <= length

NoModel == [fold |-> -1, seed |-> 0]

Init ==
  /\ stride \in Strides /\ length \in Lengths
  /\ checkpoints = [d \in Directories |-> NoModel]
  /\ records = <<>> /\ outcome = "running" /\ deaths = 0

Working == outcome = "running" /\ Len(records) < Folds * Seeds

\* a split past the end of the panel raises, which the executor makes a failure
Overrun ==
  /\ Working /\ ~Buildable(Fold)
  /\ outcome' = "failed"
  /\ UNCHANGED <<stride, length, checkpoints, records, deaths>>

\* train writes the checkpoint; the score follows in Score
Train ==
  /\ Working /\ Buildable(Fold)
  /\ checkpoints[Directory(Fold, Seed)] = NoModel
  /\ checkpoints' = [checkpoints EXCEPT ![Directory(Fold, Seed)] = [fold |-> Fold, seed |-> Seed]]
  /\ UNCHANGED <<stride, length, records, outcome, deaths>>

Score ==
  /\ Working /\ Buildable(Fold)
  /\ checkpoints[Directory(Fold, Seed)] # NoModel
  /\ records' = Append(records, [fold |-> Fold, seed |-> Seed,
                                 model |-> checkpoints[Directory(Fold, Seed)],
                                 window |-> ValidationWindow(Fold)])
  /\ UNCHANGED <<stride, length, checkpoints, outcome, deaths>>

Complete ==
  /\ outcome = "running" /\ Len(records) = Folds * Seeds
  /\ outcome' = "completed"
  /\ UNCHANGED <<stride, length, checkpoints, records, deaths>>

Die ==
  /\ outcome = "running" /\ deaths < MaxDeaths
  /\ records' = <<>> /\ deaths' = deaths + 1
  /\ UNCHANGED <<stride, length, checkpoints, outcome>>

Next == Overrun \/ Train \/ Score \/ Complete \/ Die

Spec == Init /\ [][Next]_hpoVars

TypeOK ==
  /\ outcome \in {"running", "completed", "failed"} /\ deaths \in 0..MaxDeaths
  /\ DOMAIN checkpoints = Directories
  /\ Len(records) <= Folds * Seeds

\* Whatever was loaded from an evaluation that died, every score is that of the
\* model of its own fold and seed, on sessions inside the panel that this model
\* was not trained on; a completed trial has every seed in every fold once.
TrialHonest ==
  /\ \A i \in DOMAIN records : LET r == records[i] IN
       /\ r.model = [fold |-> r.fold, seed |-> r.seed]
       /\ r.window \cap TrainWindow(r.model.fold) = {}
       /\ \A j \in DOMAIN records : j # i => <<r.fold, r.seed>> # <<records[j].fold, records[j].seed>>
       /\ \A day \in r.window : day < length
  /\ outcome = "completed" => {<<records[i].fold, records[i].seed>> : i \in DOMAIN records} = Directories
=============================================================================
