---------------------------- MODULE RunDirectory ----------------------------
(***************************************************************************)
(* The directory of one training run and the commands that write into it:  *)
(* execute_training_run, called by `cmag train` or by the locked retrain   *)
(* of a tuning run, and evaluate_saved_run on the validation or on the     *)
(* locked test partition (rl/workflow.py), each closing with a manifest    *)
(* that hashes every file it finds (audit/run_manifest.py).                *)
(*                                                                         *)
(* A file is opened, which truncates it, and later closed.  A process may  *)
(* be killed anywhere, and several may work in the directory at a time.    *)
(* The isolated GUI backtest reads the directory and writes elsewhere: it  *)
(* is not an action.                                                       *)
(***************************************************************************)
EXTENDS Naturals, Sequences, FiniteSets

CONSTANTS
    Trainers,      \* invocations of `cmag train`
    Retrainers,    \* invocations of `cmag tune` that reach the locked retrain
    Validators,    \* evaluations of the validation partition
    Testers,       \* evaluations of the locked test partition
    Nobody,        \* the writer of a file that does not exist
    Concurrent,    \* how many processes may be at work at a time
    MaxCrashes     \* bound: processes killed in one behaviour

Procs == Trainers \cup Retrainers \cup Validators \cup Testers

ASSUME RunAssumption ==
    /\ IsFiniteSet(Procs) /\ Nobody \notin Procs
    /\ (Trainers \cup Retrainers) \cap (Validators \cup Testers) = {}
    /\ Trainers \cap Retrainers = {} /\ Validators \cap Testers = {}
    /\ Concurrent \in Nat \ {0} /\ MaxCrashes \in Nat

VARIABLES
    files,         \* the files of the run directory
    manifest,      \* run_manifest.json: {} or what it says of every file
    proc,          \* the processes
    locked,        \* locked_parameters.json of the tuning run exists
    crashes

vars == <<files, manifest, proc, locked, crashes>>

-----------------------------------------------------------------------------
ValidationFiles == <<"val_metrics", "val_trades", "val_weights">>
TestFiles == <<"test_metrics", "test_trades", "test_weights">>

\* The files execute_training_run leaves, in the order it writes them: the
\* trainer's final_model.zip and training_artifact.json, the validation
\* results, resolved_config.json and run_summary.json.
TrainingFiles ==
    <<"model", "artifact">> \o ValidationFiles \o <<"config", "summary">>

Names == {TrainingFiles[i] : i \in DOMAIN TrainingFiles}
            \cup {TestFiles[i] : i \in DOMAIN TestFiles}

\* A file: the process that wrote it, the training that made the model it is
\* about, and whether it was closed.
Content == [by: Procs \cup {Nobody}, model: Procs \cup {Nobody}, whole: BOOLEAN]
Missing == [by |-> Nobody, model |-> Nobody, whole |-> FALSE]

Exists(f) == files[f] # Missing
Whole(f) == files[f].whole

Working == {"checked", "writing", "hashing", "manifest", "manifest_open"}

Process ==
    [step: {"idle", "raised", "over"} \cup Working,
     todo: Seq(Names), open: BOOLEAN,
     model: Procs \cup {Nobody}, seen: SUBSET [Names -> Content]]

TypeOK ==
    /\ files \in [Names -> Content]
    /\ manifest \subseteq [Names -> Content] /\ Cardinality(manifest) <= 1
    /\ proc \in [Procs -> Process]
    /\ locked \in BOOLEAN
    /\ crashes \in 0..MaxCrashes

AtWork == {p \in Procs : proc[p].step \in Working}

Init ==
    /\ files = [f \in Names |-> Missing]
    /\ manifest = {}
    /\ proc = [p \in Procs |-> [step |-> "idle", todo |-> <<>>, open |-> FALSE,
                                model |-> Nobody, seen |-> {}]]
    /\ locked = FALSE
    /\ crashes = 0

-----------------------------------------------------------------------------
\* Mutant: only a finished run counts as existing.
SummaryExists == Exists("summary")

\* "run already exists"
TrainedBefore == Exists("artifact")

\* Mutant: the metrics of an earlier test are not looked for.
ConfigReadable(p) == Whole("config")

\* Mutant: the checkpoint is enough to evaluate a run.
ConfigNotNeeded(p) ==
    /\ Whole("model")
    /\ p \in Testers => ~Exists("test_metrics")

\* resolved_config.json must be there and valid; test/metrics.json must not.
MayEvaluate(p) ==
    /\ Whole("config")
    /\ p \in Testers => ~Exists("test_metrics")

May(p) ==
    IF p \in Trainers \cup Retrainers THEN ~TrainedBefore ELSE MayEvaluate(p)

\* Mutant: any file of that name is taken for the result.
SummaryFound == Exists("summary")

\* The summary of an earlier retrain is validated before it is used.
SummaryUsable == Whole("summary")

\* A command is started and makes its checks; one that fails them raises.
\* The locked retrain first looks for run_summary.json.
Start(p) ==
    /\ proc[p].step = "idle"
    /\ Cardinality(AtWork) < Concurrent
    /\ IF p \in Retrainers /\ Exists("summary")
       THEN /\ proc' = [proc EXCEPT
                           ![p].step = IF SummaryUsable THEN "over" ELSE "raised"]
            /\ locked' = (locked \/ SummaryUsable)
       ELSE /\ proc' = [proc EXCEPT ![p].step = IF May(p) THEN "checked" ELSE "raised"]
            /\ UNCHANGED locked
    /\ UNCHANGED <<files, manifest, crashes>>

\* A command that raised can be repeated.
Repeat(p) ==
    /\ proc[p].step = "raised"
    /\ proc' = [proc EXCEPT ![p].step = "idle"]
    /\ UNCHANGED <<files, manifest, locked, crashes>>

\* Mutant: the summary is written first.
SummaryFirst ==
    <<"summary", "model", "artifact">> \o ValidationFiles \o <<"config">>

\* What execute_training_run and write_evaluation_artifacts are going to write.
TrainingOrder == TrainingFiles

Output(p) ==
    IF p \in Trainers \cup Retrainers THEN TrainingOrder
    ELSE IF p \in Testers THEN TestFiles ELSE ValidationFiles

\* The computation: training makes a model of its own, an evaluation loads
\* the checkpoint and fails if that is not a complete archive.
Compute(p) ==
    LET training == p \in Trainers \cup Retrainers
    IN  /\ proc[p].step = "checked"
        /\ proc' = IF training \/ Whole("model")
                   THEN [proc EXCEPT
                            ![p].step = "writing", ![p].todo = Output(p),
                            ![p].model = IF training THEN p
                                         ELSE files["model"].by]
                   ELSE [proc EXCEPT ![p].step = "raised"]
        /\ UNCHANGED <<files, manifest, locked, crashes>>

OpenFile(p) ==
    /\ proc[p].step = "writing" /\ ~proc[p].open
    /\ files' = [files EXCEPT ![Head(proc[p].todo)] =
                    [by |-> p, model |-> proc[p].model, whole |-> FALSE]]
    /\ proc' = [proc EXCEPT ![p].open = TRUE]
    /\ UNCHANGED <<manifest, locked, crashes>>

CloseFile(p) ==
    LET rest == Tail(proc[p].todo)
    IN  /\ proc[p].step = "writing" /\ proc[p].open
        /\ files' = [files EXCEPT ![Head(proc[p].todo)] =
                        [by |-> p, model |-> proc[p].model, whole |-> TRUE]]
        /\ proc' = [proc EXCEPT
                       ![p].open = FALSE, ![p].todo = rest,
                       ![p].step = IF rest = <<>> THEN "hashing" ELSE @]
        /\ UNCHANGED <<manifest, locked, crashes>>

\* Mutant: the test results are not part of the manifest.
WithoutTests ==
    [f \in Names |-> IF f \in {"test_metrics", "test_trades", "test_weights"}
                     THEN Missing ELSE files[f]]

\* Mutant: the manifest does not leave itself out.
WithManifest ==
    [f \in Names \cup {"manifest"} |->
        IF f = "manifest" THEN Missing ELSE files[f]]

\* What write_run_manifest finds under the directory.
Hashed == files

\* write_run_manifest: hash every file, then replace the manifest.
HashFiles(p) ==
    /\ proc[p].step = "hashing"
    /\ proc' = [proc EXCEPT ![p].step = "manifest", ![p].seen = {Hashed}]
    /\ UNCHANGED <<files, manifest, locked, crashes>>

OpenManifest(p) ==
    /\ proc[p].step = "manifest"
    /\ manifest' = {}
    /\ proc' = [proc EXCEPT ![p].step = "manifest_open"]
    /\ UNCHANGED <<files, locked, crashes>>

\* The command returns; that of a retrain goes on to lock the parameters.
CloseManifest(p) ==
    /\ proc[p].step = "manifest_open"
    /\ manifest' = proc[p].seen
    /\ proc' = [proc EXCEPT ![p].step = "over", ![p].seen = {},
                            ![p].model = Nobody]
    /\ locked' = (locked \/ p \in Retrainers)
    /\ UNCHANGED <<files, crashes>>

-----------------------------------------------------------------------------
Crash(p) ==
    /\ p \in AtWork
    /\ crashes < MaxCrashes
    /\ crashes' = crashes + 1
    /\ proc' = [proc EXCEPT ![p].step = "over", ![p].todo = <<>>,
                            ![p].open = FALSE, ![p].model = Nobody,
                            ![p].seen = {}]
    /\ UNCHANGED <<files, manifest, locked>>

Work(p) ==
    \/ Start(p) \/ Repeat(p) \/ Compute(p) \/ OpenFile(p) \/ CloseFile(p)
    \/ HashFiles(p) \/ OpenManifest(p) \/ CloseManifest(p)

Next == \E p \in Procs : Work(p) \/ Crash(p)

Spec == Init /\ [][Next]_vars

\* Started commands run on, and one that raised is repeated.
FairSpec == Spec /\ \A p \in Procs : WF_vars(Work(p))

-----------------------------------------------------------------------------
(***************************************************************************)
(* Properties                                                              *)
(***************************************************************************)

\* A run that has a summary has the model, the artifact record and the
\* configuration that summary describes, all from one training: no crash and
\* no repeated command leaves a summary over another training's model.
SummaryDescribesRun ==
    Whole("summary") =>
        \A f \in {"model", "artifact", "config"} :
            Whole(f) /\ files[f].by = files["summary"].by

\* Test results, even partial ones, are about the model that lies beside
\* them, and that model belongs to a training that locked its configuration
\* first: nothing retrains under a result of the locked test.
TestOfFinalModel ==
    \A f \in {"test_metrics", "test_trades", "test_weights"} :
        Exists(f) =>
            /\ Whole("model") /\ Whole("artifact") /\ Whole("config")
            /\ files[f].model = files["model"].by
            /\ files["model"].by = files["artifact"].by

\* "A second test evaluation is rejected instead of overwriting the first
\* result": no file of the locked test is replaced once it is written.
TestWrittenOnce ==
    [][\A f \in {"test_metrics", "test_trades", "test_weights"} :
          Whole(f) => files'[f] = files[f]]_vars

\* When every command came to its end, the manifest verifies: it names every
\* file with the content the file has.
ManifestVerifies ==
    AtWork = {} /\ crashes = 0 /\ manifest # {} => manifest = {files}

\* Locked parameters name a checkpoint that a complete training left: whatever
\* was killed before, its model, record, configuration and summary are whole.
LockedCheckpointComplete ==
    locked => \A f \in {"model", "artifact", "config", "summary"} : Whole(f)

\* A tuning run locks its parameters: a command that is repeated until it
\* succeeds ("Run/resume HPO ... and lock selected parameters") succeeds.
RetrainLocks == <>locked
=============================================================================
