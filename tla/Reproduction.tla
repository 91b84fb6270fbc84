---------------------------- MODULE Reproduction ----------------------------
(***************************************************************************)
(* Computational replay of a training run (release/reproduction.py).  A    *)
(* replay verifies the artifacts of its source run, snapshots their        *)
(* digests, takes a fresh directory below runs/reproductions, retrains,    *)
(* compares, and leaves a report and a manifest there; any of its writes   *)
(* may fail, those of its failure handler too.  A killed replay is one     *)
(* that takes no further step.  Several replays and the source run itself  *)
(* (its locked test, a new training under the same name) go on at once.    *)
(*                                                                         *)
(* One metric stands for the five that are compared, an integer; digests   *)
(* are versions; the required invariants are one Boolean of a training.    *)
(***************************************************************************)
EXTENDS Integers, FiniteSets, FiniteSetsExt

CONSTANTS Sources,                \* source runs to start from
          Replays,                \* calls of execute_training_replay
          Named,                  \* identifiers a caller may ask for
          Metrics,                \* values of the compared metric
          Absolute, Relative,     \* tolerances, the second in percent
          Minimum, Multiplier,    \* of the statistical rule
          MaxChanges              \* bound: changes of the source run

VARIABLES source, replay, directory

reproductionVars == <<source, replay, directory>>

ReplayAssumption ==
  /\ IsFiniteSet(Replays)
  /\ Sources \subseteq [version : {1}, sealed : {0, 1}, metric : Metrics,
                        kind : {"training", "agent"}, consistent : BOOLEAN]
  /\ Named \subseteq 1..Cardinality(Replays)
  /\ Minimum \in Nat /\ MaxChanges \in Nat

Ids == 1..Cardinality(Replays)
Levels == {"bitwise", "numerical", "statistical", "failed"}
NoReport == [level |-> "none", executed |-> FALSE, invariants |-> FALSE, metric |-> 0]
FailedReport == [NoReport EXCEPT !.level = "failed"]
Torn == [NoReport EXCEPT !.level = "torn"]      \* cut short: nobody can read it
Fresh == [pc |-> "idle", id |-> 0, snapshot |-> 0, trained |-> NoReport, bytes |-> FALSE, level |-> "none"]

(***************************************************************************)
(* A manifest: its status ("torn" when it cannot be read), and whether the *)
(* digests it lists are those of the files now beside it, so that          *)
(* verify_run_manifest accepts it.                                         *)
(***************************************************************************)
Manifest(status, sealed) == [status |-> status, sealed |-> sealed]
NoManifest == Manifest("none", FALSE)
TornManifest == Manifest("torn", FALSE)
Vacant == [exists |-> FALSE, report |-> NoReport, manifest |-> NoManifest]

(***************************************************************************)
(* The source run: the version of its files, the version its manifest      *)
(* lists (0 before there were manifests), its metric, and whether the      *)
(* specialised checks of its kind (configuration, data set and trainer     *)
(* identities, checkpoint archive) pass.                                   *)
(***************************************************************************)
ManifestVerified(s) == s.sealed \in {0, s.version}
ArtifactsVerified(s) == ManifestVerified(s) /\ s.consistent

Init ==
  /\ source \in Sources
  /\ replay = [r \in Replays |-> Fresh]
  /\ directory = [i \in Ids |-> Vacant]

(***************************************************************************)
(* What else happens to the source: its locked test adds files and only    *)
(* then renews the manifest; or it is removed and trained again.           *)
(***************************************************************************)
Evaluate ==
  /\ source.version <= MaxChanges /\ source.kind = "training"
  /\ source' = [source EXCEPT !.version = @ + 1]
  /\ UNCHANGED <<replay, directory>>

Seal ==
  /\ source.sealed \notin {0, source.version}
  /\ source' = [source EXCEPT !.sealed = source.version]
  /\ UNCHANGED <<replay, directory>>

Retrain ==
  /\ source.version <= MaxChanges /\ source.kind = "training"
  /\ \E m \in Metrics :
       source' = [source EXCEPT !.version = @ + 1, !.sealed = source.version + 1,
                                !.metric = m, !.consistent = TRUE]
  /\ UNCHANGED <<replay, directory>>

(***************************************************************************)
(* verify_run_artifacts, before anything is written: a run of another kind *)
(* or one that does not verify is reported as failed.                      *)
(***************************************************************************)
Verify(r) ==
  /\ replay[r].pc = "idle"
  /\ replay' = [replay EXCEPT ![r] =
       IF ArtifactsVerified(source) /\ source.kind = "training"
         THEN [@ EXCEPT !.pc = "verified"]
         ELSE [@ EXCEPT !.pc = "refused", !.level = "failed"]]
  /\ UNCHANGED <<source, directory>>

Snapshot(r) ==
  /\ replay[r].pc = "verified"
  /\ replay' = [replay EXCEPT ![r].pc = "snapshot", ![r].snapshot = source.version]
  /\ UNCHANGED <<source, directory>>

(***************************************************************************)
(* The first free number of the sequence, or the identifier asked for; a   *)
(* directory that exists is never taken over.                              *)
(***************************************************************************)
FirstFree == Min({i \in Ids : ~directory[i].exists})

AllocateDirectory(r, i) ==
  /\ replay[r].pc = "snapshot"
  /\ ~directory[i].exists
  /\ directory' = [directory EXCEPT ![i].exists = TRUE]
  /\ replay' = [replay EXCEPT ![r].pc = "training", ![r].id = i]
  /\ UNCHANGED source

AllocateNext(r) == AllocateDirectory(r, FirstFree)
AllocateNamed(r) == \E i \in Named : AllocateDirectory(r, i)

NameTaken(r) ==
  /\ replay[r].pc = "snapshot"
  /\ \E i \in Named : directory[i].exists
  /\ replay' = [replay EXCEPT ![r].pc = "raised"]
  /\ UNCHANGED <<source, directory>>

(***************************************************************************)
(* The training, with the manifest execute_training_run writes for it,     *)
(* which says "completed".  The same bytes carry the same validation       *)
(* metrics.                                                                *)
(***************************************************************************)
Train(r) ==
  /\ replay[r].pc = "training"
  /\ \E m \in Metrics, same \in BOOLEAN, sound \in BOOLEAN :
       /\ same => m = source.metric
       /\ replay' = [replay EXCEPT ![r].pc = "trained", ![r].bytes = same,
            ![r].trained = [level |-> "none", executed |-> TRUE, invariants |-> sound, metric |-> m]]
  /\ directory' = [directory EXCEPT ![replay[r].id].manifest = Manifest("completed", TRUE)]
  /\ UNCHANGED source

(***************************************************************************)
(* Comparisons: one replay by its difference, several by their mean and    *)
(* standard error,                                                         *)
(*    |source - mean| <= base + Multiplier * deviation / sqrt(count),      *)
(* in hundredths, squared and cleared of denominators: a, b are the sums   *)
(* over n replays of the metric of the source and of the replays.          *)
(***************************************************************************)
Distance(a, b) == IF a < b THEN b - a ELSE a - b
Effective(n, a, b) == Max({100 * n * Absolute, Relative * Max({a, b})})
CompareMetrics(a, b) == 100 * Distance(a, b) <= Effective(1, a, b)

\* Mutant: replays that broke an invariant are samples too
AnyPriorReplays(i) == {j \in Ids \ {i} : directory[j].report.executed}

PriorReplays(i) ==
  {j \in Ids \ {i} : directory[j].report.executed /\ directory[j].report.invariants}

CompareStatistically(i, own) ==
  LET samples == PriorReplays(i) \cup {i}
      Value(j) == IF j = i THEN own ELSE directory[j].report.metric
      n == Cardinality(samples)
      sum == MapThenSumSet(Value, samples)
      squares == MapThenSumSet(LAMBDA j : Value(j) * Value(j), samples)
      excess == 100 * Distance(n * source.metric, sum) - Effective(n, n * source.metric, sum)
  IN  /\ n >= Minimum
      /\ \/ excess <= 0
         \/ excess * excess * (n - 1) <= 10000 * Multiplier * Multiplier * (n * squares - sum * sum)

ClassifyReproduction(bitwise, numerical, invariants, statistical, unchanged) ==
  IF ~unchanged THEN "failed"
  ELSE IF bitwise THEN "bitwise"
  ELSE IF numerical THEN "numerical"
  ELSE IF invariants /\ statistical THEN "statistical"
  ELSE "failed"

\* its summary is rewritten first, so that the training's manifest no longer matches
Compare(r) ==
  /\ replay[r].pc = "trained"
  /\ LET t == replay[r].trained
     IN  replay' = [replay EXCEPT ![r].pc = "compared", ![r].level =
           ClassifyReproduction(t.invariants /\ replay[r].bytes,
                                t.invariants /\ CompareMetrics(source.metric, t.metric),
                                t.invariants,
                                CompareStatistically(replay[r].id, t.metric),
                                replay[r].snapshot = source.version)]
  /\ directory' = [directory EXCEPT ![replay[r].id].manifest.sealed = FALSE]
  /\ UNCHANGED source

VerdictReport(r) == [replay[r].trained EXCEPT !.level = replay[r].level]

WriteReport(r) ==
  /\ replay[r].pc = "compared"
  /\ directory' = [directory EXCEPT ![replay[r].id].report = VerdictReport(r)]
  /\ replay' = [replay EXCEPT ![r].pc = "reported"]
  /\ UNCHANGED source

\* Mutant: the status of a manifest stays at its default
DefaultManifest(r) == Manifest("completed", TRUE)

VerdictManifest(r) ==
  Manifest(IF replay[r].level # "failed" THEN "completed" ELSE "failed", TRUE)

WriteManifest(r) ==
  /\ replay[r].pc = "reported"
  /\ directory' = [directory EXCEPT ![replay[r].id].manifest = VerdictManifest(r)]
  /\ replay' = [replay EXCEPT ![r].pc = "done"]
  /\ UNCHANGED source

(***************************************************************************)
(* Any exception from the training to the manifest.  The manifest it finds *)
(* is the one before the step that raised, or what that step wrote of one. *)
(* A failed report takes the place of one written before, without          *)
(* comparisons; then the manifest is attempted and its failure ignored.    *)
(***************************************************************************)
Working(r) == replay[r].pc \in {"training", "trained", "compared", "reported"}

Left(r) ==
  LET old == directory[replay[r].id].manifest
  IN  {old, [old EXCEPT !.sealed = FALSE]}
      \cup (IF replay[r].pc = "training" THEN {TornManifest, Manifest("completed", TRUE)} ELSE {})
      \cup (IF replay[r].pc = "reported" THEN {TornManifest, VerdictManifest(r)} ELSE {})

Handled(r) == [FailedReport EXCEPT !.executed = replay[r].pc # "training"]

Fail(r) ==
  /\ Working(r)
  /\ \E left \in Left(r) :
       \E written \in {Manifest("failed", TRUE), TornManifest, [left EXCEPT !.sealed = FALSE]} :
         directory' = [directory EXCEPT ![replay[r].id] =
           [@ EXCEPT !.manifest = written, !.report = Handled(r)]]
  /\ replay' = [replay EXCEPT ![r].pc = "done", ![r].level = "failed"]
  /\ UNCHANGED source

(***************************************************************************)
(* The handler's own snapshot of the source, audit or report fails: the    *)
(* caller gets the exception and no verdict.  The report that stays is the *)
(* one before, a torn one, or one whose write was all but done.            *)
(***************************************************************************)
Lose(r) ==
  /\ Working(r)
  /\ \E left \in Left(r), report \in {directory[replay[r].id].report, Torn, Handled(r)}
                              \cup (IF replay[r].pc = "compared" THEN {VerdictReport(r)} ELSE {}) :
       /\ left.sealed => report = directory[replay[r].id].report
       /\ directory' = [directory EXCEPT ![replay[r].id] =
            [@ EXCEPT !.manifest = left, !.report = report]]
  /\ replay' = [replay EXCEPT ![r].pc = "lost"]
  /\ UNCHANGED source

ReplayStep(r) ==
  \/ Verify(r) \/ Snapshot(r) \/ AllocateNext(r) \/ AllocateNamed(r) \/ NameTaken(r)
  \/ Train(r) \/ Compare(r) \/ WriteReport(r) \/ WriteManifest(r) \/ Fail(r)
  \/ Lose(r)

Next == Evaluate \/ Seal \/ Retrain \/ \E r \in Replays : ReplayStep(r)

Spec == Init /\ [][Next]_reproductionVars

(***************************************************************************)
(* Properties.                                                             *)
(***************************************************************************)
TypeOK ==
  /\ source \in [version : 1..(MaxChanges + 1), sealed : 0..(MaxChanges + 1), metric : Metrics,
                 kind : {"training", "agent"}, consistent : BOOLEAN]
  /\ \A r \in Replays : replay[r].id \in Ids \cup {0} /\ replay[r].level \in Levels \cup {"none"}
  /\ \A i \in Ids : directory[i].manifest \in
       [status : {"none", "torn", "completed", "failed"}, sealed : BOOLEAN]

Reproduced(r) == replay[r].level \in Levels \ {"failed"}

(***************************************************************************)
(* No two replays share a directory.  A replay that returns has left its   *)
(* verdict there, and one that reproduced its source a manifest besides    *)
(* that verifies and says "completed".  Whatever failed, in whatever order *)
(* others ran, and in every directory, even of a replay that was killed or *)
(* lost: a manifest that verifies beside a verdict says "completed" if and *)
(* only if that verdict is not "failed".  And a replay reproduced by its   *)
(* statistics alone is one of at least Minimum that trained and kept every *)
(* invariant.                                                              *)
(***************************************************************************)
Comparable(q) == replay[q].trained.executed /\ replay[q].trained.invariants

ReplaysJustified ==
  /\ \A q, r \in Replays : q # r /\ replay[q].id # 0 => replay[q].id # replay[r].id
  /\ \A r \in Replays :
       /\ replay[r].pc = "done" =>
            LET place == directory[replay[r].id]
            IN  /\ place.report.level = replay[r].level
                /\ Reproduced(r) => place.manifest = Manifest("completed", TRUE)
       /\ replay[r].level = "statistical" => Cardinality({q \in Replays : Comparable(q)}) >= Minimum
  /\ \A i \in Ids :
       directory[i].manifest.sealed /\ directory[i].report.level \in Levels =>
         (directory[i].manifest.status = "completed" <=> directory[i].report.level # "failed")
=============================================================================
