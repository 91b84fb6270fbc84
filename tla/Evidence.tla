------------------------------ MODULE Evidence ------------------------------
(***************************************************************************)
(* What the project publishes about itself: the universe of the data and   *)
(* the formal runs, the benchmark made of them, replays of training runs,  *)
(* reports, and the files of a release.  Each works on a directory of its  *)
(* own, so a behaviour picks one part and leaves the others.               *)
(***************************************************************************)
EXTENDS Integers, Sequences

CONSTANTS Parts,                                       \* which of the parts below there are
          Tasks, Kinds, Executors, MinSeeds, ProviderOnly, MaxTampering,    \* FormalRuns
          Files, SymbolOf, Histories, Cutoff, Assets, HeldOut, MaxReplaced, \* DatasetUniverse
          Builders,              \* of snapshots, of benchmarks and of reports
          Runs, AgentRuns, HpoRuns, Packages, Exporters, PayloadRequired, MaxEdits, \* Benchmark
          Sources, Replays, Named, Metrics, Absolute, Relative, Minimum,
          Multiplier, MaxRenewals,                                          \* Reproduction
          Directories, Held, Requests, MaxRuns,                             \* Reports
          MaxChanges,            \* of the runs a report reads
          Documents, Content, Writers, MaxCommits                           \* ReleaseFiles

VARIABLES kind, protocol, commit, matrix, tampering, executor, run, collector, review, \* FormalRuns
          files, inventory, snapshot, copier, replaced,                    \* DatasetUniverse
          package, edits, build, destination, export,                      \* Benchmark
          source, replay, directory,                                       \* Reproduction
          held, changes, builder, pages, manifest, mixed,                  \* Reports
          code, documents, inventories, checksums, benchmark, ancestor,
          stable, writer, commits,                                         \* ReleaseFiles
          part

Formal == INSTANCE FormalRuns WITH MaxChanges <- MaxTampering, changes <- tampering
Data == INSTANCE DatasetUniverse
  WITH MaxChanges <- MaxReplaced, source <- files, builder <- copier, changes <- replaced
Bench == INSTANCE Benchmark
Replay == INSTANCE Reproduction WITH MaxChanges <- MaxRenewals
Report == INSTANCE Reports WITH files <- pages
Release == INSTANCE ReleaseFiles WITH MaxEdits <- MaxCommits, edits <- commits

EvidenceAssumption ==
  /\ Formal!FormalAssumption /\ Data!DataAssumption /\ Bench!BenchAssumption
  /\ Replay!ReplayAssumption /\ Report!ReportAssumption /\ Release!ReleaseAssumption

runVars == <<kind, protocol, commit, matrix, tampering, executor, run, collector, review>>
dataVars == <<files, inventory, snapshot, copier, replaced>>
benchVars == <<package, edits, build, destination, export>>
replayVars == <<source, replay, directory>>
reportVars == <<held, changes, builder, pages, manifest, mixed>>
releaseVars ==
  <<code, documents, inventories, checksums, benchmark, ancestor, stable, writer, commits>>
experimentVars == <<runVars, dataVars, benchVars>>
publishedVars == <<replayVars, reportVars, releaseVars>>
evidenceVars == <<experimentVars, publishedVars, part>>

EvidenceInit ==
  /\ part \in Parts
  /\ Formal!Init /\ Data!Init /\ Bench!Init /\ Replay!Init /\ Report!Init /\ Release!Init

EvidenceNext ==
  /\ UNCHANGED part
  /\ \/ /\ UNCHANGED publishedVars
        /\ \/ part = "runs" /\ Formal!Next /\ UNCHANGED <<dataVars, benchVars>>
           \/ part = "universe" /\ Data!Next /\ UNCHANGED <<runVars, benchVars>>
           \/ part = "benchmark" /\ Bench!Next /\ UNCHANGED <<runVars, dataVars>>
     \/ /\ UNCHANGED experimentVars
        /\ \/ part = "replays" /\ Replay!Next /\ UNCHANGED <<reportVars, releaseVars>>
           \/ part = "reports" /\ Report!Next /\ UNCHANGED <<replayVars, releaseVars>>
           \/ part = "release" /\ Release!Next /\ UNCHANGED <<replayVars, reportVars>>

EvidenceSpec == EvidenceInit /\ [][EvidenceNext]_evidenceVars

\* Every part is well typed in every state of its own behaviours.
EvidenceTypes ==
  /\ part = "runs" => Formal!TypeOK
  /\ part = "universe" => Data!TypeOK
  /\ part = "benchmark" => Bench!TypeOK
  /\ part = "replays" => Replay!TypeOK
  /\ part = "reports" => Report!TypeOK
  /\ part = "release" => Release!TypeOK

\* The locked test is made once, after its lock, by one executor, and counted
\* (experiments/runner.py, audit.py, aggregation.py).
FormalRunsHonest == part = "runs" => Formal!FormalRunsHonest
\* The universe does not look past its cutoff, and the snapshot is that universe
\* (experiments/source_inventory.py, dataset_snapshot.py).
UniverseSound == part = "universe" => Data!UniverseSound
\* Replays share no directory, and their verdicts are justified and on disk
\* (release/reproduction.py).
ReplaysJustified == part = "replays" => Replay!ReplaysJustified
\* A benchmark, a report or a release that verifies is of one build and is what
\* it says (benchmarking/core.py, reporting/workflow.py, release/freeze.py).
PublicationsSound ==
  /\ part = "benchmark" => Bench!BenchmarkSound
  /\ part = "reports" => Report!ReportSound
  /\ part = "release" => Release!ReleaseSound
=============================================================================
