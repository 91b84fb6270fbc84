----------------------------- MODULE Benchmark ------------------------------
(***************************************************************************)
(* The benchmark artifact (benchmarking/core.py): built in a temporary     *)
(* directory next to its destination from a review package of formal runs, *)
(* verified there, moved into place in one step, and then sealed if the    *)
(* caller wants it sealed.  Tables and figures are exported from a         *)
(* benchmark that verifies.                                                *)
(*                                                                         *)
(* The package is on disk and so may change while a build reads it; the    *)
(* destination may be edited until it is sealed; builds and exports run    *)
(* at once, any step of a build may raise, and a process that is killed    *)
(* takes no further step.                                                  *)
(***************************************************************************)
EXTENDS Integers, FiniteSets

CONSTANTS Runs,                   \* run identifiers of the matrix
          AgentRuns, HpoRuns,     \* those of groups E and F
          Packages,               \* review packages to start from
          Builders, Exporters,
          PayloadRequired,        \* the run count is the one of the full matrix
          MaxEdits                \* bound: edits of the package, of the destination

VARIABLES package, edits, build, destination, export

benchmarkVars == <<package, edits, build, destination, export>>

(***************************************************************************)
(* What a run of the package recorded of itself.                           *)
(***************************************************************************)
RunRecords ==
  [recorded : BOOLEAN,            \* its task is the one of the matrix
   status : {"completed", "failed"}, explained : BOOLEAN,
   result : BOOLEAN,              \* result.json is there
   replay : BOOLEAN,              \* so is the replay of its agents
   study : BOOLEAN,               \* and the report of its study
   tests : 0..2,                  \* locked-test evaluations
   isolated : BOOLEAN,            \* no test metric in sight of the search
   formal : BOOLEAN, developed : BOOLEAN]

PackageRecord ==
  [runs : [Runs -> RunRecords], metrics : SUBSET UNION {p.metrics : p \in Packages},
   payload : {"matching", "different", "absent"}, identities : BOOLEAN, checksums : BOOLEAN]

BenchAssumption ==
  /\ Packages \subseteq PackageRecord
  /\ HpoRuns \subseteq Runs /\ MaxEdits \in Nat

\* what a build has written: the rows of runs.csv, the audited studies, the runs
\* behind tables and figures, the payload
Staged == [rows |-> <<>>, audited |-> <<>>, metrics |-> {}, payload |-> "absent"]
Idle == [pc |-> "idle", seal |-> FALSE, staged |-> Staged, temporary |-> FALSE]
Nowhere == [exists |-> FALSE, by |-> "none", staged |-> Staged, intact |-> TRUE, writable |-> TRUE]

Init ==
  /\ package \in Packages
  /\ edits = 0
  /\ build = [b \in Builders |-> Idle]
  /\ destination = Nowhere
  /\ export = [e \in Exporters |-> "idle"]

\* files of the package change, which its checksums give away
EditPackage ==
  /\ edits < MaxEdits /\ edits' = edits + 1
  /\ \E other \in Packages :
       package' = [other EXCEPT !.checksums = FALSE]
  /\ UNCHANGED <<build, destination, export>>

\* so does one of the benchmark, until its permissions are taken away
EditDestination ==
  /\ edits < MaxEdits /\ edits' = edits + 1
  /\ destination.exists /\ destination.writable
  /\ destination' = [destination EXCEPT !.intact = FALSE]
  /\ UNCHANGED <<package, build, export>>

(***************************************************************************)
(* Before a byte is written: nothing at the destination, a package whose   *)
(* checksums hold, the frozen protocol and data set of its matrix.         *)
(***************************************************************************)
VerifySourcePackage == package.checksums
IdentitiesAgree == package.identities

Begin(b) ==
  /\ build[b].pc = "idle"
  /\ ~destination.exists /\ VerifySourcePackage /\ IdentitiesAgree
  /\ \E seal \in BOOLEAN :
       build' = [build EXCEPT ![b] = [@ EXCEPT !.pc = "staging", !.seal = seal, !.temporary = TRUE]]
  /\ UNCHANGED <<package, edits, destination, export>>

Reject(b) ==
  /\ build[b].pc = "idle"
  /\ destination.exists \/ ~VerifySourcePackage \/ ~IdentitiesAgree
  /\ build' = [build EXCEPT ![b].pc = "raised"]
  /\ UNCHANGED <<package, edits, destination, export>>

(***************************************************************************)
(* Every run of the matrix has its records, a failed one an explanation, a *)
(* run of agents its replay; their digests enter the index.                *)
(***************************************************************************)
Explained(run) == run.status = "completed" \/ run.explained

FormalRun(r) ==
  LET run == package.runs[r]
  IN  /\ run.recorded /\ run.result /\ Explained(run)
      /\ r \in AgentRuns => run.replay

IndexRuns(b) ==
  /\ build[b].pc = "staging"
  /\ \A r \in Runs : FormalRun(r)
  /\ build' = [build EXCEPT ![b] =
       [@ EXCEPT !.pc = "indexed", !.staged.rows = package.runs]]
  /\ UNCHANGED <<package, edits, destination, export>>

(***************************************************************************)
(* Then their logs are copied, the studies that left a report audited, the *)
(* tables and figures derived from the metrics of the package, and the     *)
(* payload of one run taken if its digests are those of the run.           *)
(***************************************************************************)
\* Mutant: any run that left a study is audited as a search
AnyStudies == {r \in Runs : package.runs[r].result /\ package.runs[r].study}

TuningLogs == {r \in HpoRuns : package.runs[r].result /\ package.runs[r].study}

CopyEvidence(b) ==
  /\ build[b].pc = "indexed"
  /\ package.payload # "different"
  /\ build' = [build EXCEPT ![b] = [@ EXCEPT !.pc = "copied",
       !.staged.audited = [r \in TuningLogs |-> package.runs[r]],
       !.staged.metrics = package.metrics, !.staged.payload = package.payload]]
  /\ UNCHANGED <<package, edits, destination, export>>

(***************************************************************************)
(* verify_benchmark: the digests of checksums.json, one identity and an    *)
(* explanation for every run, searches that never saw the test, logs of    *)
(* every agent run, known runs behind every table, the payload.            *)
(***************************************************************************)
RunsCorrespond(staged) ==
  /\ DOMAIN staged.rows # {}
  /\ \A r \in DOMAIN staged.rows :
       Explained(staged.rows[r]) /\ staged.rows[r].formal /\ ~staged.rows[r].developed

HpoIsolated(staged) ==
  /\ DOMAIN staged.audited # {}
  /\ \A r \in DOMAIN staged.audited : staged.audited[r].isolated /\ staged.audited[r].tests = 1

AgentsLogged(staged) == AgentRuns # {} /\ \A r \in AgentRuns : staged.rows[r].replay
ProvenanceKnown(staged) == staged.metrics \subseteq DOMAIN staged.rows
PayloadShown(staged) == PayloadRequired => staged.payload = "matching"

VerifyBenchmark(staged, intact) ==
  /\ intact
  /\ RunsCorrespond(staged) /\ HpoIsolated(staged) /\ AgentsLogged(staged)
  /\ ProvenanceKnown(staged) /\ PayloadShown(staged)

VerifyStaged(b) ==
  /\ build[b].pc = "copied"
  /\ VerifyBenchmark(build[b].staged, TRUE)
  /\ build' = [build EXCEPT ![b].pc = "verified"]
  /\ UNCHANGED <<package, edits, destination, export>>

Moved(b) ==
  /\ destination' = [exists |-> TRUE, by |-> b, staged |-> build[b].staged,
                     intact |-> TRUE, writable |-> TRUE]
  /\ build' = [build EXCEPT ![b] = [@ EXCEPT !.pc = "published", !.temporary = FALSE]]
  /\ UNCHANGED <<package, edits, export>>

\* Mutant: the directory in place is overwritten
PublishOver(b) == build[b].pc = "verified" /\ Moved(b)

\* os.replace does not move a directory onto one that has files
Publish(b) ==
  /\ build[b].pc = "verified"
  /\ ~destination.exists
  /\ Moved(b)

Seal(b) ==
  /\ build[b].pc = "published" /\ build[b].seal
  /\ destination' = [destination EXCEPT !.writable = FALSE]
  /\ build' = [build EXCEPT ![b].pc = "sealed"]
  /\ UNCHANGED <<package, edits, export>>

\* anything raised from the staging to the sealing: the temporary directory goes
Abort(b) ==
  /\ build[b].pc \in {"staging", "indexed", "copied", "verified", "published"}
  /\ build' = [build EXCEPT ![b] = [@ EXCEPT !.pc = "raised", !.temporary = FALSE]]
  /\ UNCHANGED <<package, edits, destination, export>>

\* what is in place is verified once more and the outcome returned
Return(b) ==
  /\ build[b].pc = IF build[b].seal THEN "sealed" ELSE "published"
  /\ build' = [build EXCEPT ![b].pc =
       IF VerifyBenchmark(destination.staged, destination.intact) THEN "valid" ELSE "invalid"]
  /\ UNCHANGED <<package, edits, destination, export>>

(***************************************************************************)
(* An export verifies the benchmark and copies a directory of it, file by  *)
(* file, to a place where nothing is; making that place fails if another   *)
(* export made it since.                                                   *)
(***************************************************************************)
Verified == destination.exists /\ VerifyBenchmark(destination.staged, destination.intact)

VerifyExport(e) ==
  /\ export[e] = "idle"
  /\ export' = [export EXCEPT ![e] = IF Verified THEN "verified" ELSE "raised"]
  /\ UNCHANGED <<package, edits, build, destination>>

Occupied == \E e \in Exporters : export[e] \in {"copying", "done"}

BeginExport(e) ==
  /\ export[e] = "verified"
  /\ export' = [export EXCEPT ![e] = IF Occupied THEN "raised" ELSE "copying"]
  /\ UNCHANGED <<package, edits, build, destination>>

FinishExport(e) ==
  /\ export[e] = "copying"
  /\ export' = [export EXCEPT ![e] = "done"]
  /\ UNCHANGED <<package, edits, build, destination>>

Next ==
  \/ EditPackage \/ EditDestination
  \/ \E b \in Builders :
       \/ Begin(b) \/ Reject(b) \/ IndexRuns(b) \/ CopyEvidence(b) \/ VerifyStaged(b)
       \/ Publish(b) \/ Seal(b) \/ Abort(b) \/ Return(b)
  \/ \E e \in Exporters : VerifyExport(e) \/ BeginExport(e) \/ FinishExport(e)

Spec == Init /\ [][Next]_benchmarkVars

(***************************************************************************)
(* Properties.                                                             *)
(***************************************************************************)
TypeOK ==
  /\ package.runs \in [Runs -> RunRecords] /\ edits \in 0..MaxEdits
  /\ destination.by \in Builders \cup {"none"}
  /\ \A b \in Builders : DOMAIN build[b].staged.audited \subseteq HpoRuns
  /\ \A e \in Exporters : export[e] \in {"idle", "verified", "copying", "done", "raised"}

\* However builds race and whatever changes under them: the destination is of
\* one build and stays so; its rows come from formal runs, each completed or
\* explained, and every search it audited evaluated the test once; a build asked
\* to seal that returns it as valid left it read-only and as it was verified; a
\* build that raised left no temporary directory behind; no two exports write
\* one directory.
Published(b) == build[b].pc \in {"published", "sealed", "valid", "invalid"}

BenchmarkSound ==
  /\ \A b, c \in Builders : Published(b) /\ Published(c) => b = c
  /\ \A b \in Builders : Published(b) => destination.exists /\ destination.by = b
  /\ \A b \in Builders : build[b].pc = "valid" /\ build[b].seal =>
       destination.intact /\ ~destination.writable
  /\ \A b \in Builders : build[b].pc = "raised" => ~build[b].temporary
  /\ destination.exists =>
       LET staged == destination.staged
       IN  /\ DOMAIN staged.rows = Runs /\ staged.metrics \subseteq Runs
           /\ \A r \in Runs : /\ staged.rows[r].recorded /\ staged.rows[r].formal
                              /\ staged.rows[r].status = "failed" => staged.rows[r].explained
           /\ \A r \in DOMAIN staged.audited : staged.audited[r].tests = 1
  /\ \A d, e \in Exporters :
       export[d] \in {"copying", "done"} /\ export[e] \in {"copying", "done"} => d = e
=============================================================================
