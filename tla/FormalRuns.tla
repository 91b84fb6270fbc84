----------------------------- MODULE FormalRuns -----------------------------
(***************************************************************************)
(* The formal experiments (experiments/): a protocol and the matrix of its *)
(* runs are frozen, executor processes claim runs of the matrix by their   *)
(* directory, check that nothing frozen has changed, carry the run out,    *)
(* and leave a record of its state after every event; an aggregation reads *)
(* the runs one by one and says what still blocks the phase.               *)
(*                                                                         *)
(* Executors are separate processes.  One that is killed takes no further  *)
(* step and leaves what it wrote; any step may raise, and is recorded.     *)
(* Contents of the protocol and commits of the workspace are versions.     *)
(***************************************************************************)
EXTENDS Integers, FiniteSets, Sequences, SequencesExt

CONSTANTS Tasks,                  \* run identifiers of the matrix
          Kinds,                  \* assignments of a kind of run to each of them
          Executors,              \* calls of execute_formal_task
          MinSeeds,               \* seeds the aggregation asks of a method
          ProviderOnly,           \* the protocol lets agents use their provider
          MaxChanges              \* bound: changes of files by others

VARIABLES kind, protocol, commit, matrix, changes, executor, run, collector, review

formalVars == <<kind, protocol, commit, matrix, changes, executor, run, collector, review>>

(***************************************************************************)
(* What each kind of run does, in order, and in which part of it: baseline *)
(* and trained strategies (B), transfer between markets with one part per  *)
(* target (C), a mechanism against the base environment (D), agents (E),   *)
(* searches (F); environment validation (A) has no partition to test.      *)
(***************************************************************************)
Steps(part, names) == [i \in 1..Len(names) |-> <<part, names[i]>>]

Validated == Steps("run", <<"validate">>)
Baseline == Steps("run", <<"lock", "validation", "test">>)
Trained == Steps("run", <<"train", "lock", "test">>)
TrainOne(target) == Steps(target, <<"train", "lock", "test">>)
Transfer == TrainOne("first") \o TrainOne("second")
Mechanism == Steps("run", <<"lock", "test", "test">>)
Agents == Steps("run", <<"stack", "lock", "test">>)
RunSearch == Steps("run", <<"search", "report">>)
LockedTest == Steps("run", <<"train", "lock", "test">>)

Program == [
  environment |-> Validated, baseline |-> Baseline, trained |-> Trained, transfer |-> Transfer,
  mechanism |-> Mechanism, agents |-> Agents, search |-> RunSearch \o LockedTest]

\* Every run of the matrix is of a kind the runner knows.
FormalAssumption == Kinds \subseteq [Tasks -> DOMAIN Program]

Tested(k) == k # "environment"
TestsIn(steps) == Len(SelectSeq(steps, LAMBDA s : s[2] = "test"))
TestAccessCount(k) == TestsIn(Program[k])

NoAudit == [count |-> 0, locked |-> FALSE, network |-> FALSE, listed |-> 0]
NoRun == [exists |-> FALSE, by |-> {}, status |-> "none", done |-> <<>>, gate |-> FALSE,
          result |-> 0, measured |-> FALSE, network |-> FALSE, audit |-> NoAudit]
Idle == [pc |-> "idle", task |-> "none"]
NoMatrix == [written |-> FALSE, checked |-> FALSE, protocol |-> 0, commit |-> 0]
Unread == [left |-> Tasks, blocked |-> {}, phase |-> "reading"]

Init ==
  /\ kind \in Kinds
  /\ protocol = [version |-> 1, frozen |-> 0]
  /\ commit = 1 /\ changes = 0
  /\ matrix = NoMatrix
  /\ executor = [e \in Executors |-> Idle]
  /\ run = [t \in Tasks |-> NoRun]
  /\ collector = Unread /\ review = "missing"

(***************************************************************************)
(* Freezing: a checksum or a matrix that exists is never written again;    *)
(* the matrix is written before its own checksum.                          *)
(***************************************************************************)
FreezeProtocol ==
  /\ protocol.frozen = 0
  /\ protocol' = [protocol EXCEPT !.frozen = protocol.version]
  /\ UNCHANGED <<kind, commit, matrix, changes, executor, run, collector, review>>

FreezeMatrix ==
  /\ ~matrix.written
  /\ protocol.frozen = protocol.version
  /\ matrix' = [written |-> TRUE, checked |-> FALSE, protocol |-> protocol.version, commit |-> commit]
  /\ UNCHANGED <<kind, protocol, commit, changes, executor, run, collector, review>>

FreezeMatrixChecksum ==
  /\ matrix.written /\ ~matrix.checked
  /\ matrix' = [matrix EXCEPT !.checked = TRUE]
  /\ UNCHANGED <<kind, protocol, commit, changes, executor, run, collector, review>>

(***************************************************************************)
(* What others do meanwhile: edit the protocol (or an input whose digest   *)
(* it holds), commit to the workspace, edit a result, review.              *)
(***************************************************************************)
Change ==
  /\ changes < MaxChanges /\ changes' = changes + 1
  /\ \/ protocol' = [protocol EXCEPT !.version = @ + 1] /\ UNCHANGED <<commit, run>>
     \/ commit' = commit + 1 /\ UNCHANGED <<protocol, run>>
     \/ /\ \E t \in Tasks : run[t].result # 0 /\ run' = [run EXCEPT ![t].result = @ + 1]
        /\ UNCHANGED <<protocol, commit>>
  /\ UNCHANGED <<kind, matrix, executor, collector, review>>

Review ==
  /\ review = "missing" /\ matrix.checked
  /\ review' \in {"incomplete", "approved"}
  /\ UNCHANGED <<kind, protocol, commit, matrix, changes, executor, run, collector>>

(***************************************************************************)
(* An executor.  mkdir fails on a directory that exists, so a run that was *)
(* ever claimed is never claimed again, whatever became of it.             *)
(***************************************************************************)
Claimed(e, t) ==
  /\ executor' = [executor EXCEPT ![e] = [pc |-> "planned", task |-> t]]
  /\ run' = [run EXCEPT ![t].exists = TRUE, ![t].by = @ \cup {e}, ![t].status = "planned"]
  /\ UNCHANGED <<kind, protocol, commit, matrix, changes, collector, review>>

\* Mutant: the run directory is created with exist_ok=True
ClaimAgain(e, t) == executor[e].pc = "idle" /\ matrix.checked /\ Claimed(e, t)

Claim(e, t) ==
  /\ executor[e].pc = "idle" /\ matrix.checked
  /\ ~run[t].exists
  /\ Claimed(e, t)

Unclaimable(e, t) ==
  /\ executor[e].pc = "idle" /\ matrix.checked
  /\ run[t].exists
  /\ executor' = [executor EXCEPT ![e].pc = "raised"]
  /\ UNCHANGED <<kind, protocol, commit, matrix, changes, run, collector, review>>

Gate == /\ protocol.frozen = protocol.version
        /\ matrix.protocol = protocol.version
        /\ matrix.commit = commit

Preflight(e) ==
  /\ executor[e].pc = "planned" /\ Gate
  /\ executor' = [executor EXCEPT ![e].pc = "running"]
  /\ run' = [run EXCEPT ![executor[e].task].status = "running", ![executor[e].task].gate = TRUE]
  /\ UNCHANGED <<kind, protocol, commit, matrix, changes, collector, review>>

\* the next step of the run, on disk
Work(e) ==
  LET t == executor[e].task
      program == Program[kind[t]]
  IN  /\ executor[e].pc = "running"
      /\ Len(run[t].done) < Len(program)
      /\ run' = [run EXCEPT ![t].done = Append(@, program[Len(@) + 1])]
      /\ UNCHANGED <<kind, protocol, commit, matrix, changes, executor, collector, review>>

\* result.json: with every required metric and all fold evidence, or not
WriteResult(e) ==
  LET t == executor[e].task
  IN  /\ executor[e].pc = "running"
      /\ Len(run[t].done) >= Len(Program[kind[t]])
      /\ executor' = [executor EXCEPT ![e].pc = "written"]
      /\ \E measured \in BOOLEAN, network \in {FALSE, kind[t] = "agents"} :
           run' = [run EXCEPT ![t].result = @ + 1, ![t].measured = measured, ![t].network = network]
      /\ UNCHANGED <<kind, protocol, commit, matrix, changes, collector, review>>

(***************************************************************************)
(* The record of the completed run: the tests its result counts, whether a *)
(* configuration lock is anywhere in the run, and digests of all files.    *)
(***************************************************************************)
LockFound(t) == \E i \in 1..Len(run[t].done) : run[t].done[i][2] = "lock"

Complete(e) ==
  LET t == executor[e].task
  IN  /\ executor[e].pc = "written"
      /\ executor' = [executor EXCEPT ![e].pc = "done"]
      /\ run' = [run EXCEPT ![t].status = "completed",
                            ![t].audit = [count |-> TestAccessCount(kind[t]),
                                          locked |-> TestAccessCount(kind[t]) = 0 \/ LockFound(t),
                                          network |-> run[t].network, listed |-> run[t].result]]
      /\ UNCHANGED <<kind, protocol, commit, matrix, changes, collector, review>>

\* any exception after the claim, the gate's refusal among them; the record says
\* nothing of tests that were made
Fail(e) ==
  LET t == executor[e].task
  IN  /\ executor[e].pc \in {"planned", "running", "written"}
      /\ executor' = [executor EXCEPT ![e].pc = "raised"]
      /\ run' = [run EXCEPT ![t].status = "failed", ![t].audit = [NoAudit EXCEPT !.listed = run[t].result]]
      /\ UNCHANGED <<kind, protocol, commit, matrix, changes, collector, review>>

(***************************************************************************)
(* The aggregation.                                                        *)
(***************************************************************************)
Safe(t) ==
  LET audit == run[t].audit
  IN  /\ (audit.count > 0) = Tested(kind[t])
      /\ Tested(kind[t]) => audit.locked
      /\ audit.network => ProviderOnly

Accepted(t) ==
  /\ run[t].exists /\ run[t].status = "completed"
  /\ Safe(t)
  /\ run[t].audit.listed = run[t].result
  /\ run[t].measured

Collect(t) ==
  /\ collector.phase = "reading" /\ matrix.checked /\ t \in collector.left
  /\ collector' = [collector EXCEPT !.left = @ \ {t},
                                    !.blocked = IF Accepted(t) THEN @ ELSE @ \cup {t}]
  /\ UNCHANGED <<kind, protocol, commit, matrix, changes, executor, run, review>>

EnoughSeeds ==
  \A t \in Tasks : Tested(kind[t]) =>
    Cardinality({u \in Tasks \ collector.blocked : kind[u] = kind[t]}) >= MinSeeds

Summarize ==
  /\ collector.phase = "reading" /\ collector.left = {}
  /\ collector' = [collector EXCEPT !.phase =
       IF collector.blocked = {} /\ EnoughSeeds /\ review = "approved" THEN "complete" ELSE "blocked"]
  /\ UNCHANGED <<kind, protocol, commit, matrix, changes, executor, run, review>>

\* the summary is generated again later
SummarizeAgain ==
  /\ collector.phase = "blocked" /\ collector' = Unread
  /\ UNCHANGED <<kind, protocol, commit, matrix, changes, executor, run, review>>

ExecutorStep(e) ==
  \/ \E t \in Tasks : Claim(e, t) \/ Unclaimable(e, t)
  \/ Preflight(e) \/ Work(e) \/ WriteResult(e) \/ Complete(e) \/ Fail(e)

Next ==
  \/ FreezeProtocol \/ FreezeMatrix \/ FreezeMatrixChecksum \/ Change \/ Review
  \/ \E e \in Executors : ExecutorStep(e)
  \/ \E t \in Tasks : Collect(t)
  \/ Summarize \/ SummarizeAgain

Spec == Init /\ [][Next]_formalVars

(***************************************************************************)
(* Properties.                                                             *)
(***************************************************************************)
TypeOK ==
  /\ kind \in [Tasks -> DOMAIN Program]
  /\ \A t \in Tasks : /\ run[t].status \in {"none", "planned", "running", "completed", "failed"}
                      /\ run[t].by \subseteq Executors /\ run[t].measured \in BOOLEAN
  /\ collector.left \subseteq Tasks /\ collector.blocked \subseteq Tasks

\* every test of a part comes after a lock of that part
LockedBeforeTest(t) ==
  \A i \in 1..Len(run[t].done) : run[t].done[i][2] = "test" =>
    \E j \in 1..(i - 1) : run[t].done[j] = <<run[t].done[i][1], "lock">>

TestsMade(t) == TestsIn(run[t].done)

(***************************************************************************)
(* The locked test, across executors, kills and edits: a run is worked on  *)
(* by one executor at most; a run that tests anything passed the gate and  *)
(* has the lock of that part by then; a completed record counts the tests  *)
(* made; and a phase is complete only if every run of the matrix completed *)
(* so, with the metrics it owes, its result not edited before it was read. *)
(***************************************************************************)
FormalRunsHonest ==
  /\ \A t \in Tasks :
       /\ Cardinality(run[t].by) <= 1
       /\ run[t].done # <<>> => run[t].gate
       /\ LockedBeforeTest(t)
       /\ run[t].status = "completed" => run[t].audit.count = TestsMade(t)
  /\ collector.phase = "complete" =>
       \A t \in Tasks : run[t].status = "completed" /\ run[t].measured
  /\ \A t \in Tasks \ (collector.left \cup collector.blocked) : run[t].audit.listed # 0
=============================================================================
