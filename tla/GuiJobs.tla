------------------------------- MODULE GuiJobs -------------------------------
(***************************************************************************)
(* The supervisor of GUI jobs: JobManager of api/jobs.py, the thread pool  *)
(* its _execute calls run in, the child processes they start, and the      *)
(* job.json file kept for every job.                                       *)
(*                                                                         *)
(* Every block of the code that runs under JobManager._lock is one action; *)
(* between two such blocks of one thread any other thread may run.  The    *)
(* service process may crash and be restarted between any two actions; the *)
(* children it started outlive it.                                         *)
(***************************************************************************)
EXTENDS Naturals, Sequences, FiniteSets

CONSTANTS
    Jobs,          \* the job identifiers a behaviour can use (each is fresh)
    Protected,     \* jobs of kind formal_experiment or backtest on "test"
    Workers,       \* max_concurrent_jobs
    MaxRestarts,   \* bound: service crashes in one behaviour
    MaxFaults      \* bound: failing writes of job.json in one behaviour

ASSUME JobsAssumption ==
    /\ IsFiniteSet(Jobs)
    /\ Protected \subseteq Jobs
    /\ Workers \in Nat \ {0}
    /\ MaxRestarts \in Nat
    /\ MaxFaults \in Nat

VARIABLES
    records,       \* JobManager._records
    disk,          \* the job.json files under logs/gui-jobs
    processes,     \* the keys of JobManager._processes
    thread,        \* where submit or _execute stands for each job
    queue,         \* the work queue of the ThreadPoolExecutor
    child,         \* the operating-system process of each job
    signalled,     \* jobs whose child was sent SIGTERM
    service,       \* the life of the service process itself
    restarts,      \* crashes so far (bounded by MaxRestarts)
    faults         \* failed writes so far (bounded by MaxFaults)

vars == <<records, disk, processes, thread, queue, child, signalled, service,
          restarts, faults>>

memory == <<records, processes, thread, queue>>
world == <<child, signalled>>

-----------------------------------------------------------------------------
Terminal == {"completed", "failed", "cancelled"}
Status == {"absent", "queued", "running"} \cup Terminal
ExitCode == {"zero", "nonzero"}

Record == [status: Status, pid: BOOLEAN, code: ExitCode \cup {"none"}]
Absent == [status |-> "absent", pid |-> FALSE, code |-> "none"]

Thread ==
    { "none",          \* no call is in progress for the job
      "submitting",    \* submit: record stored, before _pool.submit
      "pooled",        \* the future waits in the queue of the pool
      "opening",       \* _execute: first locked block left, child not started
      "registering",   \* _execute: child started, before the second block
      "waiting",       \* _execute: blocked in process.wait()
      "failing" }      \* _execute: OSError raised, before its handler's block

Executing == {"opening", "registering", "waiting", "failing"}

TypeOK ==
    /\ records \in [Jobs -> Record]
    /\ disk \in [Jobs -> Record]
    /\ processes \in SUBSET Jobs
    /\ thread \in [Jobs -> Thread]
    /\ queue \in Seq(Jobs)
    /\ child \in [Jobs -> {"none", "alive"} \cup ExitCode]
    /\ signalled \in SUBSET Jobs
    /\ service \in {"up", "closed", "down"}
    /\ restarts \in 0..MaxRestarts
    /\ faults \in 0..MaxFaults

Init ==
    /\ records = [j \in Jobs |-> Absent]
    /\ disk = [j \in Jobs |-> Absent]
    /\ processes = {}
    /\ thread = [j \in Jobs |-> "none"]
    /\ queue = <<>>
    /\ child = [j \in Jobs |-> "none"]
    /\ signalled = {}
    /\ service = "up"
    /\ restarts = 0
    /\ faults = 0

-----------------------------------------------------------------------------
(***************************************************************************)
(* _persist writes job.json.tmp and renames it over job.json, so that a    *)
(* reader finds the old file or the new one.  Every caller has already     *)
(* stored the record in memory: a failing write leaves memory ahead.       *)
(***************************************************************************)
Remember(j, r) == records' = [records EXCEPT ![j] = r]

\* Mutant: the temporary file is written and not renamed.
TemporaryOnly(j, r) == UNCHANGED <<disk, faults>>

Persisted(j, r) ==
    /\ disk' = [disk EXCEPT ![j] = r]
    /\ UNCHANGED faults

PersistFailed ==
    /\ faults < MaxFaults
    /\ faults' = faults + 1
    /\ UNCHANGED disk

Goto(j, t) == thread' = [thread EXCEPT ![j] = t]

With(j, status) == [records[j] EXCEPT !.status = status]

-----------------------------------------------------------------------------
\* submit, up to the end of its locked block; the configuration file and the
\* command are made before it and leave no record when they are refused.
Submit(j) ==
    LET r == [status |-> "queued", pid |-> FALSE, code |-> "none"]
    IN  /\ service # "down"
        /\ disk[j].status = "absent" /\ records[j].status = "absent"
        /\ Remember(j, r)
        /\ \/ Persisted(j, r) /\ Goto(j, "submitting")
           \/ PersistFailed /\ UNCHANGED thread
        /\ UNCHANGED <<processes, queue, world, service, restarts>>

\* submit, its last call: a pool that was shut down raises RuntimeError.
Enqueue(j) ==
    /\ thread[j] = "submitting"
    /\ IF service = "up"
       THEN Goto(j, "pooled") /\ queue' = Append(queue, j)
       ELSE Goto(j, "none") /\ UNCHANGED queue
    /\ UNCHANGED <<records, disk, processes, world, service, restarts, faults>>

\* Mutant: one worker too many.
OneWorkerMore ==
    Cardinality({j \in Jobs : thread[j] \in Executing}) <= Workers

\* Mutant: a future that waits in the queue already counts as a busy worker.
QueuedIsBusy == Cardinality({j \in Jobs : thread[j] # "none"}) < Workers

FreeWorker == Cardinality({j \in Jobs : thread[j] \in Executing}) < Workers

\* Mutant: the future is run and stays at the head of the queue.
LeaveInQueue == UNCHANGED queue

TakeFromQueue == queue' = Tail(queue)

\* A pool thread takes the oldest future and runs _execute's first block.
Begin(j) ==
    LET r == With(j, "running")
    IN  /\ FreeWorker
        /\ queue # <<>> /\ j = Head(queue)
        /\ TakeFromQueue
        /\ \/ /\ records[j].status = "cancelled"
              /\ Goto(j, "none")
              /\ UNCHANGED <<records, disk, faults>>
           \/ /\ records[j].status # "cancelled"
              /\ Remember(j, r)
              /\ \/ Persisted(j, r) /\ Goto(j, "opening")
                 \/ PersistFailed /\ Goto(j, "none")
        /\ UNCHANGED <<processes, world, service, restarts>>

\* Opening the log and Popen, without the lock.
Spawn(j) ==
    /\ thread[j] = "opening"
    /\ Goto(j, "registering")
    /\ child' = [child EXCEPT ![j] = "alive"]
    /\ UNCHANGED <<records, disk, processes, queue, signalled, service,
                   restarts, faults>>

SpawnFails(j) ==
    /\ thread[j] = "opening"
    /\ Goto(j, "failing")
    /\ UNCHANGED <<records, disk, processes, queue, world, service,
                   restarts, faults>>

\* The second locked block of _execute.
Register(j) ==
    LET r == [records[j] EXCEPT !.pid = TRUE]
    IN  /\ thread[j] = "registering"
        /\ processes' = processes \cup {j}
        /\ Remember(j, r)
        /\ \/ Persisted(j, r) /\ Goto(j, "waiting")
           \/ PersistFailed /\ Goto(j, "failing")
        /\ UNCHANGED <<queue, world, service, restarts>>

\* Mutant: wait() is taken to have returned while the child still runs.
Started(j) == child[j] # "none"

\* process.wait() returns.
Ended(j) == child[j] \in ExitCode

\* Mutant: the return code decides alone.
ByReturnCode(j) == IF child[j] = "zero" THEN "completed" ELSE "failed"

\* Mutant: whatever ends without being cancelled is called completed.
CompletedUnlessCancelled(j) ==
    IF records[j].status = "cancelled" THEN "cancelled" ELSE "completed"

\* What the third locked block records: a cancellation is kept, otherwise
\* the return code decides.
FinalStatus(j) ==
    IF records[j].status = "cancelled" THEN "cancelled"
    ELSE IF child[j] = "zero" THEN "completed" ELSE "failed"

\* The third locked block of _execute.
Finish(j) ==
    LET r == [With(j, FinalStatus(j)) EXCEPT !.code = child[j]]
    IN  /\ thread[j] = "waiting"
        /\ Ended(j)
        /\ Remember(j, r)
        /\ processes' = processes \ {j}
        /\ \/ Persisted(j, r) /\ Goto(j, "none")
           \/ PersistFailed /\ Goto(j, "failing")
        /\ UNCHANGED <<queue, world, service, restarts>>

\* The block of the handler "except OSError"; it does not look at the status.
Fail(j) ==
    LET r == With(j, "failed")
    IN  /\ thread[j] = "failing"
        /\ Remember(j, r)
        /\ processes' = processes \ {j}
        /\ Persisted(j, r) \/ PersistFailed
        /\ Goto(j, "none")
        /\ UNCHANGED <<queue, world, service, restarts>>

\* Mutant: running protected jobs are cancelled like any other.
AnyActive(j) == records[j].status \in {"queued", "running"}

\* cancel, for a job it does not refuse: a known, non-terminal one that is
\* not a locked test or formal experiment already running.
MayCancel(j) ==
    /\ records[j].status \in {"queued", "running"}
    /\ records[j].status = "running" => j \notin Protected

Cancel(j) ==
    LET r == With(j, "cancelled")
    IN  /\ MayCancel(j)
        /\ signalled' = IF j \in processes /\ child[j] = "alive"
                        THEN signalled \cup {j} ELSE signalled
        /\ Remember(j, r)
        /\ Persisted(j, r) \/ PersistFailed
        /\ UNCHANGED <<processes, thread, queue, child, service, restarts>>

\* shutdown: no new futures, and those still in the queue are cancelled.
Shutdown ==
    /\ service = "up"
    /\ service' = "closed"
    /\ queue' = <<>>
    /\ thread' = [j \in Jobs |-> IF thread[j] = "pooled" THEN "none"
                                 ELSE thread[j]]
    /\ UNCHANGED <<records, disk, processes, world, restarts, faults>>

-----------------------------------------------------------------------------
\* The child process ends, by itself or because of the signal.
ChildExit(j) ==
    /\ child[j] = "alive"
    /\ \E code \in ExitCode : child' = [child EXCEPT ![j] = code]
    /\ UNCHANGED <<memory, disk, signalled, service, restarts, faults>>

\* The service process dies: its memory and threads are gone.
Crash ==
    /\ service # "down"
    /\ restarts < MaxRestarts
    /\ restarts' = restarts + 1
    /\ service' = "down"
    /\ records' = [j \in Jobs |-> Absent]
    /\ processes' = {}
    /\ thread' = [j \in Jobs |-> "none"]
    /\ queue' = <<>>
    /\ UNCHANGED <<disk, world, faults>>

\* Mutant: records are loaded as they were left.
AsLeft(j) == disk[j]

\* __init__ with _load_existing_records: what a previous service left
\* unfinished is recorded as failed.  Doing it file by file changes nothing:
\* a crash or failing write in between leaves a service that is still down,
\* and loading again finds the rewritten files terminal.
Loaded(j) ==
    IF disk[j].status \in {"queued", "running"}
    THEN [disk[j] EXCEPT !.status = "failed"]
    ELSE disk[j]

Restart ==
    /\ service = "down"
    /\ service' = "up"
    /\ records' = [j \in Jobs |-> Loaded(j)]
    /\ disk' = [j \in Jobs |-> Loaded(j)]
    /\ UNCHANGED <<processes, thread, queue, world, restarts, faults>>

-----------------------------------------------------------------------------
Execute(j) ==
    Begin(j) \/ Spawn(j) \/ SpawnFails(j) \/ Register(j) \/ Finish(j) \/ Fail(j)

Next ==
    \/ \E j \in Jobs : Submit(j) \/ Enqueue(j) \/ Execute(j) \/ Cancel(j)
                       \/ ChildExit(j)
    \/ Shutdown \/ Crash \/ Restart

Spec == Init /\ [][Next]_vars

(***************************************************************************)
(* The threads of a live service are scheduled, and a child process ends   *)
(* (every command of the allow-list is a finite run).  Nobody is obliged   *)
(* to submit, cancel, shut down, crash or restart.                         *)
(***************************************************************************)
Fairness ==
    \A j \in Jobs : /\ WF_vars(Enqueue(j))
                    /\ WF_vars(Execute(j))
                    /\ WF_vars(ChildExit(j))

FairSpec == Spec /\ Fairness

-----------------------------------------------------------------------------
(***************************************************************************)
(* Properties                                                              *)
(***************************************************************************)

\* A locked test or formal experiment is never interrupted once it runs: its
\* child gets no SIGTERM, and no record, in memory or on disk, calls a job
\* "cancelled" whose child was started.  cancel looks at the status only; this
\* needs "running" to be stored before the child exists, and a cancelled
\* record to keep _execute from starting one.
ProtectedUninterrupted ==
    \A j \in Protected :
        /\ j \notin signalled
        /\ "cancelled" \in {records[j].status, disk[j].status}
              => child[j] = "none"

\* What a record claims about the child is true of the child: "completed" only
\* after exit code zero, a return code only if it is the child's own, a pid
\* only of a child that was started.  The claim is read off by a thread that
\* slept in wait() while cancel, a failing write or a restart went by.
RecordsTellTheTruth ==
    \A j \in Jobs : \A r \in {records[j], disk[j]} :
        /\ r.status = "completed" => child[j] = "zero"
        /\ r.code # "none" => child[j] = r.code
        /\ r.pid => child[j] # "none"

\* The file of a job reaches one outcome and keeps it through every race,
\* failing write, crash and reload.  The one exception is the handler of
\* OSError, which turns a cancelled job into a failed one.
DurableOutcome ==
    [][\A j \in Jobs :
          disk[j].status \in Terminal =>
             \/ disk'[j].status = disk[j].status
             \/ disk[j].status = "cancelled" /\ disk'[j].status = "failed"
      ]_vars

\* As long as no write of job.json has failed, a restart finds on disk exactly
\* what the service that died had in memory.
DiskAgrees ==
    faults = 0 /\ service # "down" => disk = records

\* As long as no write has failed, a record that says "running" has a thread
\* that will settle it, and a "queued" one has a future or a submit call,
\* unless the pool was shut down: no job is listed as active for ever.
ActiveRecordHasThread ==
    faults = 0 =>
        \A j \in Jobs :
            /\ records[j].status = "running" => thread[j] \in Executing
            /\ records[j].status = "queued" =>
                  \/ thread[j] \in {"submitting", "pooled"}
                  \/ service = "closed"

\* The command of a job is started at most once, restarts included: the child
\* of a job never comes to life a second time.
StartedOnce ==
    [][\A j \in Jobs :
          child[j] \in ExitCode => child'[j] = child[j]]_vars

\* One service that had no failing write never has more live children than
\* max_concurrent_jobs: a worker thread is held until its child has ended.
ChildrenBounded ==
    restarts = 0 /\ faults = 0 =>
        Cardinality({j \in Jobs : child[j] = "alive"}) <= Workers

\* What the service knows, what its directory says and what runs agree: a
\* restart loses nothing, no job stays active without a thread, and no child
\* escapes the bound of the pool.
Supervised == DiskAgrees /\ ActiveRecordHasThread /\ ChildrenBounded

\* A job handed to the pool is eventually let go of, whatever happens to it;
\* its record is then terminal unless a write failed or the service stopped.
PooledJobsSettle ==
    \A j \in Jobs :
        thread[j] = "pooled" ~>
            /\ thread[j] = "none"
            /\ \/ records[j].status \in Terminal
               \/ faults > 0 \/ service # "up"

\* Through every interleaving of its threads, failing writes and restarts, the
\* supervisor is the ledger of JobLedger: an answered cancellation is overtaken
\* by nothing but an error of the operating system, an exit code is recorded as
\* what it is, and a protected job is neither cancelled nor kept from running.
Ledger == INSTANCE JobLedger
  WITH answer  <- [j \in Jobs |-> records[j].status],
       file    <- [j \in Jobs |-> disk[j].status],
       process <- child

IsLedger == Ledger!Spec

\* The docstring of cancel, "Cancel a queued job or terminate its direct child
\* process": while the supervisor waits for the child of a cancelled job, that
\* child has been sent the signal.
CancelledChildSignalled ==
    \A j \in Jobs :
        records[j].status = "cancelled" /\ thread[j] = "waiting"
            => child[j] # "alive" \/ j \in signalled
=============================================================================
