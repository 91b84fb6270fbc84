------------------------------ MODULE JobLedger ------------------------------
(***************************************************************************)
(* What JobManager (api/jobs.py) promises about its jobs, without threads, *)
(* pool, pids or locks: what it answers for a job, what job.json says, and *)
(* the process of the job.  An answer may be ahead of the file, never      *)
(* behind it, and a service that restarts answers from the files.          *)
(***************************************************************************)
CONSTANTS Jobs,                   \* job identifiers
          Protected               \* jobs that may not be interrupted

VARIABLES answer, file, process

ledgerVars == <<answer, file, process>>

Init ==
  /\ answer = [j \in Jobs |-> "absent"]
  /\ file = [j \in Jobs |-> "absent"]
  /\ process = [j \in Jobs |-> "none"]

\* the answer changes, and the file with it unless its write fails
Store(j, status) ==
  /\ answer' = [answer EXCEPT ![j] = status]
  /\ file' \in {file, [file EXCEPT ![j] = status]}
  /\ UNCHANGED process

Accept(j) ==
  /\ answer[j] = "absent" /\ file[j] = "absent"
  /\ Store(j, "queued")

Run(j) ==
  /\ answer[j] = "queued" /\ process[j] = "none"
  /\ Store(j, "running")

\* a cancellation answered before the process exists may come too late for it,
\* but not for a protected job
Start(j) ==
  /\ answer[j] \in IF j \in Protected THEN {"running"} ELSE {"running", "cancelled"}
  /\ file[j] = "running" \/ file[j] = answer[j]
  /\ process[j] = "none" /\ process' = [process EXCEPT ![j] = "alive"]
  /\ UNCHANGED <<answer, file>>

End(j) ==
  /\ process[j] = "alive"
  /\ \E code \in {"zero", "nonzero"} : process' = [process EXCEPT ![j] = code]
  /\ UNCHANGED <<answer, file>>

Cancel(j) ==
  /\ answer[j] \in IF j \in Protected THEN {"queued"} ELSE {"queued", "running"}
  /\ file[j] \in {"absent", "queued", "running"}
  /\ Store(j, "cancelled")

\* a cancellation whose write failed reaches the file after all
CatchUp(j) ==
  /\ answer[j] = "cancelled" /\ file[j] \in {"running", "cancelled"}
  /\ process[j] # "none"
  /\ Store(j, "cancelled")

\* the process has ended: a cancellation stands, else its exit code decides
Settle(j) ==
  /\ process[j] \in {"zero", "nonzero"}
  /\ \/ answer[j] = "cancelled" /\ Store(j, "cancelled")
     \/ answer[j] = "running" /\ Store(j, IF process[j] = "zero" THEN "completed" ELSE "failed")

\* an operating-system error, as long as no outcome but a cancellation is on file
Break(j) ==
  /\ answer[j] \notin {"absent", "queued"}
  /\ file[j] \in {"running", "cancelled"}
  /\ Store(j, "failed")

\* the service ends, and begins again from the files
Forget ==
  /\ answer' = [j \in Jobs |-> "absent"]
  /\ UNCHANGED <<file, process>>

Recovered(j) == IF file[j] \in {"queued", "running"} THEN "failed" ELSE file[j]

Recover ==
  /\ answer = [j \in Jobs |-> "absent"]
  /\ file' = [j \in Jobs |-> Recovered(j)]
  /\ answer' = file'
  /\ UNCHANGED process

JobStep(j) ==
  \/ Accept(j) \/ Run(j) \/ Start(j) \/ End(j)
  \/ Cancel(j) \/ CatchUp(j) \/ Settle(j) \/ Break(j)

Next == (\E j \in Jobs : JobStep(j)) \/ Forget \/ Recover

Spec == Init /\ [][Next]_ledgerVars
=============================================================================
