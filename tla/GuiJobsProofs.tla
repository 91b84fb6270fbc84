---------------------------- MODULE GuiJobsProofs ---------------------------
(***************************************************************************)
(* Theorems about GuiJobs for every set of jobs, pool size and bound: its  *)
(* types, the safety of protected jobs, the truth of the records, and the  *)
(* outcome kept in job.json.                                               *)
(*                                                                         *)
(* The argument is one invariant per job, JobInv, that relates the stage   *)
(* of the job's thread to its record, its file and its child; the queue    *)
(* adds that its futures are distinct jobs at stage "pooled".              *)
(***************************************************************************)
EXTENDS GuiJobs, FiniteSetTheorems, TLAPS

\* What the stage of the thread says of the record, the file and the child.
StageInv(j) ==
    /\ records[j].status = "absent" => thread[j] = "none"
    /\ records[j].status = "queued" =>
          thread[j] \in {"none", "submitting", "pooled"} /\ child[j] = "none"
    /\ thread[j] \in {"submitting", "pooled"} =>
          /\ child[j] = "none"
          /\ records[j].status \in {"queued", "cancelled"}
          /\ disk[j].status \in {"queued", "cancelled"}
    /\ thread[j] = "opening" => child[j] = "none"
    /\ thread[j] \in {"registering", "waiting"} => child[j] # "none"
    /\ thread[j] \in {"opening", "registering", "waiting"} =>
          records[j].status \in {"running", "cancelled"}
    /\ thread[j] \in Executing => disk[j].status \in {"running", "cancelled"}
    /\ j \in processes => thread[j] \in {"waiting", "failing"}

\* What holds of the record and the file wherever the thread is.
FileInv(j) ==
    /\ records[j].status \in {"queued", "running"} =>
          disk[j].status \notin Terminal
    /\ child[j] # "none" => disk[j].status # "absent"
    /\ service = "down" =>
          /\ records[j] = Absent /\ thread[j] = "none"

\* What a record r of job j claims about the child.
Truth(j, r) ==
    /\ r.status = "completed" => child[j] = "zero"
    /\ r.code # "none" => child[j] = r.code
    /\ r.pid => child[j] # "none"

\* A protected job with a child has neither been cancelled nor signalled.
ProtectedInv(j) ==
    j \in Protected =>
        /\ j \notin signalled
        /\ records[j].status = "cancelled" => child[j] = "none"
        /\ records[j].status = "cancelled" =>
              thread[j] \in {"none", "submitting", "pooled"}
        /\ disk[j].status = "cancelled" =>
              child[j] = "none" /\ thread[j] \in {"none", "submitting", "pooled"}

JobInv(j) ==
    /\ StageInv(j)
    /\ FileInv(j)
    /\ Truth(j, records[j])
    /\ Truth(j, disk[j])
    /\ ProtectedInv(j)

QueueInv ==
    /\ \A i \in 1..Len(queue) : thread[queue[i]] = "pooled"
    /\ \A i, k \in 1..Len(queue) : queue[i] = queue[k] => i = k

IInv ==
    /\ TypeOK
    /\ QueueInv
    /\ \A j \in Jobs : JobInv(j)

-----------------------------------------------------------------------------
\* The records that the locked blocks assemble are records.
LEMMA RecordTypes ==
  ASSUME TypeOK, NEW j \in Jobs
  PROVE  /\ [status |-> "queued", pid |-> FALSE, code |-> "none"] \in Record
         /\ Absent \in Record
         /\ \A s \in Status : With(j, s) \in Record
         /\ [records[j] EXCEPT !.pid = TRUE] \in Record
         /\ \A s \in Status, c \in ExitCode :
               [With(j, s) EXCEPT !.code = c] \in Record
         /\ Loaded(j) \in Record
<1>1. records[j] \in Record /\ disk[j] \in Record
  BY DEF TypeOK
<1> QED
  BY <1>1 DEF Record, Absent, With, Loaded, Status, Terminal, ExitCode

\* Storing a record, with a write that succeeds or fails, keeps the types.
LEMMA StoreType ==
  ASSUME TypeOK, NEW j \in Jobs, NEW r \in Record,
         Remember(j, r), Persisted(j, r) \/ PersistFailed
  PROVE  /\ records' \in [Jobs -> Record]
         /\ disk' \in [Jobs -> Record]
         /\ faults' \in 0..MaxFaults
<1>1. records' \in [Jobs -> Record] /\ disk' \in [Jobs -> Record]
  BY DEF TypeOK, Remember, Persisted, PersistFailed
<1>2. faults' \in 0..MaxFaults
  BY JobsAssumption DEF TypeOK, Persisted, PersistFailed
<1> QED BY <1>1, <1>2

\* Every step keeps the types.
LEMMA TypeStep == TypeOK /\ [Next]_vars => TypeOK'
<1> SUFFICES ASSUME TypeOK, [Next]_vars PROVE TypeOK'
  OBVIOUS
<1> DEFINE T == {"none", "alive"} \cup ExitCode
<1>0. \A t \in Thread : \A j \in Jobs :
          Goto(j, t) => thread' \in [Jobs -> Thread]
  BY DEF TypeOK, Goto
<1> USE DEF TypeOK
<1>1. ASSUME NEW j \in Jobs, Submit(j) PROVE TypeOK'
  <2>1. thread' \in [Jobs -> Thread]
    BY <1>1, <1>0 DEF Submit, Thread
  <2> QED BY <1>1, <2>1, RecordTypes, StoreType DEF Submit, world
<1>2. ASSUME NEW j \in Jobs, Enqueue(j) PROVE TypeOK'
  <2>1. thread' \in [Jobs -> Thread]
    BY <1>2, <1>0 DEF Enqueue, Thread
  <2>2. queue' = Append(queue, j) \/ queue' = queue
    BY <1>2 DEF Enqueue
  <2>3. queue \in Seq(Jobs) => Append(queue, j) \in Seq(Jobs)
    <3> HIDE DEF TypeOK
    <3> QED OBVIOUS
  <2>4. queue' \in Seq(Jobs)
    BY <2>2, <2>3
  <2> QED BY <1>2, <2>1, <2>4 DEF Enqueue, world
<1>3. ASSUME NEW j \in Jobs, Execute(j) PROVE TypeOK'
  <2>1. CASE Begin(j)
    <3>1. queue' \in Seq(Jobs)
      <4>1. queue # <<>> /\ queue' = Tail(queue)
        BY <2>1 DEF Begin, TakeFromQueue
      <4>2. queue \in Seq(Jobs)
        OBVIOUS
      <4> HIDE DEF TypeOK
      <4> QED BY <4>1, <4>2
    <3>2. thread' \in [Jobs -> Thread]
      BY <2>1, <1>0 DEF Begin, Thread
    <3>3. /\ records' \in [Jobs -> Record]
          /\ disk' \in [Jobs -> Record]
          /\ faults' \in 0..MaxFaults
      <4>1. With(j, "running") \in Record
        BY RecordTypes DEF Status
      <4> QED BY <2>1, <4>1, StoreType DEF Begin
    <3>4. UNCHANGED <<processes, child, signalled, service, restarts>>
      BY <2>1 DEF Begin, world
    <3> QED BY <3>1, <3>2, <3>3, <3>4
  <2>2. CASE Spawn(j)
    <3>1. thread' \in [Jobs -> Thread]
      BY <2>2, <1>0 DEF Spawn, Thread
    <3> QED BY <2>2, <3>1 DEF Spawn
  <2>3. CASE SpawnFails(j)
    <3>1. thread' \in [Jobs -> Thread]
      BY <2>3, <1>0 DEF SpawnFails, Thread
    <3> QED BY <2>3, <3>1 DEF SpawnFails, world
  <2>4. CASE Register(j)
    <3>1. thread' \in [Jobs -> Thread]
      BY <2>4, <1>0 DEF Register, Thread
    <3> QED BY <2>4, <3>1, RecordTypes, StoreType DEF Register, world
  <2>5. CASE Finish(j)
    <3>1. thread' \in [Jobs -> Thread]
      BY <2>5, <1>0 DEF Finish, Thread
    <3>2. [With(j, FinalStatus(j)) EXCEPT !.code = child[j]] \in Record
      <4>1. FinalStatus(j) \in Status
        BY DEF FinalStatus, Status, Terminal
      <4> QED BY <2>5, <4>1, RecordTypes DEF Finish, Ended
    <3> QED BY <2>5, <3>1, <3>2, StoreType DEF Finish, world
  <2>6. CASE Fail(j)
    <3>1. thread' \in [Jobs -> Thread]
      BY <2>6, <1>0 DEF Fail, Thread
    <3>2. With(j, "failed") \in Record
      BY RecordTypes DEF Status, Terminal
    <3> QED BY <2>6, <3>1, <3>2, StoreType DEF Fail, world
  <2> QED BY <1>3, <2>1, <2>2, <2>3, <2>4, <2>5, <2>6 DEF Execute
<1>4. ASSUME NEW j \in Jobs, Cancel(j) PROVE TypeOK'
  <2>1. With(j, "cancelled") \in Record
    BY RecordTypes DEF Status, Terminal
  <2> QED BY <1>4, <2>1, StoreType DEF Cancel
<1>5. ASSUME NEW j \in Jobs, ChildExit(j) PROVE TypeOK'
  <2>1. child' \in [Jobs -> T]
    BY <1>5 DEF ChildExit
  <2> QED BY <1>5, <2>1 DEF ChildExit, memory
<1>6. CASE Shutdown
  <2>1. thread' \in [Jobs -> Thread]
    BY <1>6 DEF Shutdown, Thread
  <2> QED BY <1>6, <2>1 DEF Shutdown, world
<1>7. CASE Crash
  <2>1. records' \in [Jobs -> Record]
    BY <1>7, RecordTypes DEF Crash
  <2>2. thread' \in [Jobs -> Thread]
    BY <1>7 DEF Crash, Thread
  <2>3. restarts' \in 0..MaxRestarts
    BY <1>7, JobsAssumption DEF Crash
  <2> QED BY <1>7, <2>1, <2>2, <2>3 DEF Crash, world
<1>8. CASE Restart
  <2>1. records' \in [Jobs -> Record] /\ disk' \in [Jobs -> Record]
    BY <1>8, RecordTypes DEF Restart
  <2> QED BY <1>8, <2>1 DEF Restart, world
<1>9. CASE UNCHANGED vars
  BY <1>9 DEF vars
<1> QED
  BY <1>1, <1>2, <1>3, <1>4, <1>5, <1>6, <1>7, <1>8, <1>9 DEF Next

\* The initial state is well typed.
LEMMA TypeInit == Init => TypeOK
BY JobsAssumption DEF Init, TypeOK, Absent, Record, Status, ExitCode, Thread

\* In every reachable state of the supervisor every variable has its type.
THEOREM TypeCorrect == Spec => []TypeOK
BY TypeInit, TypeStep, PTL DEF Spec

-----------------------------------------------------------------------------
\* A step that leaves everything about a job alone keeps the job's invariant.
Untouched(k) ==
    /\ records'[k] = records[k] /\ disk'[k] = disk[k]
    /\ thread'[k] = thread[k] /\ child'[k] = child[k]
    /\ k \in processes' <=> k \in processes
    /\ k \in signalled' <=> k \in signalled
    /\ service' = "down" => service = "down"

\* A job that no step touches keeps its invariant.
LEMMA Frame ==
  ASSUME NEW k \in Jobs, JobInv(k), Untouched(k)
  PROVE  JobInv(k)'
BY DEF JobInv, StageInv, FileInv, Truth, ProtectedInv, Untouched

\* The steps of one job leave every other job untouched.
JobStep(j) ==
    Submit(j) \/ Enqueue(j) \/ Execute(j) \/ Cancel(j) \/ ChildExit(j)

\* A step for one job touches no other.
LEMMA OthersUntouched ==
  ASSUME TypeOK, NEW j \in Jobs, JobStep(j), NEW k \in Jobs, k # j
  PROVE  Untouched(k)
<1> USE DEF TypeOK, Untouched, Remember, Persisted, PersistFailed, Goto,
            memory, world
<1>1. CASE Submit(j)
  BY <1>1 DEF Submit
<1>2. CASE Enqueue(j)
  BY <1>2 DEF Enqueue
<1>3. CASE Begin(j)
  BY <1>3 DEF Begin
<1>4. CASE Spawn(j) \/ SpawnFails(j)
  BY <1>4 DEF Spawn, SpawnFails
<1>5. CASE Register(j)
  BY <1>5 DEF Register
<1>6. CASE Finish(j)
  BY <1>6 DEF Finish
<1>7. CASE Fail(j)
  BY <1>7 DEF Fail
<1>8. CASE Cancel(j)
  BY <1>8 DEF Cancel
<1>9. CASE ChildExit(j)
  BY <1>9 DEF ChildExit
<1> QED
  BY <1>1, <1>2, <1>3, <1>4, <1>5, <1>6, <1>7, <1>8, <1>9 DEF JobStep, Execute

\* What a stored record looks like, for the job it is stored for.
LEMMA Stored ==
  ASSUME TypeOK, NEW j \in Jobs, NEW r,
         Remember(j, r), Persisted(j, r) \/ PersistFailed
  PROVE  records'[j] = r /\ (disk'[j] = r \/ disk'[j] = disk[j])
BY DEF TypeOK, Remember, Persisted, PersistFailed

\* A status written keeps the process and the exit code.
LEMMA WithFields ==
  ASSUME TypeOK, NEW j \in Jobs, NEW s \in Status
  PROVE  /\ With(j, s).status = s
         /\ With(j, s).pid = records[j].pid
         /\ With(j, s).code = records[j].code
BY DEF TypeOK, Record, With

\* The acting job keeps its invariant.
LEMMA ActorStep ==
  ASSUME IInv, NEW j \in Jobs, JobStep(j), TypeOK'
  PROVE  JobInv(j)'
<1>0. TypeOK /\ JobInv(j)
  BY DEF IInv
<1>a. /\ thread[j] \in Thread /\ records[j] \in Record /\ disk[j] \in Record
      /\ child[j] \in {"none", "alive"} \cup ExitCode
  BY <1>0 DEF TypeOK
<1>b. \A t : Goto(j, t) => thread'[j] = t
  BY <1>0 DEF TypeOK, Goto
<1> USE DEF JobInv, StageInv, FileInv, Truth, ProtectedInv, Executing, Terminal,
            world
<1>1. CASE Submit(j)
  <2> DEFINE r == [status |-> "queued", pid |-> FALSE, code |-> "none"]
  <2>1. records'[j] = r /\ (disk'[j] = r \/ disk'[j] = disk[j])
    BY <1>0, <1>1, Stored DEF Submit
  <2>2. CASE Persisted(j, r) /\ Goto(j, "submitting")
    <3>1. disk'[j] = r /\ thread'[j] = "submitting"
      BY <2>2, <1>0, <1>b DEF Persisted, TypeOK
    <3> QED BY <1>0, <1>1, <2>1, <3>1 DEF Submit
  <2>3. CASE PersistFailed /\ UNCHANGED thread
    BY <1>0, <1>1, <2>1, <2>3 DEF Submit, PersistFailed
  <2> QED BY <1>1, <2>2, <2>3 DEF Submit
<1>2. CASE Enqueue(j)
  <2>1. thread'[j] \in {"pooled", "none"}
    BY <1>2, <1>b DEF Enqueue
  <2> QED BY <1>0, <1>2, <2>1 DEF Enqueue
<1>3. CASE Begin(j)
  <2>1. thread[j] = "pooled"
    BY <1>3 DEF IInv, QueueInv, TypeOK, Begin
  <2>2. CASE records[j].status = "cancelled" /\ UNCHANGED <<records, disk>>
    BY <1>0, <1>3, <1>b, <2>1, <2>2 DEF Begin
  <2>3. CASE records[j].status # "cancelled" /\ Remember(j, With(j, "running"))
    <3>1. /\ records'[j] = With(j, "running")
          /\ \/ disk'[j] = With(j, "running") /\ thread'[j] = "opening"
             \/ disk'[j] = disk[j] /\ thread'[j] = "none"
      BY <1>0, <1>3, <1>b, <2>3 DEF Begin, TypeOK, Remember, Persisted,
         PersistFailed
    <3>2. /\ With(j, "running").status = "running"
          /\ With(j, "running").pid = records[j].pid
          /\ With(j, "running").code = records[j].code
      BY <1>0, WithFields DEF Status
    <3> QED BY <1>0, <1>3, <2>1, <2>3, <3>1, <3>2 DEF Begin
  <2> QED BY <1>3, <2>2, <2>3 DEF Begin
<1>4. CASE Spawn(j)
  <2>1. thread'[j] = "registering" /\ child'[j] = "alive"
    BY <1>0, <1>4, <1>b DEF Spawn, TypeOK
  <2> QED BY <1>0, <1>4, <2>1 DEF Spawn, ExitCode
<1>5. CASE SpawnFails(j)
  BY <1>0, <1>5, <1>b DEF SpawnFails
<1>6. CASE Register(j)
  <2> DEFINE r == [records[j] EXCEPT !.pid = TRUE]
  <2>1. records'[j] = r /\ (disk'[j] = r \/ disk'[j] = disk[j])
    BY <1>0, <1>6, Stored DEF Register
  <2>2. r.status = records[j].status /\ r.code = records[j].code /\ r.pid
    BY <1>a DEF Record
  <2>3. thread'[j] \in {"waiting", "failing"} /\ j \in processes'
    BY <1>6, <1>b DEF Register
  <2> QED BY <1>0, <1>6, <2>1, <2>2, <2>3 DEF Register
<1>7. CASE Finish(j)
  <2> DEFINE r == [With(j, FinalStatus(j)) EXCEPT !.code = child[j]]
  <2>1. /\ records'[j] = r /\ j \notin processes'
        /\ \/ disk'[j] = r /\ thread'[j] = "none"
           \/ disk'[j] = disk[j] /\ thread'[j] = "failing"
    BY <1>0, <1>7, <1>b DEF Finish, TypeOK, Remember, Persisted, PersistFailed
  <2>2. /\ r.status = FinalStatus(j) /\ r.code = child[j]
        /\ r.pid = records[j].pid
    BY <1>a DEF With, Record
  <2>3. /\ FinalStatus(j) \in {"cancelled", "completed", "failed"}
        /\ FinalStatus(j) = "completed" => child[j] = "zero"
        /\ FinalStatus(j) = "cancelled" => records[j].status = "cancelled"
    BY DEF FinalStatus
  <2> QED BY <1>0, <1>7, <2>1, <2>2, <2>3 DEF Finish, Ended
<1>8. CASE Fail(j)
  <2> DEFINE r == With(j, "failed")
  <2>1. records'[j] = r /\ (disk'[j] = r \/ disk'[j] = disk[j])
    BY <1>0, <1>8, Stored DEF Fail
  <2>2. r.status = "failed" /\ r.pid = records[j].pid /\ r.code = records[j].code
    BY <1>0, WithFields DEF Status
  <2>3. thread'[j] = "none" /\ j \notin processes'
    BY <1>8, <1>b DEF Fail
  <2> QED BY <1>0, <1>8, <2>1, <2>2, <2>3 DEF Fail
<1>9. CASE Cancel(j)
  <2> DEFINE r == With(j, "cancelled")
  <2>1. records'[j] = r /\ (disk'[j] = r \/ disk'[j] = disk[j])
    BY <1>0, <1>9, Stored DEF Cancel
  <2>2. /\ r.status = "cancelled" /\ r.pid = records[j].pid
        /\ r.code = records[j].code
    BY <1>0, WithFields DEF Status
  <2>3. j \in Protected => records[j].status = "queued" /\ j \notin signalled'
    BY <1>0, <1>9 DEF Cancel, MayCancel
  <2> QED BY <1>0, <1>9, <1>a, <2>1, <2>2, <2>3
         DEF Cancel, MayCancel, Thread, Absent
<1>10. CASE ChildExit(j)
  <2>1. child[j] = "alive" /\ child'[j] \in ExitCode
    BY <1>0, <1>10 DEF ChildExit, TypeOK
  <2> QED BY <1>0, <1>a, <1>10, <2>1 DEF ChildExit, memory, ExitCode, Record
<1> QED
  BY <1>1, <1>2, <1>3, <1>4, <1>5, <1>6, <1>7, <1>8, <1>9, <1>10
     DEF JobStep, Execute

\* The queue holds each waiting job once.
LEMMA QueueStep ==
  ASSUME IInv, [Next]_vars, TypeOK'
  PROVE  QueueInv'
<1> USE DEF IInv, TypeOK, QueueInv
<1>1. ASSUME NEW j \in Jobs, Enqueue(j) PROVE QueueInv'
  <2>1. CASE service = "up"
    <3>1. /\ queue' = Append(queue, j) /\ thread[j] = "submitting"
          /\ thread' = [thread EXCEPT ![j] = "pooled"]
      BY <1>1, <2>1 DEF Enqueue, Goto
    <3>2. /\ Len(queue') = Len(queue) + 1 /\ queue'[Len(queue) + 1] = j
          /\ \A i \in 1..Len(queue) : queue'[i] = queue[i] /\ queue[i] \in Jobs
      BY <3>1
    <3>3. \A i \in 1..Len(queue) : queue[i] # j
      BY <3>1
    <3> QED BY <3>1, <3>2, <3>3
  <2>2. CASE service # "up"
    <3>1. /\ queue' = queue /\ thread[j] = "submitting"
          /\ thread' = [thread EXCEPT ![j] = "none"]
      BY <1>1, <2>2 DEF Enqueue, Goto
    <3> QED BY <3>1
  <2> QED BY <2>1, <2>2
<1>2. ASSUME NEW j \in Jobs, Begin(j) PROVE QueueInv'
  <2>1. /\ queue # <<>> /\ j = queue[1] /\ queue' = Tail(queue)
        /\ \A k \in Jobs : k # j => thread'[k] = thread[k]
    BY <1>2 DEF Begin, TakeFromQueue, Goto
  <2>2. /\ Len(queue') = Len(queue) - 1
        /\ \A i \in 1..Len(queue') : queue'[i] = queue[i + 1]
                                    /\ i + 1 \in 1..Len(queue)
    BY <2>1
  <2>3. \A i \in 1..Len(queue') : queue'[i] # j /\ queue'[i] \in Jobs
    BY <2>1, <2>2
  <2> QED BY <2>1, <2>2, <2>3
<1>3. ASSUME NEW j \in Jobs,
             \/ Submit(j) \/ Spawn(j) \/ SpawnFails(j) \/ Register(j)
             \/ Finish(j) \/ Fail(j)
      PROVE  QueueInv'
  <2>1. thread[j] # "pooled" /\ queue' = queue
    BY <1>3 DEF Submit, Spawn, SpawnFails, Register, Finish, Fail,
                JobInv, StageInv, world
  <2>2. \A k \in Jobs : k # j => thread'[k] = thread[k]
    BY <1>3 DEF Submit, Spawn, SpawnFails, Register, Finish, Fail, Goto
  <2> QED BY <2>1, <2>2
<1>4. ASSUME NEW j \in Jobs, Cancel(j) \/ ChildExit(j) PROVE QueueInv'
  BY <1>4 DEF Cancel, ChildExit, memory
<1>5. CASE Shutdown \/ Crash
  BY <1>5 DEF Shutdown, Crash
<1>6. CASE Restart \/ UNCHANGED vars
  BY <1>6 DEF Restart, vars
<1> QED
  BY <1>1, <1>2, <1>3, <1>4, <1>5, <1>6 DEF Next, Execute

\* The steps of the service itself keep the invariant of every job.
LEMMA ServiceStep ==
  ASSUME IInv, Shutdown \/ Crash \/ Restart, NEW k \in Jobs
  PROVE  JobInv(k)'
<1>0. TypeOK /\ JobInv(k)
  BY DEF IInv
<1> USE DEF JobInv, StageInv, FileInv, Truth, ProtectedInv, Executing, Terminal,
            world
<1>1. CASE Shutdown
  <2>1. thread'[k] = IF thread[k] = "pooled" THEN "none" ELSE thread[k]
    BY <1>1 DEF Shutdown
  <2> QED BY <1>0, <1>1, <2>1 DEF Shutdown
<1>2. CASE Crash
  <2>1. records'[k] = Absent /\ thread'[k] = "none" /\ k \notin processes'
    BY <1>2 DEF Crash
  <2> QED BY <1>0, <1>2, <2>1 DEF Crash, Absent
<1>3. CASE Restart
  <2>1. records'[k] = Loaded(k) /\ disk'[k] = Loaded(k)
    BY <1>3 DEF Restart
  <2>2. /\ Loaded(k).pid = disk[k].pid /\ Loaded(k).code = disk[k].code
        /\ Loaded(k).status = IF disk[k].status \in {"queued", "running"}
                              THEN "failed" ELSE disk[k].status
    BY <1>0 DEF Loaded, TypeOK, Record
  <2>3. thread[k] = "none"
    BY <1>0, <1>3 DEF Restart
  <2>4. disk[k].status \in Status
    BY <1>0 DEF TypeOK, Record
  <2> QED BY <1>0, <1>3, <2>1, <2>2, <2>3, <2>4 DEF Restart, Status
<1> QED BY <1>1, <1>2, <1>3

\* IInv is inductive.
LEMMA InvInit == Init => IInv
<1> SUFFICES ASSUME Init PROVE IInv
  OBVIOUS
<1>1. \A j \in Jobs : JobInv(j)
  BY DEF Init, JobInv, StageInv, FileInv, Truth, ProtectedInv, Absent,
         Executing, Terminal
<1>2. QueueInv
  BY DEF Init, QueueInv
<1> QED BY <1>1, <1>2, TypeInit DEF IInv

\* The invariant over every step.
LEMMA InvStep == IInv /\ [Next]_vars => IInv'
<1> SUFFICES ASSUME IInv, [Next]_vars PROVE IInv'
  OBVIOUS
<1>1. TypeOK /\ TypeOK'
  BY TypeStep DEF IInv
<1>2. QueueInv'
  BY <1>1, QueueStep
<1>3. ASSUME NEW k \in Jobs PROVE JobInv(k)'
  <2>1. ASSUME NEW j \in Jobs, JobStep(j) PROVE JobInv(k)'
    <3>1. CASE k = j
      BY <1>1, <2>1, <3>1, ActorStep
    <3>2. CASE k # j
      BY <1>1, <2>1, <3>2, OthersUntouched, Frame DEF IInv
    <3> QED BY <3>1, <3>2
  <2>2. CASE Shutdown \/ Crash \/ Restart
    BY <2>2, ServiceStep
  <2>3. CASE UNCHANGED vars
    BY <2>3, Frame DEF vars, Untouched, IInv
  <2> QED BY <2>1, <2>2, <2>3 DEF Next, JobStep
<1> QED BY <1>1, <1>2, <1>3 DEF IInv

\* IInv holds in every reachable state.
THEOREM Invariance == Spec => []IInv
BY InvInit, InvStep, PTL DEF Spec

-----------------------------------------------------------------------------
\* For every pool size and set of jobs: a locked test or formal experiment
\* whose child was started is never signalled and never recorded as cancelled.
THEOREM ProtectedSafe == Spec => []ProtectedUninterrupted
<1>1. IInv => ProtectedUninterrupted
  BY JobsAssumption DEF IInv, JobInv, ProtectedInv, ProtectedUninterrupted
<1> QED BY <1>1, Invariance, PTL

\* What a record in memory or on disk says about its child is always true.
THEOREM RecordsTruthful == Spec => []RecordsTellTheTruth
<1>1. IInv => RecordsTellTheTruth
  BY DEF IInv, JobInv, Truth, RecordsTellTheTruth
<1> QED BY <1>1, Invariance, PTL

-----------------------------------------------------------------------------
\* The outcome in job.json, once written, survives every step; the handler of
\* OSError may only turn "cancelled" into "failed".
LEMMA OutcomeStep ==
  ASSUME IInv, [Next]_vars, NEW k \in Jobs, disk[k].status \in Terminal
  PROVE  \/ disk'[k].status = disk[k].status
         \/ disk[k].status = "cancelled" /\ disk'[k].status = "failed"
<1>0. TypeOK /\ JobInv(k)
  BY DEF IInv
<1> USE DEF JobInv, StageInv, FileInv, Terminal, Executing
<1>1. ASSUME NEW j \in Jobs, JobStep(j), k # j
      PROVE  disk'[k].status = disk[k].status
  BY <1>0, <1>1, OthersUntouched DEF Untouched
<1>2. CASE Submit(k) \/ Cancel(k)
  BY <1>0, <1>2 DEF Submit, Cancel, MayCancel
<1>3. CASE Enqueue(k) \/ Spawn(k) \/ SpawnFails(k) \/ ChildExit(k)
  BY <1>3 DEF Enqueue, Spawn, SpawnFails, ChildExit
<1>4. CASE Begin(k)
  <2>1. thread[k] = "pooled"
    BY <1>4 DEF IInv, QueueInv, TypeOK, Begin
  <2> QED BY <1>0, <1>4, <2>1 DEF Begin, PersistFailed
<1>5. CASE Register(k)
  <2> DEFINE r == [records[k] EXCEPT !.pid = TRUE]
  <2>1. r.status = records[k].status
    BY <1>0 DEF TypeOK, Record
  <2>2. disk'[k] = r \/ disk'[k] = disk[k]
    BY <1>0, <1>5, Stored DEF Register
  <2> QED BY <1>0, <1>5, <2>1, <2>2 DEF Register
<1>6. CASE Finish(k)
  <2> DEFINE r == [With(k, FinalStatus(k)) EXCEPT !.code = child[k]]
  <2>1. r.status = FinalStatus(k)
    BY <1>0 DEF With, TypeOK, Record
  <2>2. disk'[k] = r \/ disk'[k] = disk[k]
    BY <1>0, <1>6, Stored DEF Finish
  <2> QED BY <1>0, <1>6, <2>1, <2>2 DEF Finish, FinalStatus
<1>7. CASE Fail(k)
  <2>1. With(k, "failed").status = "failed"
    BY <1>0, WithFields DEF Status
  <2>2. disk'[k] = With(k, "failed") \/ disk'[k] = disk[k]
    BY <1>0, <1>7, Stored DEF Fail
  <2> QED BY <1>0, <1>7, <2>1, <2>2 DEF Fail
<1>8. CASE Shutdown \/ Crash \/ Restart \/ UNCHANGED vars
  BY <1>8 DEF Shutdown, Crash, Restart, Loaded, vars
<1> QED
  BY <1>1, <1>2, <1>3, <1>4, <1>5, <1>6, <1>7, <1>8
     DEF Next, Execute, JobStep

\* A job's file keeps its outcome for ever, whatever races, failing writes and
\* restarts the service goes through.
THEOREM OutcomeDurable == Spec => DurableOutcome
<1>1. IInv /\ [Next]_vars =>
        [\A j \in Jobs : disk[j].status \in Terminal =>
            \/ disk'[j].status = disk[j].status
            \/ disk[j].status = "cancelled" /\ disk'[j].status = "failed"]_vars
  BY OutcomeStep
<1> QED BY <1>1, Invariance, PTL DEF Spec, DurableOutcome

\* The command of a job is started at most once.
THEOREM CommandStartedOnce == Spec => StartedOnce
<1>1. ASSUME IInv, [Next]_vars, NEW k \in Jobs, child[k] \in ExitCode
      PROVE  child'[k] = child[k]
  <2>0. TypeOK /\ JobInv(k)
    BY <1>1 DEF IInv
  <2>1. ASSUME NEW j \in Jobs, JobStep(j), k # j PROVE child'[k] = child[k]
    BY <2>0, <2>1, OthersUntouched DEF Untouched
  <2>2. CASE Spawn(k) \/ ChildExit(k)
    BY <1>1, <2>0, <2>2 DEF JobInv, StageInv, Spawn, ChildExit, ExitCode
  <2>3. CASE \/ Submit(k) \/ Enqueue(k) \/ Begin(k) \/ SpawnFails(k)
             \/ Register(k) \/ Finish(k) \/ Fail(k) \/ Cancel(k)
    BY <2>3 DEF Submit, Enqueue, Begin, SpawnFails, Register, Finish, Fail,
                Cancel, world
  <2>4. CASE Shutdown \/ Crash \/ Restart \/ UNCHANGED vars
    BY <2>4 DEF Shutdown, Crash, Restart, vars, world
  <2> QED BY <1>1, <2>1, <2>2, <2>3, <2>4 DEF Next, Execute, JobStep
<1>2. IInv /\ [Next]_vars =>
        [\A j \in Jobs : child[j] \in ExitCode => child'[j] = child[j]]_vars
  BY <1>1
<1> QED BY <1>2, Invariance, PTL DEF Spec, StartedOnce

-----------------------------------------------------------------------------
\* Threads that hold a worker of the pool.
Busy == {j \in Jobs : thread[j] \in Executing}

\* What Supervised adds for one job: an active record has a thread or a future,
\* and a live child a thread that waits for it.
AttendedInv(j) ==
    /\ records[j].status = "running" => thread[j] \in Executing
    /\ records[j].status = "queued" =>
          thread[j] \in {"submitting", "pooled"} \/ service = "closed"
    /\ restarts = 0 /\ child[j] = "alive" => thread[j] \in {"registering", "waiting"}

\* Supervised, strengthened: the pool is never overbooked.
SupervisedInv ==
    /\ DiskAgrees
    /\ Cardinality(Busy) <= Workers
    /\ faults = 0 => \A j \in Jobs : AttendedInv(j)

\* Counters of the environment only grow.
LEMMA CountersGrow ==
  ASSUME TypeOK, [Next]_vars
  PROVE  /\ faults' = 0 => faults = 0 /\ UNCHANGED faults
         /\ restarts' = 0 => restarts = 0
<1> USE DEF TypeOK, PersistFailed, Persisted
<1>1. ASSUME NEW j \in Jobs, JobStep(j)
      PROVE  (faults' = faults \/ faults' = faults + 1) /\ restarts' = restarts
  BY <1>1 DEF JobStep, Execute, Submit, Enqueue, Begin, Spawn, SpawnFails,
              Register, Finish, Fail, Cancel, ChildExit
<1>2. CASE Shutdown \/ Crash \/ Restart \/ UNCHANGED vars
  BY <1>2 DEF Shutdown, Crash, Restart, vars
<1>3. faults \in Nat /\ restarts \in Nat
  BY JobsAssumption
<1> QED BY <1>1, <1>2, <1>3 DEF Next, JobStep

\* A step of a job writes the record it stores, or its write fails.
LEMMA StoresAreWritten ==
  ASSUME NEW j \in Jobs, JobStep(j)
  PROVE  \/ PersistFailed
         \/ UNCHANGED <<records, disk>>
         \/ \E r : Remember(j, r) /\ Persisted(j, r)
<1>1. CASE Submit(j)
  BY <1>1 DEF Submit
<1>2. CASE Enqueue(j) \/ Spawn(j) \/ SpawnFails(j) \/ ChildExit(j)
  BY <1>2 DEF Enqueue, Spawn, SpawnFails, ChildExit, memory
<1>3. CASE Begin(j)
  BY <1>3 DEF Begin
<1>4. CASE Register(j)
  BY <1>4 DEF Register
<1>5. CASE Finish(j)
  BY <1>5 DEF Finish
<1>6. CASE Fail(j)
  BY <1>6 DEF Fail
<1>7. CASE Cancel(j)
  BY <1>7 DEF Cancel
<1> QED
  BY <1>1, <1>2, <1>3, <1>4, <1>5, <1>6, <1>7 DEF JobStep, Execute

\* Only a service that is not down acts for a job; only the world outlives it.
LEMMA ServiceActs ==
  ASSUME IInv, NEW j \in Jobs, JobStep(j)
  PROVE  service # "down" \/ UNCHANGED <<records, disk>>
<1> USE DEF IInv, JobInv, StageInv, FileInv, Executing, Absent
<1>1. CASE Submit(j) \/ Cancel(j)
  BY <1>1 DEF Submit, Cancel, MayCancel
<1>2. CASE Enqueue(j) \/ ChildExit(j) \/ Spawn(j) \/ SpawnFails(j)
  BY <1>2 DEF Enqueue, ChildExit, Spawn, SpawnFails, memory
<1>3. CASE Begin(j)
  <2>1. thread[j] = "pooled"
    BY <1>3 DEF QueueInv, TypeOK, Begin
  <2> QED BY <2>1
<1>4. CASE Register(j) \/ Finish(j) \/ Fail(j)
  <2>1. thread[j] # "none"
    BY <1>4 DEF Register, Finish, Fail
  <2> QED BY <2>1
<1> QED BY <1>1, <1>2, <1>3, <1>4 DEF JobStep, Execute

\* Without a failing write, disk and memory of a running service agree.
LEMMA DiskFollows ==
  ASSUME IInv, DiskAgrees, [Next]_vars, faults' = 0
  PROVE  DiskAgrees'
<1>0. TypeOK /\ faults = 0 /\ ~PersistFailed
  BY CountersGrow DEF IInv, PersistFailed
<1>1. ASSUME NEW j \in Jobs, JobStep(j) PROVE DiskAgrees'
  <2>1. service' = service
    BY <1>1 DEF JobStep, Execute, Submit, Enqueue, Begin, Spawn, SpawnFails,
                Register, Finish, Fail, Cancel, ChildExit
  <2>2. CASE UNCHANGED <<records, disk>>
    BY <1>0, <2>1, <2>2 DEF DiskAgrees
  <2>3. CASE \E r : Remember(j, r) /\ Persisted(j, r)
    BY <1>0, <1>1, <2>1, <2>3, ServiceActs DEF DiskAgrees, Remember, Persisted
  <2> QED BY <1>0, <1>1, <2>2, <2>3, StoresAreWritten
<1>2. CASE Shutdown \/ Crash \/ Restart \/ UNCHANGED vars
  BY <1>0, <1>2 DEF DiskAgrees, Shutdown, Crash, Restart, vars
<1> QED BY <1>1, <1>2 DEF Next, JobStep

\* One more thread makes at most one more busy worker, and only Begin adds one.
LEMMA PoolBounded ==
  ASSUME IInv, Cardinality(Busy) <= Workers, [Next]_vars
  PROVE  Cardinality(Busy') <= Workers
<1>0. TypeOK /\ IsFiniteSet(Busy) /\ Workers \in Nat
  <2>1. Busy \subseteq Jobs
    BY DEF Busy
  <2> QED BY <2>1, JobsAssumption, FS_Subset DEF IInv
<1>1. ASSUME Busy' \subseteq Busy PROVE Cardinality(Busy') <= Workers
  <2>1. Cardinality(Busy') <= Cardinality(Busy)
    BY <1>0, <1>1, FS_Subset
  <2>2. Cardinality(Busy) \in Nat /\ Cardinality(Busy') \in Nat
    BY <1>0, <1>1, FS_Subset, FS_CardinalityType
  <2> QED BY <1>0, <2>1, <2>2
<1>2. ASSUME NEW j \in Jobs, Begin(j) PROVE Cardinality(Busy') <= Workers
  <2>1. Busy' \subseteq Busy \cup {j}
    BY <1>0, <1>2 DEF Begin, Goto, Busy, TypeOK
  <2>2. Cardinality(Busy) < Workers
    BY <1>2 DEF Begin, FreeWorker, Busy
  <2>3. /\ IsFiniteSet(Busy \cup {j})
        /\ Cardinality(Busy \cup {j}) <= Cardinality(Busy) + 1
    <3>1. Cardinality(Busy) \in Nat
      BY <1>0, FS_CardinalityType
    <3>2. /\ IsFiniteSet(Busy \cup {j})
          /\ Cardinality(Busy \cup {j}) =
                IF j \in Busy THEN Cardinality(Busy) ELSE Cardinality(Busy) + 1
      BY <1>0, FS_AddElement, Zenon
    <3> QED BY <3>1, <3>2
  <2>4. Cardinality(Busy') <= Cardinality(Busy \cup {j})
    BY <2>1, <2>3, FS_Subset
  <2>5. /\ Cardinality(Busy) \in Nat /\ Cardinality(Busy') \in Nat
        /\ Cardinality(Busy \cup {j}) \in Nat
    BY <1>0, <2>1, <2>3, FS_Subset, FS_CardinalityType
  <2> QED BY <1>0, <2>2, <2>3, <2>4, <2>5
<1>3. ASSUME NEW j \in Jobs,
             \/ Submit(j) \/ Enqueue(j) \/ Spawn(j) \/ SpawnFails(j)
             \/ Register(j) \/ Finish(j) \/ Fail(j)
      PROVE  Busy' \subseteq Busy
  BY <1>0, <1>3 DEF Submit, Enqueue, Spawn, SpawnFails, Register, Finish, Fail,
     Goto, Busy, Executing, TypeOK
<1>4. ASSUME NEW j \in Jobs, Cancel(j) \/ ChildExit(j)
      PROVE  Busy' \subseteq Busy
  BY <1>4 DEF Cancel, ChildExit, memory, Busy
<1>5. CASE Shutdown \/ Crash \/ Restart \/ UNCHANGED vars
  BY <1>1, <1>5 DEF Shutdown, Crash, Restart, vars, Busy, Executing
<1> QED
  BY <1>1, <1>2, <1>3, <1>4, <1>5 DEF Next, Execute

\* Without faults a job stays attended to.
LEMMA AttendedStep ==
  ASSUME IInv, faults = 0, NEW k \in Jobs, AttendedInv(k), [Next]_vars, faults' = 0
  PROVE  AttendedInv(k)'
<1>0. TypeOK /\ JobInv(k) /\ ~PersistFailed
  BY DEF IInv, PersistFailed
<1>a. restarts' = 0 => restarts = 0
  BY <1>0, CountersGrow
<1>b. \A t : Goto(k, t) => thread'[k] = t
  BY <1>0 DEF TypeOK, Goto
<1> USE DEF AttendedInv, JobInv, StageInv, FileInv, Executing
<1>1. ASSUME NEW j \in Jobs, JobStep(j), k # j PROVE AttendedInv(k)'
  <2>1. Untouched(k)
    BY <1>0, <1>1, OthersUntouched
  <2>2. UNCHANGED <<service, restarts>>
    BY <1>1 DEF JobStep, Execute, Submit, Enqueue, Begin, Spawn, SpawnFails,
                Register, Finish, Fail, Cancel, ChildExit
  <2> QED BY <2>1, <2>2 DEF Untouched
<1>2. CASE Submit(k)
  <2>1. thread'[k] = "submitting" /\ child' = child
    BY <1>0, <1>2, <1>b DEF Submit, world
  <2>2. records'[k].status = "queued"
    BY <1>0, <1>2 DEF Submit, Remember, TypeOK
  <2> QED BY <1>0, <1>2, <2>1, <2>2 DEF Submit
<1>3. CASE Enqueue(k)
  <2>1. thread'[k] = IF service = "up" THEN "pooled" ELSE "none"
    BY <1>3, <1>b DEF Enqueue
  <2> QED BY <1>0, <1>3, <2>1 DEF Enqueue, TypeOK, world
<1>4. CASE Begin(k)
  <2>1. thread[k] = "pooled"
    BY <1>4 DEF IInv, QueueInv, TypeOK, Begin
  <2>2. CASE records[k].status = "cancelled" /\ UNCHANGED records
    BY <1>0, <1>4, <2>1, <2>2 DEF Begin, world
  <2>3. CASE Remember(k, With(k, "running")) /\ Goto(k, "opening")
    <3>1. records'[k].status = "running"
      BY <1>0, <2>3, WithFields DEF Remember, TypeOK, Status
    <3> QED BY <1>0, <1>4, <1>b, <2>1, <2>3, <3>1 DEF Begin, world
  <2> QED BY <1>0, <1>4, <2>2, <2>3 DEF Begin
<1>5. CASE Spawn(k) \/ SpawnFails(k)
  BY <1>0, <1>5, <1>b DEF Spawn, SpawnFails, world
<1>6. CASE Register(k)
  <2>1. records'[k].status = records[k].status
    BY <1>0, <1>6 DEF Register, Remember, TypeOK, Record
  <2> QED BY <1>0, <1>6, <1>b, <2>1 DEF Register
<1>7. CASE Finish(k)
  <2>1. records'[k].status = FinalStatus(k)
    BY <1>0, <1>7 DEF Finish, Remember, With, TypeOK, Record
  <2> QED BY <1>0, <1>7, <1>b, <2>1 DEF Finish, FinalStatus, Ended, ExitCode, world
<1>8. CASE Fail(k)
  <2>1. records'[k].status = "failed"
    BY <1>0, <1>8, WithFields DEF Fail, Remember, TypeOK, Status, Terminal
  <2> QED BY <1>0, <1>8, <1>b, <2>1 DEF Fail, world
<1>9. CASE Cancel(k)
  <2>1. records'[k].status = "cancelled"
    BY <1>0, <1>9, WithFields DEF Cancel, Remember, TypeOK, Status, Terminal
  <2> QED BY <1>0, <1>9, <2>1 DEF Cancel
<1>10. CASE ChildExit(k)
  BY <1>0, <1>10 DEF ChildExit, memory, TypeOK, ExitCode
<1>11. CASE Shutdown
  BY <1>0, <1>11 DEF Shutdown, world
<1>12. CASE Crash
  BY <1>0, <1>12 DEF Crash, Absent, TypeOK
<1>13. CASE Restart
  <2>1. records'[k].status \notin {"queued", "running"}
    BY <1>0, <1>13 DEF Restart, Loaded, TypeOK, Record
  <2> QED BY <1>0, <1>13, <2>1 DEF Restart, world
<1>14. CASE UNCHANGED vars
  BY <1>14 DEF vars
<1> QED
  BY <1>1, <1>2, <1>3, <1>4, <1>5, <1>6, <1>7, <1>8, <1>9, <1>10, <1>11, <1>12,
     <1>13, <1>14 DEF Next, Execute, JobStep

\* For every pool size: a restart loses nothing, no job stays active without a
\* thread, and no child escapes the bound of the pool.
THEOREM SupervisedAlways == Spec => []Supervised
<1>1. Init => SupervisedInv
  <2> SUFFICES ASSUME Init PROVE SupervisedInv
    OBVIOUS
  <2>1. Busy = {}
    BY DEF Init, Busy, Executing
  <2>2. Cardinality(Busy) = 0
    BY <2>1, FS_EmptySet
  <2> QED BY <2>2, JobsAssumption
          DEF Init, SupervisedInv, DiskAgrees, AttendedInv, Absent
<1>2. IInv /\ SupervisedInv /\ [Next]_vars => SupervisedInv'
  <2> SUFFICES ASSUME IInv, SupervisedInv, [Next]_vars PROVE SupervisedInv'
    OBVIOUS
  <2>1. Cardinality(Busy') <= Workers
    BY PoolBounded DEF SupervisedInv
  <2>2. CASE faults' = 0
    <3>1. faults = 0
      BY <2>2, CountersGrow DEF IInv
    <3> QED BY <2>1, <2>2, <3>1, DiskFollows, AttendedStep DEF SupervisedInv
  <2>3. CASE faults' # 0
    BY <2>1, <2>3 DEF SupervisedInv, DiskAgrees
  <2> QED BY <2>2, <2>3
<1>3. IInv /\ SupervisedInv => Supervised
  <2> SUFFICES ASSUME IInv, SupervisedInv PROVE Supervised
    OBVIOUS
  <2>1. ActiveRecordHasThread
    BY DEF SupervisedInv, AttendedInv, ActiveRecordHasThread
  <2>2. ChildrenBounded
    <3> DEFINE Alive == {j \in Jobs : child[j] = "alive"}
    <3> SUFFICES ASSUME restarts = 0, faults = 0
                 PROVE  Cardinality(Alive) <= Workers
      BY DEF ChildrenBounded
    <3>1. Alive \subseteq Busy /\ Busy \subseteq Jobs
      BY DEF SupervisedInv, AttendedInv, Busy, Executing
    <3>2. IsFiniteSet(Busy) /\ IsFiniteSet(Alive)
      BY <3>1, JobsAssumption, FS_Subset
    <3>3. Cardinality(Alive) <= Cardinality(Busy)
      BY <3>1, <3>2, FS_Subset
    <3>4. Cardinality(Alive) \in Nat /\ Cardinality(Busy) \in Nat
      BY <3>2, FS_CardinalityType
    <3> QED BY <3>3, <3>4, JobsAssumption DEF SupervisedInv
  <2> QED BY <2>1, <2>2 DEF Supervised, SupervisedInv
<1> QED BY <1>1, <1>2, <1>3, Invariance, PTL DEF Spec

-----------------------------------------------------------------------------
\* The refinement mapping of JobLedger, by name.
Answers == [k \in Jobs |-> records[k].status]
Files == [k \in Jobs |-> disk[k].status]

\* Storing a record stores its status.
LEMMA StoreMaps ==
  ASSUME TypeOK, NEW j \in Jobs, NEW STATE r, NEW STATE s, r.status = s,
         Remember(j, r), Persisted(j, r) \/ PersistFailed
  PROVE  /\ Answers' = [Answers EXCEPT ![j] = s]
         /\ Files' \in {Files, [Files EXCEPT ![j] = s]}
<1>1. Answers' = [Answers EXCEPT ![j] = s]
  BY DEF TypeOK, Remember, Answers
<1>2. CASE Persisted(j, r)
  <2>1. Files' = [Files EXCEPT ![j] = s]
    BY <1>2 DEF TypeOK, Persisted, Files
  <2> QED BY <1>1, <2>1
<1>3. CASE PersistFailed
  BY <1>1, <1>3 DEF PersistFailed, Files
<1> QED BY <1>2, <1>3

\* A step of one job is a step of the ledger, or none.
LEMMA JobLedgerStep ==
  ASSUME IInv, NEW j \in Jobs, JobStep(j)
  PROVE  Ledger!JobStep(j) \/ UNCHANGED Ledger!ledgerVars
<1>0. TypeOK /\ JobInv(j)
  BY DEF IInv
<1>a. /\ records[j] \in Record /\ disk[j] \in Record
      /\ \A s \in Status : With(j, s) \in Record /\ With(j, s).status = s
  BY <1>0, RecordTypes, WithFields DEF TypeOK
<1>1. CASE Submit(j)
  <2> DEFINE r == [status |-> "queued", pid |-> FALSE, code |-> "none"]
  <2>1. Ledger!Store(j, "queued")
    <3>1. Remember(j, r) /\ (Persisted(j, r) \/ PersistFailed) /\ UNCHANGED child
      BY <1>1 DEF Submit, world
    <3>2. r.status = "queued"
      OBVIOUS
    <3>3. /\ Answers' = [Answers EXCEPT ![j] = "queued"]
          /\ Files' \in {Files, [Files EXCEPT ![j] = "queued"]}
      BY <1>0, <3>1, <3>2, StoreMaps
    <3> QED BY <3>1, <3>3 DEF Ledger!Store, Answers, Files
  <2>2. Ledger!Accept(j)
    BY <1>1, <2>1 DEF Submit, Ledger!Accept
  <2> QED BY <2>2 DEF Ledger!JobStep
<1>2. CASE Enqueue(j) \/ SpawnFails(j)
  BY <1>2 DEF Enqueue, SpawnFails, world, Ledger!ledgerVars
<1>3. CASE Begin(j)
  <2>1. thread[j] = "pooled"
    BY <1>0, <1>3 DEF IInv, QueueInv, TypeOK, Begin
  <2>2. CASE records[j].status = "cancelled"
    BY <1>3, <2>2 DEF Begin, world, Ledger!ledgerVars
  <2>3. CASE records[j].status # "cancelled"
    <3>1. records[j].status = "queued" /\ child[j] = "none"
      BY <1>0, <2>1, <2>3 DEF JobInv, StageInv
    <3>2. /\ Remember(j, With(j, "running"))
          /\ Persisted(j, With(j, "running")) \/ PersistFailed
          /\ UNCHANGED child
      BY <1>3, <2>3 DEF Begin, world
    <3>3. Ledger!Store(j, "running")
      <4>1. With(j, "running") \in Record /\ With(j, "running").status = "running"
        BY <1>a DEF Status
      <4>2. /\ Answers' = [Answers EXCEPT ![j] = "running"]
            /\ Files' \in {Files, [Files EXCEPT ![j] = "running"]}
        BY <1>0, <3>2, <4>1, StoreMaps
      <4> QED BY <3>2, <4>2 DEF Ledger!Store, Answers, Files
    <3>4. Ledger!Run(j)
      BY <3>1, <3>3 DEF Ledger!Run
    <3> QED BY <3>4 DEF Ledger!JobStep
  <2> QED BY <2>2, <2>3
<1>4. CASE Spawn(j)
  <2>1. /\ thread[j] = "opening" /\ child' = [child EXCEPT ![j] = "alive"]
        /\ UNCHANGED <<records, disk>>
    BY <1>4 DEF Spawn
  <2>2. /\ child[j] = "none" /\ records[j].status \in {"running", "cancelled"}
        /\ disk[j].status \in {"running", "cancelled"}
        /\ j \in Protected => records[j].status = "running"
    BY <1>0, <2>1 DEF JobInv, StageInv, ProtectedInv, Executing
  <2>3. disk[j].status = "running" \/ disk[j].status = records[j].status
    BY <1>0, <2>1, <2>2 DEF JobInv, StageInv, FileInv, Terminal
  <2>4. Ledger!Start(j)
    BY <2>1, <2>2, <2>3 DEF Ledger!Start
  <2> QED BY <2>4 DEF Ledger!JobStep
<1>5. CASE Register(j)
  <2> DEFINE r == [records[j] EXCEPT !.pid = TRUE]
  <2>1. r \in Record /\ r.status = records[j].status
    BY <1>0, <1>a, RecordTypes DEF Record
  <2>2. /\ Remember(j, r) /\ (Persisted(j, r) \/ PersistFailed)
        /\ UNCHANGED child
    BY <1>5 DEF Register, world
  <2>3. /\ child[j] # "none" /\ records[j].status \in {"running", "cancelled"}
        /\ disk[j].status \in {"running", "cancelled"}
    BY <1>0, <1>5 DEF Register, JobInv, StageInv, Executing
  <2>4. CASE records[j].status = "cancelled"
    <3>1. r.status = "cancelled"
      BY <2>1, <2>4
    <3>2. /\ Answers' = [Answers EXCEPT ![j] = "cancelled"]
          /\ Files' \in {Files, [Files EXCEPT ![j] = "cancelled"]}
      BY <1>0, <2>2, <3>1, StoreMaps
    <3>3. Ledger!Store(j, "cancelled")
      BY <2>2, <3>2 DEF Ledger!Store, Answers, Files
    <3>4. Ledger!CatchUp(j)
      BY <2>3, <2>4, <3>3 DEF Ledger!CatchUp
    <3> QED BY <3>4 DEF Ledger!JobStep
  <2>5. CASE records[j].status = "running"
    <3>1. disk[j].status = "running"
      BY <1>0, <2>3, <2>5 DEF JobInv, FileInv, Terminal
    <3>2. /\ [k \in Jobs |-> records'[k].status] = [k \in Jobs |-> records[k].status]
          /\ [k \in Jobs |-> disk'[k].status] = [k \in Jobs |-> disk[k].status]
      BY <1>0, <1>5, <2>1, <2>5, <3>1
         DEF Register, Remember, Persisted, PersistFailed, TypeOK
    <3> QED BY <1>5, <3>2 DEF Register, world, Ledger!ledgerVars
  <2> QED BY <2>3, <2>4, <2>5
<1>6. CASE Finish(j)
  <2> DEFINE r == [With(j, FinalStatus(j)) EXCEPT !.code = child[j]]
  <2>1. child[j] \in {"zero", "nonzero"} /\ thread[j] = "waiting"
    BY <1>6 DEF Finish, Ended, ExitCode
  <2>2. r \in Record /\ r.status = FinalStatus(j)
    <3>1. FinalStatus(j) \in Status
      BY DEF FinalStatus, Status, Terminal
    <3> QED BY <1>a, <2>1, <3>1 DEF Record, ExitCode
  <2>3. /\ Answers' = [Answers EXCEPT ![j] = FinalStatus(j)]
        /\ Files' \in {Files, [Files EXCEPT ![j] = FinalStatus(j)]}
        /\ UNCHANGED child
    <3>1. Remember(j, r) /\ (Persisted(j, r) \/ PersistFailed) /\ UNCHANGED child
      BY <1>6 DEF Finish, world
    <3> QED BY <1>0, <2>2, <3>1, StoreMaps
  <2>4. records[j].status \in {"running", "cancelled"}
    BY <1>0, <2>1 DEF JobInv, StageInv
  <2>5. CASE records[j].status = "cancelled"
    <3>1. FinalStatus(j) = "cancelled"
      BY <2>5 DEF FinalStatus
    <3>2. Ledger!Store(j, "cancelled")
      BY <2>3, <3>1 DEF Ledger!Store, Answers, Files
    <3>3. Ledger!Settle(j)
      BY <2>1, <2>5, <3>2 DEF Ledger!Settle
    <3> QED BY <3>3 DEF Ledger!JobStep
  <2>6. CASE records[j].status = "running"
    <3>1. FinalStatus(j) = IF child[j] = "zero" THEN "completed" ELSE "failed"
      BY <2>6 DEF FinalStatus
    <3>2. Ledger!Store(j, IF child[j] = "zero" THEN "completed" ELSE "failed")
      BY <2>3, <3>1 DEF Ledger!Store, Answers, Files
    <3>3. Ledger!Settle(j)
      BY <2>1, <2>6, <3>2 DEF Ledger!Settle
    <3> QED BY <3>3 DEF Ledger!JobStep
  <2> QED BY <2>4, <2>5, <2>6
<1>7. CASE Fail(j)
  <2>1. With(j, "failed") \in Record /\ With(j, "failed").status = "failed"
    BY <1>a DEF Status, Terminal
  <2>2. Ledger!Store(j, "failed")
    <3>1. /\ Remember(j, With(j, "failed"))
          /\ Persisted(j, With(j, "failed")) \/ PersistFailed
          /\ UNCHANGED child
      BY <1>7 DEF Fail, world
    <3>2. /\ Answers' = [Answers EXCEPT ![j] = "failed"]
          /\ Files' \in {Files, [Files EXCEPT ![j] = "failed"]}
      BY <1>0, <2>1, <3>1, StoreMaps
    <3> QED BY <3>1, <3>2 DEF Ledger!Store, Answers, Files
  <2>3. /\ records[j].status \notin {"absent", "queued"}
        /\ disk[j].status \in {"running", "cancelled"}
    BY <1>0, <1>7 DEF Fail, JobInv, StageInv, Executing
  <2>4. Ledger!Break(j)
    BY <2>2, <2>3 DEF Ledger!Break
  <2> QED BY <2>4 DEF Ledger!JobStep
<1>8. CASE Cancel(j)
  <2>1. With(j, "cancelled") \in Record /\ With(j, "cancelled").status = "cancelled"
    BY <1>a DEF Status, Terminal
  <2>2. Ledger!Store(j, "cancelled")
    <3>1. /\ Remember(j, With(j, "cancelled"))
          /\ Persisted(j, With(j, "cancelled")) \/ PersistFailed
          /\ UNCHANGED child
      BY <1>8 DEF Cancel
    <3>2. /\ Answers' = [Answers EXCEPT ![j] = "cancelled"]
          /\ Files' \in {Files, [Files EXCEPT ![j] = "cancelled"]}
      BY <1>0, <2>1, <3>1, StoreMaps
    <3> QED BY <3>1, <3>2 DEF Ledger!Store, Answers, Files
  <2>3. /\ records[j].status \in IF j \in Protected THEN {"queued"} ELSE {"queued", "running"}
        /\ disk[j].status \in {"absent", "queued", "running"}
    BY <1>0, <1>a, <1>8
       DEF Cancel, MayCancel, JobInv, FileInv, Record, Status, Terminal
  <2>4. Ledger!Cancel(j)
    BY <2>2, <2>3 DEF Ledger!Cancel
  <2> QED BY <2>4 DEF Ledger!JobStep
<1>9. CASE ChildExit(j)
  <2>1. Ledger!End(j)
    BY <1>9 DEF ChildExit, memory, ExitCode, Ledger!End
  <2> QED BY <2>1 DEF Ledger!JobStep
<1> QED
  BY <1>1, <1>2, <1>3, <1>4, <1>5, <1>6, <1>7, <1>8, <1>9
     DEF JobStep, Execute, Ledger!JobStep

\* Every step of the supervisor is a step of the ledger, or none.
LEMMA LedgerStep ==
  ASSUME IInv, [Next]_vars
  PROVE  [Ledger!Next]_(Ledger!ledgerVars)
<1>1. ASSUME NEW j \in Jobs, JobStep(j)
      PROVE  Ledger!Next \/ UNCHANGED Ledger!ledgerVars
  BY <1>1, JobLedgerStep DEF Ledger!Next
<1>2. CASE Shutdown \/ UNCHANGED vars
  BY <1>2 DEF Shutdown, vars, world, Ledger!ledgerVars
<1>3. CASE Crash
  <2>1. [j \in Jobs |-> records'[j].status] = [j \in Jobs |-> "absent"]
    BY <1>3 DEF Crash, Absent
  <2>2. Ledger!Forget
    BY <1>3, <2>1 DEF Crash, world, Ledger!Forget
  <2> QED BY <2>2 DEF Ledger!Next
<1>4. CASE Restart
  <2>1. [j \in Jobs |-> records[j].status] = [j \in Jobs |-> "absent"]
    BY <1>4 DEF Restart, IInv, JobInv, FileInv, Absent
  <2>2. \A j \in Jobs : Loaded(j).status = Ledger!Recovered(j)
    BY DEF Loaded, Ledger!Recovered, IInv, TypeOK, Record
  <2>3. [j \in Jobs |-> disk'[j].status] = [j \in Jobs |-> Ledger!Recovered(j)]
    BY <1>4, <2>2 DEF Restart
  <2>4. Ledger!Recover
    BY <1>4, <2>1, <2>3 DEF Restart, world, Ledger!Recover
  <2> QED BY <2>4 DEF Ledger!Next
<1> QED
  BY <1>1, <1>2, <1>3, <1>4 DEF Next, JobStep

\* The supervisor implements the ledger, for every pool and set of jobs.
THEOREM ImplementsLedger == Spec => IsLedger
<1>1. Init => Ledger!Init
  BY DEF Init, Absent, Ledger!Init
<1>2. IInv /\ [Next]_vars => [Ledger!Next]_(Ledger!ledgerVars)
  BY LedgerStep
<1> QED BY <1>1, <1>2, Invariance, PTL DEF Spec, IsLedger, Ledger!Spec
=============================================================================
