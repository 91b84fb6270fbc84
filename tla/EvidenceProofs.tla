--------------------------- MODULE EvidenceProofs ---------------------------
(***************************************************************************)
(* Theorems about what the project publishes of itself: the formal runs,   *)
(* the universe and its snapshot, the benchmark, replays, reports and the  *)
(* files of a release, for every value of their constants: first about     *)
(* each part on its own, then about all of them beside each other.         *)
(***************************************************************************)
EXTENDS Evidence, FiniteSets, FiniteSetTheorems, SequenceTheorems, WellFoundedInduction, TLAPS

-----------------------------------------------------------------------------
(***************************************************************************)
(* The formal runs.                                                        *)
(***************************************************************************)

\* The steps of a run: the part, and what is done.
Rounds == {"run", "first", "second"}
Deeds == {"validate", "lock", "validation", "test", "train", "stack", "search", "report"}
Step == Rounds \X Deeds

\* A test of a part comes after a lock of that part.
LockFirst(steps) ==
  \A i \in 1..Len(steps) : steps[i][2] = "test" =>
    \E j \in 1..(i - 1) : steps[j] = <<steps[i][1], "lock">>

\* Short sequences, element by element.
LEMMA ShortSequences ==
  ASSUME NEW S, NEW a \in S, NEW b \in S, NEW c \in S
  PROVE  <<a>> \in Seq(S) /\ <<a, b>> \in Seq(S) /\ <<a, b, c>> \in Seq(S)
OBVIOUS

\* So are steps of one part.
LEMMA StepsAre ==
  ASSUME NEW p \in Rounds, NEW a \in Deeds, NEW b \in Deeds, NEW c \in Deeds
  PROVE  /\ <<<<p, a>>>> \in Seq(Step) /\ <<<<p, a>>, <<p, b>>>> \in Seq(Step)
         /\ <<<<p, a>>, <<p, b>>, <<p, c>>>> \in Seq(Step)
<1>1. <<p, a>> \in Step /\ <<p, b>> \in Step /\ <<p, c>> \in Step
  BY DEF Step
<1> HIDE DEF Step
<1> QED BY <1>1, ShortSequences

\* The first steps of a program are in order as it is.
LEMMA PrefixLocked ==
  ASSUME NEW p \in Seq(Step), LockFirst(p), NEW s \in Seq(Step), Len(s) <= Len(p),
         \A i \in 1..Len(s) : s[i] = p[i]
  PROVE  LockFirst(s)
<1> SUFFICES ASSUME NEW i \in 1..Len(s), s[i][2] = "test"
             PROVE  \E j \in 1..(i - 1) : s[j] = <<s[i][1], "lock">>
  BY DEF LockFirst
<1>1. i \in 1..Len(p) /\ s[i] = p[i]
  OBVIOUS
<1>2. PICK j \in 1..(i - 1) : p[j] = <<p[i][1], "lock">>
  BY <1>1 DEF LockFirst
<1>3. j \in 1..Len(s) /\ s[j] = p[j]
  OBVIOUS
<1> QED BY <1>1, <1>2, <1>3

\* So are two programs in a row.
LEMMA ConcatenationLocked ==
  ASSUME NEW p \in Seq(Step), LockFirst(p), NEW q \in Seq(Step), LockFirst(q)
  PROVE  p \o q \in Seq(Step) /\ LockFirst(p \o q)
<1> DEFINE r == p \o q
<1>1. r \in Seq(Step) /\ Len(r) = Len(p) + Len(q)
  OBVIOUS
<1>2. \A i \in 1..Len(r) : r[i] = IF i <= Len(p) THEN p[i] ELSE q[i - Len(p)]
  OBVIOUS
<1>3. Len(p) \in Nat /\ Len(q) \in Nat
  OBVIOUS
<1> HIDE DEF r
<1> SUFFICES ASSUME NEW i \in 1..Len(r), r[i][2] = "test"
             PROVE  \E j \in 1..(i - 1) : r[j] = <<r[i][1], "lock">>
  BY <1>1 DEF LockFirst, r
<1>4. CASE i <= Len(p)
  <2>1. i \in 1..Len(p) /\ r[i] = p[i]
    BY <1>1, <1>2, <1>3, <1>4
  <2>2. PICK j \in 1..(i - 1) : p[j] = <<p[i][1], "lock">>
    BY <2>1 DEF LockFirst
  <2>3. r[j] = p[j]
    BY <1>1, <1>2, <1>3, <2>1
  <2> QED BY <2>1, <2>2, <2>3
<1>5. CASE i > Len(p)
  <2>1. i - Len(p) \in 1..Len(q) /\ r[i] = q[i - Len(p)]
    BY <1>1, <1>2, <1>3, <1>5
  <2>2. PICK j \in 1..(i - Len(p) - 1) : q[j] = <<q[i - Len(p)][1], "lock">>
    BY <2>1 DEF LockFirst
  <2>3. j + Len(p) \in 1..(i - 1) /\ j + Len(p) \in 1..Len(r) /\ ~(j + Len(p) <= Len(p))
        /\ (j + Len(p)) - Len(p) = j
    BY <1>1, <1>3, <2>1
  <2>4. r[j + Len(p)] = q[j]
    BY <1>2, <2>3
  <2> QED BY <2>1, <2>2, <2>3, <2>4
<1> QED BY <1>1, <1>3, <1>4, <1>5

\* What each kind of run does is a sequence of steps that locks before it tests.
LEMMA ProgramsLock ==
  ASSUME NEW k \in DOMAIN Formal!Program
  PROVE  Formal!Program[k] \in Seq(Step) /\ LockFirst(Formal!Program[k])
<1> DEFINE Good(p) == p \in Seq(Step) /\ LockFirst(p)
<1>1. Good(Formal!Validated)
  <2>1. Formal!Validated = <<<<"run", "validate">>>>
    BY DEF Formal!Validated, Formal!Steps
  <2>2. Formal!Validated \in Seq(Step)
    BY <2>1, StepsAre DEF Rounds, Deeds
  <2>3. LockFirst(Formal!Validated)
    BY <2>1 DEF LockFirst
  <2> QED BY <2>2, <2>3
<1>2. Good(Formal!Baseline)
  <2>1. Formal!Baseline = <<<<"run", "lock">>, <<"run", "validation">>, <<"run", "test">>>>
    BY DEF Formal!Baseline, Formal!Steps
  <2>2. Formal!Baseline \in Seq(Step)
    BY <2>1, StepsAre DEF Rounds, Deeds
  <2>3. LockFirst(Formal!Baseline)
    BY <2>1 DEF LockFirst
  <2> QED BY <2>2, <2>3
<1>3. Good(Formal!Trained)
  <2>1. Formal!Trained = <<<<"run", "train">>, <<"run", "lock">>, <<"run", "test">>>>
    BY DEF Formal!Trained, Formal!Steps
  <2>2. Formal!Trained \in Seq(Step)
    BY <2>1, StepsAre DEF Rounds, Deeds
  <2>3. LockFirst(Formal!Trained)
    BY <2>1 DEF LockFirst
  <2> QED BY <2>2, <2>3
<1>4. Good(Formal!TrainOne("first")) /\ Good(Formal!TrainOne("second"))
  <2> SUFFICES ASSUME NEW target \in {"first", "second"}
               PROVE  Good(Formal!TrainOne(target))
    OBVIOUS
  <2>1. Formal!TrainOne(target) = <<<<target, "train">>, <<target, "lock">>, <<target, "test">>>>
    BY DEF Formal!TrainOne, Formal!Steps
  <2>2. Formal!TrainOne(target) \in Seq(Step)
    BY <2>1, StepsAre DEF Rounds, Deeds
  <2>3. LockFirst(Formal!TrainOne(target))
    BY <2>1 DEF LockFirst
  <2> QED BY <2>2, <2>3
<1>5. Good(Formal!Mechanism)
  <2>1. Formal!Mechanism = <<<<"run", "lock">>, <<"run", "test">>, <<"run", "test">>>>
    BY DEF Formal!Mechanism, Formal!Steps
  <2>2. Formal!Mechanism \in Seq(Step)
    BY <2>1, StepsAre DEF Rounds, Deeds
  <2>3. LockFirst(Formal!Mechanism)
    BY <2>1 DEF LockFirst
  <2> QED BY <2>2, <2>3
<1>6. Good(Formal!Agents)
  <2>1. Formal!Agents = <<<<"run", "stack">>, <<"run", "lock">>, <<"run", "test">>>>
    BY DEF Formal!Agents, Formal!Steps
  <2>2. Formal!Agents \in Seq(Step)
    BY <2>1, StepsAre DEF Rounds, Deeds
  <2>3. LockFirst(Formal!Agents)
    BY <2>1 DEF LockFirst
  <2> QED BY <2>2, <2>3
<1>7. Good(Formal!RunSearch)
  <2>1. Formal!RunSearch = <<<<"run", "search">>, <<"run", "report">>>>
    BY DEF Formal!RunSearch, Formal!Steps
  <2>2. Formal!RunSearch \in Seq(Step)
    BY <2>1, StepsAre DEF Rounds, Deeds
  <2>3. LockFirst(Formal!RunSearch)
    BY <2>1 DEF LockFirst
  <2> QED BY <2>2, <2>3
<1>8. Good(Formal!LockedTest)
  <2>1. Formal!LockedTest = <<<<"run", "train">>, <<"run", "lock">>, <<"run", "test">>>>
    BY DEF Formal!LockedTest, Formal!Steps
  <2>2. Formal!LockedTest \in Seq(Step)
    BY <2>1, StepsAre DEF Rounds, Deeds
  <2>3. LockFirst(Formal!LockedTest)
    BY <2>1 DEF LockFirst
  <2> QED BY <2>2, <2>3
<1>9. Good(Formal!Transfer) /\ Good(Formal!RunSearch \o Formal!LockedTest)
  BY <1>4, <1>7, <1>8, ConcatenationLocked DEF Formal!Transfer
<1>10. k \in {"environment", "baseline", "trained", "transfer", "mechanism", "agents", "search"}
  BY DEF Formal!Program
<1>11. Formal!Program[k] \in {Formal!Validated, Formal!Baseline, Formal!Trained, Formal!Transfer,
         Formal!Mechanism, Formal!Agents, Formal!RunSearch \o Formal!LockedTest}
  BY <1>10 DEF Formal!Program
<1> HIDE DEF Good
<1>12. Good(Formal!Program[k])
  BY <1>1, <1>2, <1>3, <1>5, <1>6, <1>9, <1>11
<1> QED BY <1>12 DEF Good


(***************************************************************************)
(* The invariant.  A run is as far as its record says, by the first steps  *)
(* of its program; whoever works on it is the one who claimed it; and      *)
(* a run that the aggregation let pass is complete.                        *)
(***************************************************************************)
Counts == {0} \cup {Formal!TestAccessCount(k) : k \in DOMAIN Formal!Program}
AuditRecord == [count : Counts, locked : BOOLEAN, network : BOOLEAN, listed : Nat]
RunRecord == [exists : BOOLEAN, by : SUBSET Executors,
              status : {"none", "planned", "running", "completed", "failed"},
              done : Seq(Step), gate : BOOLEAN, result : Nat, measured : BOOLEAN,
              network : BOOLEAN, audit : AuditRecord]
ExecutorState ==
  [pc : {"idle", "planned", "running", "written", "done", "raised"}, task : Tasks \cup {"none"}]

BeginsAs(s, p) == Len(s) <= Len(p) /\ \A i \in 1..Len(s) : s[i] = p[i]

RunOf(k, r) ==
  /\ ~r.exists => r.by = {} /\ r.done = <<>> /\ r.status = "none"
  /\ r.exists => \E e \in Executors : r.by = {e}
  /\ BeginsAs(r.done, Formal!Program[k])
  /\ r.done # <<>> => r.gate
  /\ r.status = "completed" =>
       /\ r.done = Formal!Program[k]
       /\ r.audit.count = Formal!TestAccessCount(k) /\ r.audit.listed # 0

Working(x) == x.pc \in {"planned", "running", "written"}

WorkOf(e, pc, k, r) ==
  /\ r.exists /\ r.by = {e}
  /\ r.status = IF pc = "planned" THEN "planned" ELSE "running"
  /\ pc = "planned" => r.done = <<>>
  /\ pc # "planned" => r.gate
  /\ pc = "written" => r.done = Formal!Program[k] /\ r.result # 0

Passed(r) == r.status = "completed" /\ r.measured /\ r.audit.listed # 0

FormalInv ==
  /\ kind \in [Tasks -> DOMAIN Formal!Program]
  /\ executor \in [Executors -> ExecutorState]
  /\ run \in [Tasks -> RunRecord]
  /\ \A t \in Tasks : RunOf(kind[t], run[t])
  /\ \A e \in Executors : Working(executor[e]) =>
       /\ executor[e].task \in Tasks
       /\ WorkOf(e, executor[e].pc, kind[executor[e].task], run[executor[e].task])
  /\ collector \in [left : SUBSET Tasks, blocked : SUBSET Tasks,
                    phase : {"reading", "blocked", "complete"}]
  /\ \A t \in Tasks \ (collector.left \cup collector.blocked) : Passed(run[t])
  /\ collector.phase = "complete" => collector.left = {} /\ collector.blocked = {}

\* It holds to begin with.
LEMMA FormalInit ==
  ASSUME Formal!FormalAssumption, Formal!Init
  PROVE  FormalInv
<1>1. kind \in [Tasks -> DOMAIN Formal!Program]
  BY DEF Formal!FormalAssumption, Formal!Init
<1>2. executor \in [Executors -> ExecutorState] /\ \A e \in Executors : executor[e].pc = "idle"
  BY DEF Formal!Init, Formal!Idle, ExecutorState
<1>3. run = [t \in Tasks |-> Formal!NoRun] /\ Formal!NoRun \in RunRecord
  BY DEF Formal!Init, Formal!NoRun, Formal!NoAudit, RunRecord, AuditRecord, Counts
<1>4. \A t \in Tasks : RunOf(kind[t], Formal!NoRun)
  <2>1. \A t \in Tasks : Formal!Program[kind[t]] \in Seq(Step)
    BY <1>1, ProgramsLock
  <2>2. /\ ~Formal!NoRun.exists /\ Formal!NoRun.by = {} /\ Formal!NoRun.done = <<>>
        /\ Formal!NoRun.status = "none"
    BY DEF Formal!NoRun
  <2>3. \A t \in Tasks : BeginsAs(<<>>, Formal!Program[kind[t]])
    BY <2>1 DEF BeginsAs
  <2> QED BY <2>2, <2>3 DEF RunOf
<1>5. collector = [left |-> Tasks, blocked |-> {}, phase |-> "reading"]
  BY DEF Formal!Init, Formal!Unread
<1>6. \A t \in Tasks : RunOf(kind[t], run[t])
  BY <1>3, <1>4
<1>7. \A e \in Executors : ~Working(executor[e])
  BY <1>2 DEF Working
<1> QED BY <1>1, <1>2, <1>3, <1>5, <1>6, <1>7 DEF FormalInv

\* A step of the executor that owns a run, or of one that claims a free run,
\* keeps the invariant if what it leaves is in order.
LEMMA OwnerSteps ==
  ASSUME FormalInv, NEW e \in Executors, NEW t \in Tasks, NEW r \in RunRecord,
         NEW x \in ExecutorState, RunOf(kind[t], r),
         Working(x) => x.task = t /\ WorkOf(e, x.pc, kind[t], r),
         run[t].exists => run[t].by = {e}, run[t].status # "completed",
         executor' = [executor EXCEPT ![e] = x], run' = [run EXCEPT ![t] = r],
         UNCHANGED <<kind, collector>>
  PROVE  FormalInv'
<1>1. kind' \in [Tasks -> DOMAIN Formal!Program]
  BY DEF FormalInv
<1>2. executor' \in [Executors -> ExecutorState] /\ run' \in [Tasks -> RunRecord]
  BY DEF FormalInv
<1>3. /\ \A u \in Tasks : run'[u] = IF u = t THEN r ELSE run[u]
      /\ \A f \in Executors : executor'[f] = IF f = e THEN x ELSE executor[f]
  BY DEF FormalInv
<1>4. \A u \in Tasks : RunOf(kind'[u], run'[u])
  BY <1>3 DEF FormalInv
<1>5. ASSUME NEW f \in Executors, Working(executor'[f])
      PROVE  /\ executor'[f].task \in Tasks
             /\ WorkOf(f, executor'[f].pc, kind'[executor'[f].task], run'[executor'[f].task])
  <2>1. CASE f = e
    BY <1>3, <1>5, <2>1
  <2>2. CASE f # e
    <3>1. executor'[f] = executor[f] /\ Working(executor[f])
      BY <1>3, <1>5, <2>2
    <3>2. executor[f].task \in Tasks
          /\ WorkOf(f, executor[f].pc, kind[executor[f].task], run[executor[f].task])
      BY <3>1 DEF FormalInv
    <3>3. executor[f].task # t
      BY <2>2, <3>2 DEF WorkOf
    <3> QED BY <1>3, <3>1, <3>2, <3>3
  <2> QED BY <2>1, <2>2
<1>6. /\ collector' \in [left : SUBSET Tasks, blocked : SUBSET Tasks,
                         phase : {"reading", "blocked", "complete"}]
      /\ collector'.phase = "complete" => collector'.left = {} /\ collector'.blocked = {}
  BY DEF FormalInv
<1>7. \A u \in Tasks \ (collector'.left \cup collector'.blocked) : Passed(run'[u])
  <2> SUFFICES ASSUME NEW u \in Tasks \ (collector.left \cup collector.blocked)
               PROVE  Passed(run'[u])
    OBVIOUS
  <2>1. Passed(run[u])
    BY DEF FormalInv
  <2>2. u # t
    BY <2>1 DEF Passed
  <2> QED BY <1>3, <2>1, <2>2
<1> QED BY <1>1, <1>2, <1>4, <1>5, <1>6, <1>7 DEF FormalInv

\* Steps that change neither runs nor executors nor the collector keep it.
LEMMA FormalFrame ==
  ASSUME FormalInv, UNCHANGED <<kind, executor, run, collector>>
  PROVE  FormalInv'
BY DEF FormalInv


\* What an executor that works knows of its run.
LEMMA OwnRun ==
  ASSUME FormalInv, NEW e \in Executors, Working(executor[e])
  PROVE  LET t == executor[e].task
         IN  /\ t \in Tasks /\ run[t] \in RunRecord /\ RunOf(kind[t], run[t])
             /\ WorkOf(e, executor[e].pc, kind[t], run[t])
             /\ executor[e] \in ExecutorState /\ kind[t] \in DOMAIN Formal!Program
             /\ run[t].by = {e} /\ run[t].status # "completed"
BY DEF FormalInv, WorkOf

\* A claim takes a run that nobody has.
LEMMA ClaimKeeps ==
  ASSUME FormalInv, NEW e \in Executors, NEW t \in Tasks, Formal!Claim(e, t)
  PROVE  FormalInv'
<1> DEFINE r == [run[t] EXCEPT !.exists = TRUE, !.by = @ \cup {e}, !.status = "planned"]
           x == [pc |-> "planned", task |-> t]
<1>1. run[t] \in RunRecord /\ RunOf(kind[t], run[t]) /\ ~run[t].exists
  BY DEF FormalInv, Formal!Claim
<1>2. /\ run[t].by = {} /\ run[t].done = <<>> /\ run[t].status = "none"
  BY <1>1 DEF RunOf
<1>3. r \in RunRecord
  BY <1>1 DEF RunRecord
<1>4. /\ r.exists /\ r.by = {e} /\ r.status = "planned" /\ r.done = run[t].done
      /\ r.gate = run[t].gate
  BY <1>1, <1>2 DEF RunRecord
<1>5. /\ executor' = [executor EXCEPT ![e] = x] /\ run' = [run EXCEPT ![t] = r]
      /\ UNCHANGED <<kind, collector>>
  <2>1. Formal!Claimed(e, t) /\ run \in [Tasks -> RunRecord]
    BY DEF Formal!Claim, FormalInv
  <2>2. /\ executor' = [executor EXCEPT ![e] = x] /\ UNCHANGED <<kind, collector>>
    BY <2>1 DEF Formal!Claimed
  <2>3. run' = [run EXCEPT ![t] = r]
    BY <2>1 DEF Formal!Claimed
  <2> QED BY <2>2, <2>3
<1>6. x \in ExecutorState /\ x.task = t /\ x.pc = "planned"
  BY DEF ExecutorState
<1> HIDE DEF r, x
<1>7. RunOf(kind[t], r) /\ WorkOf(e, x.pc, kind[t], r)
  BY <1>1, <1>2, <1>4, <1>6 DEF RunOf, WorkOf
<1>8. run[t].status # "completed"
  BY <1>2
<1> QED BY <1>1, <1>3, <1>5, <1>6, <1>7, <1>8, OwnerSteps

\* The gate lets a run begin.
LEMMA PreflightKeeps ==
  ASSUME FormalInv, NEW e \in Executors, Formal!Preflight(e)
  PROVE  FormalInv'
<1> DEFINE t == executor[e].task
           r == [run[t] EXCEPT !.status = "running", !.gate = TRUE]
           x == [executor[e] EXCEPT !.pc = "running"]
<1>1. executor[e].pc = "planned" /\ Working(executor[e])
  BY DEF Formal!Preflight, Working
<1>2. /\ t \in Tasks /\ run[t] \in RunRecord /\ RunOf(kind[t], run[t])
      /\ WorkOf(e, "planned", kind[t], run[t])
      /\ executor[e] \in ExecutorState /\ run[t].by = {e} /\ run[t].status # "completed"
  BY <1>1, OwnRun
<1>3. r \in RunRecord /\ x \in ExecutorState
  BY <1>2 DEF RunRecord, ExecutorState
<1>4. /\ r.exists = run[t].exists /\ r.by = run[t].by /\ r.status = "running"
      /\ r.done = run[t].done /\ r.gate /\ x.pc = "running" /\ x.task = t
  BY <1>2 DEF RunRecord, ExecutorState
<1>5. /\ executor' = [executor EXCEPT ![e] = x] /\ run' = [run EXCEPT ![t] = r]
      /\ UNCHANGED <<kind, collector>>
  BY <1>2 DEF Formal!Preflight, FormalInv
<1> HIDE DEF r, x, t
<1>6. RunOf(kind[t], r) /\ WorkOf(e, x.pc, kind[t], r)
  BY <1>2, <1>4 DEF RunOf, WorkOf
<1> QED BY <1>2, <1>3, <1>4, <1>5, <1>6, OwnerSteps

\* A run does the next step of its program.
LEMMA WorkKeeps ==
  ASSUME FormalInv, NEW e \in Executors, Formal!Work(e)
  PROVE  FormalInv'
<1> DEFINE t == executor[e].task
           p == Formal!Program[kind[t]]
           s == Append(run[t].done, p[Len(run[t].done) + 1])
           r == [run[t] EXCEPT !.done = s]
           x == executor[e]
<1>1. x.pc = "running" /\ Working(x) /\ Len(run[t].done) < Len(p)
  BY DEF Formal!Work, Working
<1>2. /\ t \in Tasks /\ run[t] \in RunRecord /\ RunOf(kind[t], run[t])
      /\ WorkOf(e, "running", kind[t], run[t]) /\ kind[t] \in DOMAIN Formal!Program
      /\ x \in ExecutorState /\ run[t].by = {e} /\ run[t].status # "completed"
  BY <1>1, OwnRun
<1>3. p \in Seq(Step) /\ run[t].done \in Seq(Step) /\ BeginsAs(run[t].done, p)
  BY <1>2, ProgramsLock DEF RunRecord, RunOf
<1>4. s \in Seq(Step) /\ BeginsAs(s, p)
  <2> HIDE DEF p
  <2> QED BY <1>1, <1>3 DEF BeginsAs
<1>5. r \in RunRecord
  BY <1>2, <1>4 DEF RunRecord
<1>6. /\ r.exists = run[t].exists /\ r.by = run[t].by /\ r.status = run[t].status
      /\ r.done = s /\ r.gate = run[t].gate
  BY <1>2 DEF RunRecord
<1>7. /\ executor' = [executor EXCEPT ![e] = x] /\ run' = [run EXCEPT ![t] = r]
      /\ UNCHANGED <<kind, collector>>
  BY <1>2 DEF Formal!Work, FormalInv
<1> HIDE DEF r, x, t, s
<1>8. RunOf(kind[t], r) /\ WorkOf(e, x.pc, kind[t], r)
  BY <1>1, <1>2, <1>4, <1>6 DEF RunOf, WorkOf
<1>9. x.task = t
  BY DEF x, t
<1> QED BY <1>2, <1>5, <1>7, <1>8, <1>9, OwnerSteps

\* A result is written when the whole program is done.
LEMMA WriteResultKeeps ==
  ASSUME FormalInv, NEW e \in Executors, Formal!WriteResult(e)
  PROVE  FormalInv'
<1> DEFINE t == executor[e].task
           p == Formal!Program[kind[t]]
           x == [executor[e] EXCEPT !.pc = "written"]
<1>1. executor[e].pc = "running" /\ Working(executor[e]) /\ Len(run[t].done) >= Len(p)
  BY DEF Formal!WriteResult, Working
<1>2. /\ t \in Tasks /\ run[t] \in RunRecord /\ RunOf(kind[t], run[t])
      /\ WorkOf(e, "running", kind[t], run[t]) /\ kind[t] \in DOMAIN Formal!Program
      /\ executor[e] \in ExecutorState /\ run[t].by = {e} /\ run[t].status # "completed"
  BY <1>1, OwnRun
<1>3. PICK measured \in BOOLEAN, network \in {FALSE, kind[t] = "agents"} :
        run' = [run EXCEPT ![t].result = @ + 1, ![t].measured = measured, ![t].network = network]
  BY DEF Formal!WriteResult
<1> DEFINE r == [run[t] EXCEPT !.result = @ + 1, !.measured = measured, !.network = network]
<1>4. r \in RunRecord /\ x \in ExecutorState
  <2>1. network \in BOOLEAN
    OBVIOUS
  <2>2. r \in RunRecord
    <3>1. run[t].result + 1 \in Nat
      BY <1>2 DEF RunRecord
    <3>2. [run[t] EXCEPT !.result = run[t].result + 1] \in RunRecord
      BY <1>2, <3>1 DEF RunRecord
    <3> QED BY <2>1, <3>2 DEF RunRecord
  <2> QED BY <1>2, <2>2 DEF ExecutorState
<1>5. /\ r.exists = run[t].exists /\ r.by = run[t].by /\ r.status = run[t].status
      /\ r.done = run[t].done /\ r.gate = run[t].gate /\ r.result # 0
      /\ x.pc = "written" /\ x.task = t
  BY <1>2 DEF RunRecord, ExecutorState
<1>6. run[t].done = p
  <2>1. p \in Seq(Step) /\ run[t].done \in Seq(Step) /\ BeginsAs(run[t].done, p)
    BY <1>2, ProgramsLock DEF RunRecord, RunOf
  <2> HIDE DEF p
  <2>2. Len(run[t].done) = Len(p) /\ \A i \in 1..Len(p) : run[t].done[i] = p[i]
    BY <1>1, <2>1 DEF BeginsAs
  <2> QED BY <2>1, <2>2, SeqEqual
<1>7. /\ executor' = [executor EXCEPT ![e] = x] /\ run' = [run EXCEPT ![t] = r]
      /\ UNCHANGED <<kind, collector>>
  BY <1>2, <1>3 DEF Formal!WriteResult, FormalInv
<1> HIDE DEF r, x, t
<1>8. RunOf(kind[t], r) /\ WorkOf(e, x.pc, kind[t], r)
  BY <1>2, <1>5, <1>6 DEF RunOf, WorkOf
<1> QED BY <1>2, <1>4, <1>5, <1>7, <1>8, OwnerSteps


\* A completed run has its record.
LEMMA CompleteKeeps ==
  ASSUME FormalInv, NEW e \in Executors, Formal!Complete(e)
  PROVE  FormalInv'
<1> DEFINE t == executor[e].task
           n == Formal!TestAccessCount(kind[t])
           audit == [count |-> n, locked |-> n = 0 \/ Formal!LockFound(t),
                     network |-> run[t].network, listed |-> run[t].result]
           r == [run[t] EXCEPT !.status = "completed", !.audit = audit]
           x == [executor[e] EXCEPT !.pc = "done"]
<1>1. executor[e].pc = "written" /\ Working(executor[e])
  BY DEF Formal!Complete, Working
<1>2. /\ t \in Tasks /\ run[t] \in RunRecord /\ RunOf(kind[t], run[t])
      /\ WorkOf(e, "written", kind[t], run[t]) /\ kind[t] \in DOMAIN Formal!Program
      /\ executor[e] \in ExecutorState /\ run[t].by = {e} /\ run[t].status # "completed"
  BY <1>1, OwnRun
<1>3. audit \in AuditRecord /\ audit.count = n /\ audit.listed = run[t].result
  <2>1. n \in Counts
    BY <1>2 DEF Counts
  <2>2. (n = 0 \/ Formal!LockFound(t)) \in BOOLEAN
    OBVIOUS
  <2>3. run[t].network \in BOOLEAN /\ run[t].result \in Nat
    BY <1>2 DEF RunRecord
  <2> HIDE DEF n
  <2> QED BY <2>1, <2>2, <2>3 DEF AuditRecord
<1>4. /\ executor' = [executor EXCEPT ![e] = x] /\ run' = [run EXCEPT ![t] = r]
      /\ UNCHANGED <<kind, collector>>
  BY <1>2 DEF Formal!Complete, FormalInv
<1> HIDE DEF audit, n
<1>5. r \in RunRecord /\ x \in ExecutorState
  BY <1>2, <1>3 DEF RunRecord, ExecutorState
<1>6. /\ r.exists = run[t].exists /\ r.by = run[t].by /\ r.status = "completed"
      /\ r.done = run[t].done /\ r.gate = run[t].gate /\ r.audit = audit
      /\ x.pc = "done" /\ x.task = t
  BY <1>2 DEF RunRecord, ExecutorState
<1> HIDE DEF r, x, t
<1>7. run[t].done = Formal!Program[kind[t]] /\ run[t].result # 0 /\ run[t].exists
  BY <1>2 DEF WorkOf
<1>8. RunOf(kind[t], r)
  BY <1>2, <1>3, <1>6, <1>7 DEF RunOf, n
<1>9. ~Working(x)
  BY <1>6 DEF Working
<1> QED BY <1>2, <1>4, <1>5, <1>8, <1>9, OwnerSteps

\* A run that raises is over.
LEMMA FailKeeps ==
  ASSUME FormalInv, NEW e \in Executors, Formal!Fail(e)
  PROVE  FormalInv'
<1> DEFINE t == executor[e].task
           audit == [Formal!NoAudit EXCEPT !.listed = run[t].result]
           r == [run[t] EXCEPT !.status = "failed", !.audit = audit]
           x == [executor[e] EXCEPT !.pc = "raised"]
<1>1. Working(executor[e])
  BY DEF Formal!Fail, Working
<1>2. /\ t \in Tasks /\ run[t] \in RunRecord /\ RunOf(kind[t], run[t]) /\ run[t].exists
      /\ executor[e] \in ExecutorState /\ run[t].by = {e} /\ run[t].status # "completed"
  BY <1>1, OwnRun DEF WorkOf
<1>3. audit \in AuditRecord
  BY <1>2 DEF RunRecord, AuditRecord, Formal!NoAudit, Counts
<1>4. /\ executor' = [executor EXCEPT ![e] = x] /\ run' = [run EXCEPT ![t] = r]
      /\ UNCHANGED <<kind, collector>>
  BY <1>2 DEF Formal!Fail, FormalInv
<1> HIDE DEF audit
<1>5. r \in RunRecord /\ x \in ExecutorState
  BY <1>2, <1>3 DEF RunRecord, ExecutorState
<1>6. /\ r.exists = run[t].exists /\ r.by = run[t].by /\ r.status = "failed"
      /\ r.done = run[t].done /\ r.gate = run[t].gate /\ x.pc = "raised"
  BY <1>2 DEF RunRecord, ExecutorState
<1> HIDE DEF r, x, t
<1>7. RunOf(kind[t], r)
  BY <1>2, <1>6 DEF RunOf
<1>8. ~Working(x)
  BY <1>6 DEF Working
<1> QED BY <1>2, <1>4, <1>5, <1>7, <1>8, OwnerSteps

\* An executor that finds the directory raises, and owns no run.
LEMMA UnclaimableKeeps ==
  ASSUME FormalInv, NEW e \in Executors, NEW t \in Tasks, Formal!Unclaimable(e, t)
  PROVE  FormalInv'
<1>1. executor' = [executor EXCEPT ![e].pc = "raised"] /\ UNCHANGED <<kind, run, collector>>
  BY DEF Formal!Unclaimable
<1>2. executor' \in [Executors -> ExecutorState]
  BY <1>1 DEF FormalInv, ExecutorState
<1>3. \A f \in Executors : Working(executor'[f]) => executor'[f] = executor[f]
  BY <1>1 DEF FormalInv, ExecutorState, Working
<1> HIDE DEF Formal!Unclaimable
<1> QED BY <1>1, <1>2, <1>3 DEF FormalInv

\* Editing a result changes neither what was done nor what was recorded.
LEMMA ChangeKeeps ==
  ASSUME FormalInv, Formal!Change
  PROVE  FormalInv'
<1>1. CASE run' = run
  BY <1>1, FormalFrame DEF Formal!Change
<1>2. ASSUME NEW t \in Tasks, run' = [run EXCEPT ![t].result = @ + 1]
      PROVE  FormalInv'
  <2> DEFINE r == [run[t] EXCEPT !.result = @ + 1]
  <2>1. UNCHANGED <<kind, executor, collector>>
    BY DEF Formal!Change
  <2>2. run \in [Tasks -> RunRecord] /\ run[t] \in RunRecord
    BY DEF FormalInv
  <2>3. run' = [run EXCEPT ![t] = r]
    BY <1>2, <2>2
  <2>4. r \in RunRecord
    <3>1. run[t].result + 1 \in Nat
      BY <2>2 DEF RunRecord
    <3> QED BY <2>2, <3>1 DEF RunRecord
  <2>5. /\ r.exists = run[t].exists /\ r.by = run[t].by /\ r.status = run[t].status
        /\ r.done = run[t].done /\ r.gate = run[t].gate /\ r.result = run[t].result + 1
        /\ r.measured = run[t].measured /\ r.audit = run[t].audit /\ run[t].result \in Nat
    BY <2>2 DEF RunRecord
  <2> HIDE DEF r
  <2>6. \A u \in Tasks : run'[u] = IF u = t THEN r ELSE run[u]
    BY <2>2, <2>3
  <2>7. run' \in [Tasks -> RunRecord]
    BY <2>2, <2>3, <2>4
  <2>8. \A u \in Tasks : RunOf(kind[u], run'[u])
    BY <2>5, <2>6 DEF FormalInv, RunOf
  <2>9. \A f \in Executors : Working(executor[f]) =>
          /\ executor[f].task \in Tasks
          /\ WorkOf(f, executor[f].pc, kind[executor[f].task], run'[executor[f].task])
    <3> SUFFICES ASSUME NEW f \in Executors, Working(executor[f])
                 PROVE  /\ executor[f].task \in Tasks
                        /\ WorkOf(f, executor[f].pc, kind[executor[f].task],
                                  run'[executor[f].task])
      OBVIOUS
    <3>1. /\ executor[f].task \in Tasks
          /\ WorkOf(f, executor[f].pc, kind[executor[f].task], run[executor[f].task])
      BY DEF FormalInv
    <3> QED BY <2>5, <2>6, <3>1 DEF WorkOf
  <2>10. \A u \in Tasks \ (collector.left \cup collector.blocked) : Passed(run'[u])
    BY <2>5, <2>6 DEF FormalInv, Passed
  <2> QED BY <2>1, <2>7, <2>8, <2>9, <2>10 DEF FormalInv
<1> QED BY <1>1, <1>2 DEF Formal!Change


\* The aggregation passes complete runs only.
LEMMA CollectKeeps ==
  ASSUME FormalInv, NEW t \in Tasks, Formal!Collect(t)
  PROVE  FormalInv'
<1>1. /\ collector' = [collector EXCEPT !.left = @ \ {t},
           !.blocked = IF Formal!Accepted(t) THEN @ ELSE @ \cup {t}]
      /\ collector.phase = "reading" /\ UNCHANGED <<kind, executor, run>>
  BY DEF Formal!Collect
<1>2. collector \in [left : SUBSET Tasks, blocked : SUBSET Tasks,
                     phase : {"reading", "blocked", "complete"}]
  BY DEF FormalInv
<1>3. /\ collector' \in [left : SUBSET Tasks, blocked : SUBSET Tasks,
                         phase : {"reading", "blocked", "complete"}]
      /\ collector'.phase = "reading" /\ collector'.left = collector.left \ {t}
      /\ collector'.blocked
           = IF Formal!Accepted(t) THEN collector.blocked ELSE collector.blocked \cup {t}
  BY <1>1, <1>2
<1>4. ASSUME NEW u \in Tasks \ (collector'.left \cup collector'.blocked)
      PROVE  Passed(run[u])
  <2>1. CASE u \notin collector.left \cup collector.blocked
    BY <2>1 DEF FormalInv
  <2>2. CASE u \in collector.left \cup collector.blocked
    <3>1. u = t /\ Formal!Accepted(t)
      BY <1>3, <1>4, <2>2
    <3>2. run[t].status = "completed" /\ run[t].measured
      BY <3>1 DEF Formal!Accepted
    <3>3. RunOf(kind[t], run[t])
      BY DEF FormalInv
    <3> QED BY <3>1, <3>2, <3>3 DEF RunOf, Passed
  <2> QED BY <2>1, <2>2
<1> QED BY <1>1, <1>3, <1>4 DEF FormalInv

\* A phase is complete when nothing blocks it.
LEMMA SummarizeKeeps ==
  ASSUME FormalInv, Formal!Summarize \/ Formal!SummarizeAgain
  PROVE  FormalInv'
<1>1. CASE Formal!Summarize
  <2>1. /\ collector' \in [left : SUBSET Tasks, blocked : SUBSET Tasks,
                           phase : {"reading", "blocked", "complete"}]
        /\ collector'.left = collector.left /\ collector'.blocked = collector.blocked
        /\ collector'.phase = "complete" => collector.left = {} /\ collector.blocked = {}
    BY <1>1 DEF Formal!Summarize, FormalInv
  <2> QED BY <1>1, <2>1 DEF Formal!Summarize, FormalInv
<1>2. CASE Formal!SummarizeAgain
  <2>1. /\ collector' = [left |-> Tasks, blocked |-> {}, phase |-> "reading"]
        /\ UNCHANGED <<kind, executor, run>>
    BY <1>2 DEF Formal!SummarizeAgain, Formal!Unread
  <2> QED BY <2>1 DEF FormalInv
<1> QED BY <1>1, <1>2

\* Every step keeps the invariant.
LEMMA FormalStep ==
  ASSUME FormalInv, [Formal!Next]_(Formal!formalVars)
  PROVE  FormalInv'
<1>1. ASSUME NEW e \in Executors, Formal!ExecutorStep(e)
      PROVE  FormalInv'
  BY <1>1, ClaimKeeps, UnclaimableKeeps, PreflightKeeps, WorkKeeps, WriteResultKeeps,
     CompleteKeeps, FailKeeps DEF Formal!ExecutorStep
<1>2. CASE Formal!FreezeProtocol \/ Formal!FreezeMatrix \/ Formal!FreezeMatrixChecksum \/ Formal!Review
  BY <1>2, FormalFrame
     DEF Formal!FreezeProtocol, Formal!FreezeMatrix, Formal!FreezeMatrixChecksum, Formal!Review
<1>3. CASE UNCHANGED Formal!formalVars
  BY <1>3, FormalFrame DEF Formal!formalVars
<1> QED BY <1>1, <1>2, <1>3, ChangeKeeps, CollectKeeps, SummarizeKeeps DEF Formal!Next

\* The cardinality that the specification speaks of.
LEMMA SameCardinality ==
  ASSUME NEW S
  PROVE  Formal!Cardinality(S) = Cardinality(S)
BY DEF Formal!Cardinality, Cardinality

\* What the invariant says of the formal runs.
LEMMA FormalInvImplies ==
  ASSUME FormalInv
  PROVE  Formal!FormalRunsHonest
<1>1. ASSUME NEW t \in Tasks
      PROVE  /\ Cardinality(run[t].by) <= 1
             /\ run[t].done # <<>> => run[t].gate
             /\ Formal!LockedBeforeTest(t)
             /\ run[t].status = "completed" => run[t].audit.count = Formal!TestsMade(t)
  <2>1. run[t] \in RunRecord /\ RunOf(kind[t], run[t]) /\ kind[t] \in DOMAIN Formal!Program
    BY DEF FormalInv
  <2>2. Cardinality(run[t].by) <= 1
    <3>1. run[t].by = {} \/ \E e \in Executors : run[t].by = {e}
      BY <2>1 DEF RunOf, RunRecord
    <3>2. CASE run[t].by = {}
      <4>1. Cardinality(run[t].by) = 0
        BY <3>2, FS_EmptySet
      <4> QED BY <4>1
    <3>3. ASSUME NEW e \in Executors, run[t].by = {e}
          PROVE  Cardinality(run[t].by) <= 1
      <4>1. Cardinality(run[t].by) = 1
        BY <3>3, FS_Singleton
      <4> QED BY <4>1
    <3> QED BY <3>1, <3>2, <3>3
  <2>3. LockFirst(run[t].done)
    <3>1. run[t].done \in Seq(Step) /\ BeginsAs(run[t].done, Formal!Program[kind[t]])
      BY <2>1 DEF RunRecord, RunOf
    <3> QED BY <2>1, <3>1, ProgramsLock, PrefixLocked DEF BeginsAs
  <2>4. Formal!LockedBeforeTest(t)
    BY <2>3 DEF LockFirst, Formal!LockedBeforeTest
  <2>5. run[t].status = "completed" => run[t].audit.count = Formal!TestsMade(t)
    BY <2>1 DEF RunOf, Formal!TestAccessCount, Formal!TestsMade
  <2> QED BY <2>1, <2>2, <2>4, <2>5 DEF RunOf
<1>2. collector.phase = "complete" =>
        \A t \in Tasks : run[t].status = "completed" /\ run[t].measured
  BY DEF FormalInv, Passed
<1>3. \A t \in Tasks \ (collector.left \cup collector.blocked) : run[t].audit.listed # 0
  BY DEF FormalInv, Passed
<1>4. \A t \in Tasks :
        /\ Cardinality(run[t].by) <= 1
        /\ run[t].done # <<>> => run[t].gate
        /\ Formal!LockedBeforeTest(t)
        /\ run[t].status = "completed" => run[t].audit.count = Formal!TestsMade(t)
  BY <1>1
<1> QED BY <1>2, <1>3, <1>4, SameCardinality DEF Formal!FormalRunsHonest

\* Whatever others change and however executors are killed, a run is worked on
\* by one executor at most, tests only after its lock and behind the gate, and
\* its record counts its tests; a phase is complete only if every run is so.
THEOREM FormalRunsStayHonest ==
  ASSUME Formal!FormalAssumption
  PROVE  Formal!Spec => [](Formal!TypeOK /\ Formal!FormalRunsHonest)
<1>1. Formal!Init => FormalInv
  BY FormalInit
<1>2. FormalInv /\ [Formal!Next]_(Formal!formalVars) => FormalInv'
  BY FormalStep
<1>3. FormalInv => Formal!TypeOK /\ Formal!FormalRunsHonest
  <2>1. FormalInv => Formal!TypeOK
    BY DEF FormalInv, RunRecord, Formal!TypeOK
  <2> QED BY <2>1, FormalInvImplies
<1> QED BY <1>1, <1>2, <1>3, PTL DEF Formal!Spec


-----------------------------------------------------------------------------
(***************************************************************************)
(* The benchmark.                                                          *)
(***************************************************************************)
(***************************************************************************)
(* The invariant.  A build holds the evidence its step says it holds; what *)
(* is published is of the builder that got there, as it verified it.       *)
(***************************************************************************)
RowsRead == [Runs -> Bench!RunRecords]
Audits == (UNION {[D -> Bench!RunRecords] : D \in SUBSET HpoRuns}) \cup {<<>>}
StagedRecord ==
  [rows : RowsRead \cup {<<>>},
   audited : Audits,
   metrics : SUBSET UNION {p.metrics : p \in Packages},
   payload : {"matching", "different", "absent"}]
BuildState ==
  [pc : {"idle", "staging", "indexed", "copied", "verified", "published", "sealed",
         "valid", "invalid", "raised"},
   seal : BOOLEAN, staged : StagedRecord, temporary : BOOLEAN]
Exports == [Exporters -> {"idle", "verified", "copying", "done", "raised"}]
DestinationRecord ==
  [exists : BOOLEAN, by : Builders \cup {"none"}, staged : StagedRecord, intact : BOOLEAN,
   writable : BOOLEAN]

RowsSound(staged) ==
  /\ staged.rows \in RowsRead
  /\ \A r \in Runs : staged.rows[r].recorded /\ Bench!Explained(staged.rows[r])

Final(x) == x.pc \in {"sealed", "valid", "invalid"}
OnDisk(x) == x.pc \in {"published", "sealed", "valid", "invalid"}

BuildOf(x) ==
  /\ x.pc \in {"indexed", "copied", "verified"} => RowsSound(x.staged)
  /\ x.pc = "verified" => Bench!VerifyBenchmark(x.staged, TRUE)
  /\ x.pc \in {"idle", "raised"} => ~x.temporary

DestinationOf(d) ==
  d.exists => RowsSound(d.staged) /\ Bench!VerifyBenchmark(d.staged, TRUE)

Owned(b, x, d) ==
  /\ OnDisk(x) => d.exists /\ d.by = b
  /\ Final(x) /\ x.seal => ~d.writable
  /\ x.pc = "valid" /\ x.seal => d.intact

BenchInv ==
  /\ package \in Bench!PackageRecord /\ edits \in 0..MaxEdits
  /\ build \in [Builders -> BuildState]
  /\ destination \in DestinationRecord /\ DestinationOf(destination)
  /\ \A b \in Builders : BuildOf(build[b]) /\ Owned(b, build[b], destination)
  /\ export \in Exports
  /\ \A d, e \in Exporters :
       export[d] \in {"copying", "done"} /\ export[e] \in {"copying", "done"} => d = e

\* Audits are of searches.
LEMMA AuditsAre ==
  /\ <<>> \in Audits
  /\ \A D \in SUBSET HpoRuns : [D -> Bench!RunRecords] \subseteq Audits
  /\ \A f \in Audits : DOMAIN f \subseteq HpoRuns
<1> DEFINE Shapes == {[D -> Bench!RunRecords] : D \in SUBSET HpoRuns}
<1>1. Audits = (UNION Shapes) \cup {<<>>}
  BY DEF Audits
<1>2. \A D \in SUBSET HpoRuns : [D -> Bench!RunRecords] \in Shapes
  OBVIOUS
<1>3. ASSUME NEW f \in Audits
      PROVE  DOMAIN f \subseteq HpoRuns
  <2>1. CASE f \in UNION Shapes
    <3>1. PICK T \in Shapes : f \in T
      BY <2>1
    <3>2. PICK D \in SUBSET HpoRuns : T = [D -> Bench!RunRecords]
      OBVIOUS
    <3> QED BY <3>1, <3>2
  <2>2. CASE f = <<>>
    <3>1. DOMAIN <<>> = {}
      OBVIOUS
    <3> QED BY <2>2, <3>1
  <2> HIDE DEF Shapes
  <2>3. f \in UNION Shapes \/ f = <<>>
    BY <1>1, Zenon
  <2> QED BY <2>1, <2>2, <2>3
<1> HIDE DEF Shapes
<1>4. <<>> \in Audits /\ \A T \in Shapes : T \subseteq Audits
  BY <1>1, Zenon
<1> QED BY <1>2, <1>3, <1>4

\* It holds to begin with.
LEMMA BenchInit ==
  ASSUME Bench!BenchAssumption, Bench!Init
  PROVE  BenchInv
<1>1. Bench!Staged \in StagedRecord
  <2>1. <<>> \in RowsRead \cup {<<>>} /\ <<>> \in Audits
    BY AuditsAre
  <2>2. {} \in SUBSET UNION {p.metrics : p \in Packages}
    BY Zenon
  <2> QED BY <2>1, <2>2 DEF StagedRecord, Bench!Staged
<1>2. Bench!Idle \in BuildState /\ Bench!Idle.pc = "idle" /\ ~Bench!Idle.temporary
  BY <1>1 DEF Bench!Idle, BuildState
<1>3. /\ destination \in DestinationRecord /\ ~destination.exists
  BY <1>1 DEF Bench!Init, Bench!Nowhere, DestinationRecord
<1>4. build = [b \in Builders |-> Bench!Idle] /\ package \in Bench!PackageRecord /\ edits \in 0..MaxEdits
  BY DEF Bench!Init, Bench!BenchAssumption
<1>5. \A b \in Builders : BuildOf(build[b]) /\ Owned(b, build[b], destination)
  BY <1>2, <1>4 DEF BuildOf, Owned, OnDisk, Final
<1>6. export = [e \in Exporters |-> "idle"] /\ export \in Exports
  BY DEF Bench!Init, Exports
<1> QED BY <1>2, <1>3, <1>4, <1>5, <1>6 DEF BenchInv, DestinationOf

\* A step of a build that leaves the destination alone.
LEMMA BuildSteps ==
  ASSUME BenchInv, NEW b \in Builders, NEW x \in BuildState, BuildOf(x),
         Owned(b, x, destination), build' = [build EXCEPT ![b] = x],
         UNCHANGED <<package, edits, destination, export>>
  PROVE  BenchInv'
<1>1. build' \in [Builders -> BuildState]
  BY DEF BenchInv
<1>2. \A c \in Builders : build'[c] = IF c = b THEN x ELSE build[c]
  BY DEF BenchInv
<1>3. \A c \in Builders : BuildOf(build'[c]) /\ Owned(c, build'[c], destination)
  BY <1>2 DEF BenchInv
<1>4. /\ package' \in Bench!PackageRecord /\ edits' \in 0..MaxEdits
      /\ destination' \in DestinationRecord /\ DestinationOf(destination')
      /\ export' \in Exports
      /\ \A d, e \in Exporters :
           export'[d] \in {"copying", "done"} /\ export'[e] \in {"copying", "done"} => d = e
  BY DEF BenchInv
<1>5. \A c \in Builders : BuildOf(build'[c]) /\ Owned(c, build'[c], destination')
  BY <1>3
<1> QED BY <1>1, <1>4, <1>5 DEF BenchInv


\* What is known of a build and of the package it reads.
LEMMA BuildIs ==
  ASSUME BenchInv, NEW b \in Builders
  PROVE  /\ build[b] \in BuildState /\ build[b].staged \in StagedRecord
         /\ BuildOf(build[b]) /\ Owned(b, build[b], destination)
BY DEF BenchInv, BuildState

\* Begin, and the refusal to.
LEMMA BeginKeeps ==
  ASSUME BenchInv, NEW b \in Builders, Bench!Begin(b) \/ Bench!Reject(b)
  PROVE  BenchInv'
<1>1. CASE Bench!Begin(b)
  <2>4. PICK seal \in BOOLEAN :
          /\ build' = [build EXCEPT ![b] =
                          [@ EXCEPT !.pc = "staging", !.seal = seal, !.temporary = TRUE]]
          /\ UNCHANGED <<package, edits, destination, export>>
    BY <1>1 DEF Bench!Begin
  <2> DEFINE x == [build[b] EXCEPT !.pc = "staging", !.seal = seal, !.temporary = TRUE]
  <2>1. x \in BuildState /\ x.pc = "staging"
    BY BuildIs DEF BuildState
  <2>2. build' = [build EXCEPT ![b] = x] /\ UNCHANGED <<package, edits, destination, export>>
    BY <2>4 DEF BenchInv
  <2> HIDE DEF x
  <2>3. BuildOf(x) /\ Owned(b, x, destination)
    BY <2>1 DEF BuildOf, Owned, OnDisk, Final
  <2> QED BY <2>1, <2>2, <2>3, BuildSteps
<1>2. CASE Bench!Reject(b)
  <2> DEFINE x == [build[b] EXCEPT !.pc = "raised"]
  <2>1. /\ x \in BuildState /\ x.pc = "raised" /\ x.temporary = build[b].temporary
        /\ build[b].pc = "idle" /\ BuildOf(build[b])
    BY <1>2, BuildIs DEF BuildState, Bench!Reject
  <2>2. build' = [build EXCEPT ![b] = x] /\ UNCHANGED <<package, edits, destination, export>>
    BY <1>2 DEF Bench!Reject
  <2> HIDE DEF x
  <2>3. BuildOf(x) /\ Owned(b, x, destination)
    BY <2>1 DEF BuildOf, Owned, OnDisk, Final
  <2> QED BY <2>1, <2>2, <2>3, BuildSteps
<1> QED BY <1>1, <1>2

\* The index is of runs that recorded what they are.
LEMMA IndexRunsKeeps ==
  ASSUME BenchInv, NEW b \in Builders, Bench!IndexRuns(b)
  PROVE  BenchInv'
<1> DEFINE x == [build[b] EXCEPT !.pc = "indexed", !.staged.rows = package.runs]
<1>1. package.runs \in RowsRead
  BY DEF BenchInv, Bench!PackageRecord, RowsRead
<1>2. build[b] \in BuildState /\ build[b].staged \in StagedRecord
  BY BuildIs
<1>3. x.staged \in StagedRecord /\ x.staged.rows = package.runs
  BY <1>1, <1>2 DEF BuildState, StagedRecord
<1>4. x \in BuildState /\ x.pc = "indexed"
  BY <1>2, <1>3 DEF BuildState
<1>5. build' = [build EXCEPT ![b] = x] /\ UNCHANGED <<package, edits, destination, export>>
  BY DEF Bench!IndexRuns
<1>6. RowsSound(x.staged)
  BY <1>1, <1>3 DEF RowsSound, Bench!IndexRuns, Bench!FormalRun
<1> HIDE DEF x
<1>7. BuildOf(x) /\ Owned(b, x, destination)
  BY <1>4, <1>6 DEF BuildOf, Owned, OnDisk, Final
<1> QED BY <1>4, <1>5, <1>7, BuildSteps

\* The studies that are audited are searches.
LEMMA CopyEvidenceKeeps ==
  ASSUME Bench!BenchAssumption, BenchInv, NEW b \in Builders, Bench!CopyEvidence(b)
  PROVE  BenchInv'
<1> DEFINE audited == [r \in Bench!TuningLogs |-> package.runs[r]]
           x == [build[b] EXCEPT !.pc = "copied", !.staged.audited = audited,
                   !.staged.metrics = package.metrics, !.staged.payload = package.payload]
<1>1. /\ package.runs \in RowsRead
      /\ package.metrics \in SUBSET UNION {p.metrics : p \in Packages}
      /\ package.payload \in {"matching", "different", "absent"}
  BY DEF BenchInv, Bench!PackageRecord, RowsRead
<1>2. /\ build[b] \in BuildState /\ build[b].staged \in StagedRecord
      /\ build[b].pc = "indexed" /\ BuildOf(build[b])
  BY BuildIs DEF Bench!CopyEvidence
<1>3. audited \in Audits
  <2>1. Bench!TuningLogs \in SUBSET HpoRuns
    BY DEF Bench!TuningLogs
  <2>2. audited \in [Bench!TuningLogs -> Bench!RunRecords]
    BY <1>1, <2>1 DEF RowsRead, Bench!BenchAssumption
  <2> HIDE DEF audited
  <2> QED BY <2>1, <2>2, AuditsAre
<1>4. build' = [build EXCEPT ![b] = x] /\ UNCHANGED <<package, edits, destination, export>>
  BY DEF Bench!CopyEvidence
<1> HIDE DEF audited
<1>5. x.staged \in StagedRecord /\ x.staged.rows = build[b].staged.rows
  BY <1>1, <1>2, <1>3 DEF BuildState, StagedRecord
<1>6. x \in BuildState /\ x.pc = "copied"
  BY <1>2, <1>5 DEF BuildState
<1> HIDE DEF x
<1>7. RowsSound(x.staged)
  BY <1>2, <1>5 DEF BuildOf, RowsSound
<1>8. BuildOf(x) /\ Owned(b, x, destination)
  BY <1>6, <1>7 DEF BuildOf, Owned, OnDisk, Final
<1> QED BY <1>4, <1>6, <1>8, BuildSteps

\* Verification, and what is returned after sealing.
LEMMA VerifyKeeps ==
  ASSUME BenchInv, NEW b \in Builders, Bench!VerifyStaged(b) \/ Bench!Return(b) \/ Bench!Abort(b)
  PROVE  BenchInv'
<1>1. /\ build[b] \in BuildState /\ BuildOf(build[b]) /\ Owned(b, build[b], destination)
  BY BuildIs
<1>2. CASE Bench!VerifyStaged(b)
  <2> DEFINE x == [build[b] EXCEPT !.pc = "verified"]
  <2>1. /\ x \in BuildState /\ x.pc = "verified" /\ x.staged = build[b].staged
        /\ build[b].pc = "copied" /\ Bench!VerifyBenchmark(build[b].staged, TRUE)
    BY <1>1, <1>2 DEF BuildState, Bench!VerifyStaged
  <2>2. build' = [build EXCEPT ![b] = x] /\ UNCHANGED <<package, edits, destination, export>>
    BY <1>2 DEF Bench!VerifyStaged
  <2> HIDE DEF x
  <2>3. BuildOf(x) /\ Owned(b, x, destination)
    BY <1>1, <2>1 DEF BuildOf, Owned, OnDisk, Final
  <2> QED BY <2>1, <2>2, <2>3, BuildSteps
<1>3. CASE Bench!Return(b)
  <2> DEFINE verdict == IF Bench!VerifyBenchmark(destination.staged, destination.intact)
                        THEN "valid" ELSE "invalid"
             x == [build[b] EXCEPT !.pc = verdict]
  <2>1. /\ build[b].pc = IF build[b].seal THEN "sealed" ELSE "published"
        /\ build' = [build EXCEPT ![b] = x]
        /\ UNCHANGED <<package, edits, destination, export>>
    BY <1>3 DEF Bench!Return
  <2>2. verdict \in {"valid", "invalid"} /\ (verdict = "valid" => destination.intact)
    BY DEF Bench!VerifyBenchmark
  <2> HIDE DEF verdict
  <2>3. x \in BuildState /\ x.pc = verdict /\ x.seal = build[b].seal
    BY <1>1, <2>2 DEF BuildState
  <2> HIDE DEF x
  <2>4. BuildOf(x) /\ Owned(b, x, destination)
    BY <1>1, <2>1, <2>2, <2>3 DEF BuildOf, Owned, OnDisk, Final
  <2> QED BY <2>1, <2>3, <2>4, BuildSteps
<1>4. CASE Bench!Abort(b)
  <2> DEFINE x == [build[b] EXCEPT !.pc = "raised", !.temporary = FALSE]
  <2>1. x \in BuildState /\ x.pc = "raised" /\ ~x.temporary
    BY <1>1 DEF BuildState
  <2>2. build' = [build EXCEPT ![b] = x] /\ UNCHANGED <<package, edits, destination, export>>
    BY <1>4 DEF Bench!Abort
  <2> HIDE DEF x
  <2>3. BuildOf(x) /\ Owned(b, x, destination)
    BY <2>1 DEF BuildOf, Owned, OnDisk, Final
  <2> QED BY <2>1, <2>2, <2>3, BuildSteps
<1> QED BY <1>2, <1>3, <1>4


\* A staged benchmark that verified moves to where nothing is.
LEMMA PublishKeeps ==
  ASSUME BenchInv, NEW b \in Builders, Bench!Publish(b)
  PROVE  BenchInv'
<1> DEFINE x == [build[b] EXCEPT !.pc = "published", !.temporary = FALSE]
           d == [exists |-> TRUE, by |-> b, staged |-> build[b].staged,
                 intact |-> TRUE, writable |-> TRUE]
<1>1. /\ build[b] \in BuildState /\ build[b].staged \in StagedRecord /\ BuildOf(build[b])
      /\ build[b].pc = "verified" /\ ~destination.exists
  BY BuildIs DEF Bench!Publish
<1>2. /\ build' = [build EXCEPT ![b] = x] /\ destination' = d
      /\ UNCHANGED <<package, edits, export>>
  BY DEF Bench!Publish, Bench!Moved
<1>3. x \in BuildState /\ x.pc = "published"
  BY <1>1 DEF BuildState
<1>4. d \in DestinationRecord /\ d.exists /\ d.by = b /\ d.staged = build[b].staged
  BY <1>1 DEF DestinationRecord
<1> HIDE DEF x, d
<1>5. DestinationOf(d)
  BY <1>1, <1>4 DEF DestinationOf, BuildOf
<1>6. build' \in [Builders -> BuildState] /\ \A c \in Builders : build'[c] = IF c = b THEN x ELSE build[c]
  BY <1>2, <1>3 DEF BenchInv
<1>7. \A c \in Builders : BuildOf(build'[c]) /\ Owned(c, build'[c], d)
  <2>1. BuildOf(x) /\ Owned(b, x, d)
    BY <1>3, <1>4 DEF BuildOf, Owned, OnDisk, Final
  <2>2. \A c \in Builders : BuildOf(build[c]) /\ Owned(c, build[c], d)
    BY <1>1 DEF BenchInv, Owned, OnDisk, Final
  <2> QED BY <1>6, <2>1, <2>2
<1> QED BY <1>2, <1>4, <1>5, <1>6, <1>7 DEF BenchInv

\* Its permissions are taken away by the builder it is of.
LEMMA SealKeeps ==
  ASSUME BenchInv, NEW b \in Builders, Bench!Seal(b)
  PROVE  BenchInv'
<1> DEFINE x == [build[b] EXCEPT !.pc = "sealed"]
           d == [destination EXCEPT !.writable = FALSE]
<1>1. /\ build[b] \in BuildState /\ Owned(b, build[b], destination) /\ build[b].pc = "published"
      /\ destination \in DestinationRecord /\ DestinationOf(destination)
  BY BuildIs DEF Bench!Seal, BenchInv
<1>2. /\ build' = [build EXCEPT ![b] = x] /\ destination' = d
      /\ UNCHANGED <<package, edits, export>>
  BY DEF Bench!Seal
<1>3. x \in BuildState /\ x.pc = "sealed"
  BY <1>1 DEF BuildState
<1>4. /\ d \in DestinationRecord /\ d.exists = destination.exists /\ d.by = destination.by
      /\ d.staged = destination.staged /\ d.intact = destination.intact /\ ~d.writable
  BY <1>1 DEF DestinationRecord
<1> HIDE DEF x, d
<1>5. DestinationOf(d)
  BY <1>1, <1>4 DEF DestinationOf
<1>6. build' \in [Builders -> BuildState] /\ \A c \in Builders : build'[c] = IF c = b THEN x ELSE build[c]
  BY <1>2, <1>3 DEF BenchInv
<1>7. \A c \in Builders : BuildOf(build'[c]) /\ Owned(c, build'[c], d)
  <2>1. BuildOf(x) /\ Owned(b, x, d)
    BY <1>1, <1>3, <1>4 DEF BuildOf, Owned, OnDisk, Final
  <2>2. \A c \in Builders : BuildOf(build[c]) /\ Owned(c, build[c], d)
    BY <1>4 DEF BenchInv, Owned
  <2> QED BY <1>6, <2>1, <2>2
<1> QED BY <1>2, <1>4, <1>5, <1>6, <1>7 DEF BenchInv

\* Edits of the package reach no build that read it, and edits of the
\* destination none that was sealed.
LEMMA EditKeeps ==
  ASSUME Bench!BenchAssumption, BenchInv, Bench!EditPackage \/ Bench!EditDestination
  PROVE  BenchInv'
<1>1. CASE Bench!EditPackage
  <2>1. PICK other \in Packages : package' = [other EXCEPT !.checksums = FALSE]
    BY <1>1 DEF Bench!EditPackage
  <2>2. other \in Bench!PackageRecord
    BY DEF Bench!BenchAssumption
  <2>3. package' \in Bench!PackageRecord
    BY <2>1, <2>2 DEF Bench!PackageRecord
  <2>4. edits' \in 0..MaxEdits /\ UNCHANGED <<build, destination, export>>
    <3>1. edits \in 0..MaxEdits /\ MaxEdits \in Nat
      BY DEF BenchInv, Bench!BenchAssumption
    <3>2. edits < MaxEdits /\ edits' = edits + 1 /\ UNCHANGED <<build, destination, export>>
      BY <1>1 DEF Bench!EditPackage
    <3> QED BY <3>1, <3>2
  <2> QED BY <2>3, <2>4 DEF BenchInv
<1>2. CASE Bench!EditDestination
  <2> DEFINE d == [destination EXCEPT !.intact = FALSE]
  <2>1. /\ edits' \in 0..MaxEdits /\ destination' = d /\ destination.writable
        /\ UNCHANGED <<package, build, export>>
    BY <1>2 DEF Bench!EditDestination, BenchInv, Bench!BenchAssumption
  <2>2. destination \in DestinationRecord /\ DestinationOf(destination)
    BY DEF BenchInv
  <2>3. /\ d \in DestinationRecord /\ d.exists = destination.exists /\ d.by = destination.by
        /\ d.staged = destination.staged /\ d.writable = destination.writable
    BY <2>2 DEF DestinationRecord
  <2> HIDE DEF d
  <2>4. DestinationOf(d)
    BY <2>2, <2>3 DEF DestinationOf
  <2>5. \A b \in Builders : BuildOf(build[b]) /\ Owned(b, build[b], d)
    BY <2>1, <2>3 DEF BenchInv, Owned, Final
  <2> QED BY <2>1, <2>3, <2>4, <2>5 DEF BenchInv
<1> QED BY <1>1, <1>2

\* One export at a time copies.
LEMMA ExportKeeps ==
  ASSUME BenchInv, NEW e \in Exporters,
         Bench!VerifyExport(e) \/ Bench!BeginExport(e) \/ Bench!FinishExport(e)
  PROVE  BenchInv'
<1> DEFINE Busy(s) == s \in {"copying", "done"}
<1>1. UNCHANGED <<package, edits, build, destination>>
  BY DEF Bench!VerifyExport, Bench!BeginExport, Bench!FinishExport
<1>2. export \in Exports
  BY DEF BenchInv
<1>3. \A d, f \in Exporters : Busy(export[d]) /\ Busy(export[f]) => d = f
  BY DEF BenchInv
<1>4. PICK s \in {"verified", "copying", "raised", "done"} :
        /\ export' = [export EXCEPT ![e] = s]
        /\ s = "copying" => \A f \in Exporters : ~Busy(export[f])
        /\ s = "done" => export[e] = "copying"
  BY DEF Bench!VerifyExport, Bench!BeginExport, Bench!FinishExport, Bench!Occupied
<1>5. /\ export' \in Exports
      /\ \A f \in Exporters : export'[f] = IF f = e THEN s ELSE export[f]
  BY <1>2, <1>4 DEF Exports
<1>6. \A d, f \in Exporters : Busy(export'[d]) /\ Busy(export'[f]) => d = f
  BY <1>3, <1>4, <1>5
<1> QED BY <1>1, <1>5, <1>6 DEF BenchInv

\* Every step keeps the invariant.
LEMMA BenchStep ==
  ASSUME Bench!BenchAssumption, BenchInv, [Bench!Next]_(Bench!benchmarkVars)
  PROVE  BenchInv'
<1>1. CASE UNCHANGED Bench!benchmarkVars
  BY <1>1 DEF Bench!benchmarkVars, BenchInv
<1>2. ASSUME NEW b \in Builders,
             \/ Bench!Begin(b) \/ Bench!Reject(b) \/ Bench!IndexRuns(b) \/ Bench!CopyEvidence(b)
             \/ Bench!VerifyStaged(b) \/ Bench!Publish(b) \/ Bench!Seal(b) \/ Bench!Abort(b)
             \/ Bench!Return(b)
      PROVE  BenchInv'
  BY <1>2, BeginKeeps, IndexRunsKeeps, CopyEvidenceKeeps, VerifyKeeps, PublishKeeps, SealKeeps
<1> QED BY <1>1, <1>2, EditKeeps, ExportKeeps DEF Bench!Next

\* What the invariant says of the benchmark.
LEMMA BenchInvImplies ==
  ASSUME BenchInv
  PROVE  Bench!TypeOK /\ Bench!BenchmarkSound
<1>1. Bench!TypeOK
  <2>1. \A b \in Builders : DOMAIN build[b].staged.audited \subseteq HpoRuns
    BY BuildIs, AuditsAre DEF StagedRecord
  <2> QED BY <2>1 DEF BenchInv, Bench!PackageRecord, DestinationRecord, Exports, Bench!TypeOK
<1>2. \A b \in Builders : Bench!Published(b) => destination.exists /\ destination.by = b
  BY DEF BenchInv, Owned, OnDisk, Bench!Published
<1>3. \A b, c \in Builders : Bench!Published(b) /\ Bench!Published(c) => b = c
  BY <1>2
<1>4. \A b \in Builders : build[b].pc = "valid" /\ build[b].seal =>
        destination.intact /\ ~destination.writable
  BY DEF BenchInv, Owned, Final
<1>5. \A b \in Builders : build[b].pc = "raised" => ~build[b].temporary
  BY DEF BenchInv, BuildOf
<1>6. ASSUME destination.exists
      PROVE  LET staged == destination.staged
             IN  /\ DOMAIN staged.rows = Runs /\ staged.metrics \subseteq Runs
                 /\ \A r \in Runs : /\ staged.rows[r].recorded /\ staged.rows[r].formal
                                    /\ staged.rows[r].status = "failed" => staged.rows[r].explained
                 /\ \A r \in DOMAIN staged.audited : staged.audited[r].tests = 1
  <2>1. RowsSound(destination.staged) /\ Bench!VerifyBenchmark(destination.staged, TRUE)
    BY <1>6 DEF BenchInv, DestinationOf
  <2>2. DOMAIN destination.staged.rows = Runs
    BY <2>1 DEF RowsSound, RowsRead
  <2> QED BY <2>1, <2>2 DEF RowsSound, Bench!VerifyBenchmark, Bench!RunsCorrespond,
             Bench!HpoIsolated, Bench!ProvenanceKnown, Bench!Explained
<1>7. \A d, e \in Exporters :
        export[d] \in {"copying", "done"} /\ export[e] \in {"copying", "done"} => d = e
  BY DEF BenchInv
<1> QED BY <1>1, <1>2, <1>3, <1>4, <1>5, <1>6, <1>7 DEF Bench!BenchmarkSound

\* However builds race and whatever changes under them, a benchmark is of one
\* build, of formal runs that recorded themselves, and read-only and intact when a
\* build asked to seal it returned it as valid; one export at most wrote a directory
\* (benchmarking/core.py:800-999, 1222-1250).
THEOREM BenchmarkStaysSound ==
  ASSUME Bench!BenchAssumption
  PROVE  Bench!Spec => [](Bench!TypeOK /\ Bench!BenchmarkSound)
<1>1. Bench!Init => BenchInv
  BY BenchInit
<1>2. BenchInv /\ [Bench!Next]_(Bench!benchmarkVars) => BenchInv'
  BY BenchStep
<1>3. BenchInv => Bench!TypeOK /\ Bench!BenchmarkSound
  BY BenchInvImplies
<1> QED BY <1>1, <1>2, <1>3, PTL DEF Bench!Spec


-----------------------------------------------------------------------------
(***************************************************************************)
(* The reports.                                                            *)
(***************************************************************************)
(***************************************************************************)
(* The invariant.  As long as no two builds overlapped, one builder writes *)
(* at most, what it has written is of its index and comparison, and so is  *)
(* what a manifest lists.                                                  *)
(***************************************************************************)
BuilderIs(x) ==
  x \in [pc : {"idle", "writing", "raised", "killed", "done"}, request : {x.request},
         content : {x.content}, next : 1..5]
  /\ x.content = [index |-> x.content.index, comparison |-> x.content.comparison]

IndexOf(index, request, h) ==
  /\ request \subseteq DOMAIN index
  /\ Cardinality(DOMAIN index) <= MaxRuns
  /\ \A d \in Directories : h[d].kind = "tuning" /\ h[d].flag /\ h[d].id \in DOMAIN index =>
       index[h[d].id].status # "completed"

\* Every row is of a run that is there, and no newer than it.
Earlier(index, h) ==
  \A id \in DOMAIN index :
    /\ index[id].version \in Nat
    /\ \E d \in Directories : h[d].kind # "nothing" /\ h[d].id = id
    /\ \A d \in Directories : h[d].kind # "nothing" /\ h[d].id = id => index[id].version <= h[d].version

\* What has been compared is of the index, and no older than its row.
Later(content) ==
  /\ DOMAIN content.comparison \subseteq Report!Trainings(content.index)
  /\ \A id \in DOMAIN content.comparison : content.index[id].version <= content.comparison[id]

Unmixed ==
  /\ \A b, c \in Builders : builder[b].pc = "writing" /\ builder[c].pc = "writing" => b = c
  /\ \A b \in Builders : builder[b].pc = "writing" =>
       \A i \in 1..4 : i < builder[b].next => pages[Report!Groups[i]] = builder[b].content
  /\ manifest.written =>
       \A f \in Report!ReportFiles :
         /\ manifest.listed[f] = manifest.listed["pages"] /\ Report!Whole(manifest.listed[f])
         /\ manifest.listed[f].index = manifest.index

WriterIs(x, h) ==
  /\ IndexOf(x.content.index, x.request, h)
  /\ Earlier(x.content.index, h) /\ Later(x.content)
  /\ x.next > 1 => Report!Compared(x.content)

ReportInv ==
  /\ changes \in 0..MaxChanges
  /\ held \in [Directories -> Report!Candidate]
  /\ builder = [b \in Builders |-> builder[b]] /\ \A b \in Builders : BuilderIs(builder[b])
  /\ pages = [f \in Report!ReportFiles |-> pages[f]]
  /\ \A b \in Builders : builder[b].pc \notin {"idle", "raised"} => WriterIs(builder[b], held)
  /\ mixed = {} => Unmixed

\* The cardinality that the specification speaks of.
LEMMA SameCardinalityInReports ==
  ASSUME NEW S
  PROVE  Report!Cardinality(S) = Cardinality(S)
BY DEF Report!Cardinality, Cardinality

\* There are finitely many directories.
LEMMA FiniteDirectories ==
  ASSUME Report!ReportAssumption
  PROVE  IsFiniteSet(Directories)
BY DEF Report!ReportAssumption, Report!IsFiniteSet, IsFiniteSet

\* It holds to begin with.
LEMMA ReportInit ==
  ASSUME Report!ReportAssumption, Report!Init
  PROVE  ReportInv
<1>1. changes \in 0..MaxChanges /\ held \in [Directories -> Report!Candidate]
  BY DEF Report!ReportAssumption, Report!Init
<1>2. builder = [b \in Builders |-> Report!Idle] /\ pages = [f \in Report!ReportFiles |-> Report!Blank]
  BY DEF Report!Init
<1>3. BuilderIs(Report!Idle) /\ Report!Idle.pc = "idle"
  BY DEF Report!Idle, Report!Blank, BuilderIs
<1>4. ~manifest.written
  BY DEF Report!Init, Report!NoManifest
<1> QED BY <1>1, <1>2, <1>3, <1>4 DEF ReportInv, Unmixed

\* An index names the runs asked for, no more than allowed, and none twice.
LEMMA IndexIs ==
  ASSUME Report!ReportAssumption, held \in [Directories -> Report!Candidate],
         NEW request, ~Report!Unindexable(request)
  PROVE  IndexOf(Report!Index(request), request, held) /\ Earlier(Report!Index(request), held)
<1> DEFINE R == Report!RunIndexed
           ids == {held[d].id : d \in R}
           D == IF request = {} THEN ids ELSE request
<1>1. /\ Cardinality(R) <= MaxRuns /\ request \subseteq ids
      /\ \A c, d \in R : held[c].id = held[d].id => c = d
  <2>1. /\ ~(Cardinality(R) > MaxRuns) /\ request \subseteq ids
        /\ \A c, d \in R : ~(c # d /\ held[c].id = held[d].id)
    BY SameCardinalityInReports DEF Report!Unindexable
  <2>2. IsFiniteSet(R)
    BY FS_Subset, FiniteDirectories DEF Report!RunIndexed
  <2>3. Cardinality(R) \in Nat /\ MaxRuns \in Nat
    BY <2>2, FS_CardinalityType DEF Report!ReportAssumption
  <2> QED BY <2>1, <2>3
<1>2. DOMAIN Report!Index(request) = D /\ \A id \in D : Report!Index(request)[id] = Report!Row(id)
  BY DEF Report!Index
<1>3. Cardinality(D) <= MaxRuns
  <2>1. IsFiniteSet(R)
    BY FS_Subset, FiniteDirectories DEF Report!RunIndexed
  <2>2. IsFiniteSet(ids) /\ Cardinality(ids) <= Cardinality(R)
    <3> DEFINE f == [d \in R |-> held[d].id]
    <3>1. f \in Surjection(R, ids)
      BY DEF Surjection
    <3> HIDE DEF f, R, ids
    <3> QED BY <2>1, <3>1, FS_Surjection
  <2>3. D \subseteq ids
    BY <1>1
  <2>4. Cardinality(D) <= Cardinality(ids) /\ Cardinality(D) \in Nat /\ Cardinality(ids) \in Nat
        /\ Cardinality(R) \in Nat /\ MaxRuns \in Nat
    <3> HIDE DEF D, ids, R
    <3>1. IsFiniteSet(D) /\ Cardinality(D) <= Cardinality(ids)
      BY <2>2, <2>3, FS_Subset
    <3> QED BY <2>1, <2>2, <3>1, FS_CardinalityType DEF Report!ReportAssumption
  <2> HIDE DEF D, ids, R
  <2> QED BY <1>1, <2>2, <2>4
<1>4. ASSUME NEW d \in Directories, held[d].kind = "tuning", held[d].flag, held[d].id \in D
      PROVE  Report!Row(held[d].id).status # "completed"
  <2>1. d \in R
    BY <1>4 DEF Report!RunIndexed, Report!Recognised
  <2>2. (CHOOSE c \in R : held[c].id = held[d].id) = d
    BY <1>1, <2>1
  <2>3. Report!Row(held[d].id).status = Report!Status(d)
    BY <2>2 DEF Report!Row, Report!Holder
  <2>4. Report!Status(d) = "invalid_test_access"
    BY <1>4 DEF Report!Status
  <2> QED BY <2>3, <2>4
<1>5. request \subseteq D /\ D \subseteq ids
  BY <1>1
<1>6. ASSUME NEW id \in D
      PROVE  /\ Report!Row(id).version \in Nat
             /\ \E d \in Directories : held[d].kind # "nothing" /\ held[d].id = id
             /\ \A d \in Directories : held[d].kind # "nothing" /\ held[d].id = id =>
                  Report!Row(id).version <= held[d].version
  <2>1. PICK d \in R : held[d].id = id
    BY <1>5, <1>6
  <2>2. d \in Directories /\ held[d].kind # "nothing" /\ held[d].version \in Nat
    BY <2>1 DEF Report!RunIndexed, Report!Recognised, Report!Candidate
  <2>3. \A c \in Directories : held[c].kind # "nothing" /\ held[c].id = id => c = d
    BY <1>1, <2>1 DEF Report!RunIndexed, Report!Recognised
  <2>4. Report!Holder(id) = d
    BY <1>1, <2>1 DEF Report!Holder
  <2>5. Report!Row(id).version = held[d].version
    BY <2>4 DEF Report!Row
  <2> QED BY <2>1, <2>2, <2>3, <2>5
<1> HIDE DEF D
<1>8. IndexOf(Report!Index(request), request, held)
  BY <1>2, <1>3, <1>4, <1>5 DEF IndexOf
<1>9. Earlier(Report!Index(request), held)
  BY <1>2, <1>6 DEF Earlier
<1> QED BY <1>8, <1>9


\* Indices outlive changes of the runs, whose kinds and ids stay.
LEMMA ChangeRunKeeps ==
  ASSUME Report!ReportAssumption, ReportInv, Report!ChangeRun
  PROVE  ReportInv'
<1>1. PICK d \in Directories : held' = [held EXCEPT ![d].version = @ + 1]
  BY DEF Report!ChangeRun
<1>2. held \in [Directories -> Report!Candidate]
  BY DEF ReportInv
<1>3. [held[d] EXCEPT !.version = @ + 1] \in Report!Candidate
  <2>1. held[d].version + 1 \in Nat
    BY <1>2 DEF Report!Candidate
  <2> QED BY <1>2, <2>1 DEF Report!Candidate
<1>4. held' \in [Directories -> Report!Candidate]
  BY <1>1, <1>2, <1>3
<1>5. \A c \in Directories : /\ held'[c].kind = held[c].kind /\ held'[c].id = held[c].id
                             /\ held'[c].flag = held[c].flag
  BY <1>1, <1>2 DEF Report!Candidate
<1>6. \A x : WriterIs(x, held) => WriterIs(x, held')
  <2>1. \A index, request : IndexOf(index, request, held) => IndexOf(index, request, held')
    BY <1>5 DEF IndexOf
  <2>2. ASSUME NEW index, Earlier(index, held)
        PROVE  Earlier(index, held')
    <3>1. \A c \in Directories : /\ held[c].version \in Nat /\ held'[c].version \in Nat
                                 /\ held[c].version <= held'[c].version
      BY <1>1, <1>2 DEF Report!Candidate
    <3>2. ASSUME NEW id \in DOMAIN index
          PROVE  /\ index[id].version \in Nat
                 /\ \E c \in Directories : held'[c].kind # "nothing" /\ held'[c].id = id
      BY <1>5, <2>2, <3>2 DEF Earlier
    <3>3. ASSUME NEW id \in DOMAIN index, NEW c \in Directories,
                 held'[c].kind # "nothing", held'[c].id = id
          PROVE  index[id].version <= held'[c].version
      <4>1. index[id].version <= held[c].version
        BY <1>5, <2>2, <3>3 DEF Earlier
      <4>2. index[id].version \in Nat
        BY <3>2
      <4> QED BY <3>1, <4>1, <4>2
    <3> QED BY <3>2, <3>3 DEF Earlier
  <2> QED BY <2>1, <2>2 DEF WriterIs
<1>7. changes' \in 0..MaxChanges
  <2>1. changes \in 0..MaxChanges /\ MaxChanges \in Nat /\ changes < MaxChanges /\ changes' = changes + 1
    BY DEF ReportInv, Report!ReportAssumption, Report!ChangeRun
  <2> QED BY <2>1
<1>8. UNCHANGED <<builder, pages, manifest, mixed>>
  BY DEF Report!ChangeRun
<1> QED BY <1>4, <1>6, <1>7, <1>8 DEF ReportInv, Unmixed

\* A build that begins alone is the one that writes.
LEMMA BuildRunIndexKeeps ==
  ASSUME Report!ReportAssumption, ReportInv, NEW b \in Builders, Report!BuildRunIndex(b)
  PROVE  ReportInv'
<1>1. PICK request \in Requests :
        /\ ~Report!Unindexable(request)
        /\ builder' = [builder EXCEPT ![b] =
             [pc |-> "writing", request |-> request, next |-> 1,
              content |-> [index |-> Report!Index(request), comparison |-> Report!NoIndex]]]
  BY Zenon DEF Report!BuildRunIndex
<1>2. /\ mixed' = IF Report!Alone(b) THEN mixed ELSE Builders
      /\ UNCHANGED <<held, changes, pages, manifest>>
  BY DEF Report!BuildRunIndex
<1>3. PICK index : index = Report!Index(request)
  OBVIOUS
<1>4. PICK content : content = [index |-> index, comparison |-> Report!NoIndex]
  OBVIOUS
<1>5. PICK x : x = [pc |-> "writing", request |-> request, next |-> 1, content |-> content]
  OBVIOUS
<1>6. /\ builder' = [builder EXCEPT ![b] = x]
      /\ x.pc = "writing" /\ x.request = request /\ x.content = content /\ x.next = 1
      /\ content.index = index /\ content.comparison = Report!NoIndex
  BY <1>1, <1>3, <1>4, <1>5
<1>7. BuilderIs(x)
  BY <1>4, <1>5, <1>6 DEF BuilderIs
<1>8. WriterIs(x, held)
  <2>1. IndexOf(index, request, held) /\ Earlier(index, held)
    BY <1>1, <1>3, IndexIs DEF ReportInv
  <2>2. Later(content)
    BY <1>6 DEF Later, Report!NoIndex
  <2> QED BY <1>6, <2>1, <2>2 DEF WriterIs
<1>9. /\ builder' = [c \in Builders |-> builder'[c]]
      /\ \A c \in Builders : builder'[c] = IF c = b THEN x ELSE builder[c]
  BY <1>6 DEF ReportInv
<1>10. mixed' = {} => Unmixed'
  <2> SUFFICES ASSUME mixed' = {}
               PROVE  Unmixed'
    OBVIOUS
  <2>1. Report!Alone(b) /\ mixed = {}
    BY <1>2
  <2>2. \A c \in Builders \ {b} : builder[c].pc # "writing"
    BY <2>1 DEF Report!Alone
  <2>3. Unmixed
    BY <2>1 DEF ReportInv
  <2>4. \A c \in Builders : builder'[c].pc = "writing" => c = b
    BY <1>9, <2>2
  <2>5. \A c \in Builders : builder'[c].pc = "writing" =>
          \A i \in 1..4 : i < builder'[c].next => pages'[Report!Groups[i]] = builder'[c].content
    BY <1>6, <1>9, <2>4
  <2> QED BY <1>2, <2>3, <2>4, <2>5 DEF Unmixed
<1>11. \A c \in Builders : BuilderIs(builder'[c])
  BY <1>7, <1>9 DEF ReportInv
<1>12. \A c \in Builders : builder'[c].pc \notin {"idle", "raised"} => WriterIs(builder'[c], held')
  BY <1>2, <1>8, <1>9 DEF ReportInv
<1> QED BY <1>2, <1>9, <1>10, <1>11, <1>12 DEF ReportInv

\* A run is read again: what is read is of the index, and no older.
LEMMA CompareRunKeeps ==
  ASSUME Report!ReportAssumption, ReportInv, NEW b \in Builders, Report!CompareRun(b)
  PROVE  ReportInv'
<1>1. PICK id \in Report!Trainings(builder[b].content.index) \ DOMAIN builder[b].content.comparison :
        builder' = [builder EXCEPT ![b].content.comparison =
                      Report!With(@, id, held[Report!Holder(id)].version)]
  BY DEF Report!CompareRun
<1>2. builder[b].pc = "writing" /\ UNCHANGED <<held, changes, pages, manifest, mixed>>
  BY DEF Report!CompareRun
<1>3. PICK old : old = builder[b].content
  OBVIOUS
<1>4. PICK version : version = held[Report!Holder(id)].version
  OBVIOUS
<1>5. PICK comparison : comparison = Report!With(old.comparison, id, version)
  OBVIOUS
<1>6. PICK content : content = [index |-> old.index, comparison |-> comparison]
  OBVIOUS
<1>7. PICK x : x = [builder[b] EXCEPT !.content = content]
  OBVIOUS
<1>8. BuilderIs(builder[b]) /\ WriterIs(builder[b], held)
  BY <1>2 DEF ReportInv
<1>9. /\ BuilderIs(x) /\ x.pc = "writing" /\ x.content = content /\ x.next = builder[b].next
      /\ x.request = builder[b].request /\ content.index = old.index /\ content.comparison = comparison
  BY <1>2, <1>6, <1>7, <1>8 DEF BuilderIs
<1>10. builder' = [builder EXCEPT ![b] = x]
  <2>1. [builder[b] EXCEPT !.content.comparison = comparison] = x
    BY <1>3, <1>6, <1>7, <1>8 DEF BuilderIs
  <2>2. builder = [c \in Builders |-> builder[c]]
    BY DEF ReportInv
  <2>3. builder' = [builder EXCEPT ![b].content.comparison = comparison]
    BY <1>1, <1>3, <1>4, <1>5
  <2> QED BY <2>1, <2>2, <2>3
<1>11. /\ builder' = [c \in Builders |-> builder'[c]]
       /\ \A c \in Builders : builder'[c] = IF c = b THEN x ELSE builder[c]
  BY <1>10 DEF ReportInv
<1>12. builder[b].next = 1
  <2>1. builder[b].next \in 1..5
    BY <1>8 DEF BuilderIs
  <2>2. ~(builder[b].next > 1)
    BY <1>1, <1>8 DEF WriterIs, Report!Compared
  <2> QED BY <2>1, <2>2
<1>13. WriterIs(x, held)
  <2>1. id \in DOMAIN old.index
    BY <1>1, <1>3 DEF Report!Trainings
  <2>2. PICK d \in Directories : held[d].kind # "nothing" /\ held[d].id = id
    BY <1>3, <1>8, <2>1 DEF WriterIs, Earlier
  <2>3. /\ Report!Holder(id) \in Directories /\ held[Report!Holder(id)].kind # "nothing"
        /\ held[Report!Holder(id)].id = id
    BY <2>2 DEF Report!Holder, Report!RunIndexed, Report!Recognised
  <2>4. old.index[id].version <= version
    BY <1>3, <1>4, <1>8, <2>1, <2>3 DEF WriterIs, Earlier
  <2>5. /\ DOMAIN comparison = DOMAIN old.comparison \cup {id} /\ comparison[id] = version
        /\ \A i \in DOMAIN old.comparison : i # id => comparison[i] = old.comparison[i]
    BY <1>5 DEF Report!With
  <2>6. Later(old) /\ id \in Report!Trainings(old.index)
    BY <1>1, <1>3, <1>8 DEF WriterIs
  <2>7. Later(content)
    BY <1>9, <2>4, <2>5, <2>6 DEF Later
  <2> QED BY <1>3, <1>8, <1>9, <1>12, <2>7 DEF WriterIs
<1>14. mixed' = {} => Unmixed'
  <2> SUFFICES ASSUME mixed' = {}
               PROVE  Unmixed'
    OBVIOUS
  <2>1. Unmixed
    BY <1>2 DEF ReportInv
  <2>2. \A c \in Builders : builder'[c].pc = builder[c].pc
    BY <1>2, <1>9, <1>11
  <2>3. \A c \in Builders : builder'[c].pc = "writing" => c = b
    BY <1>2, <2>1, <2>2 DEF Unmixed
  <2>4. \A c \in Builders : builder'[c].pc = "writing" =>
          \A i \in 1..4 : i < builder'[c].next => pages'[Report!Groups[i]] = builder'[c].content
    BY <1>9, <1>11, <1>12, <2>3
  <2> QED BY <1>2, <2>1, <2>3, <2>4 DEF Unmixed
<1>15. \A c \in Builders : BuilderIs(builder'[c])
  BY <1>9, <1>11 DEF ReportInv
<1>16. \A c \in Builders : builder'[c].pc \notin {"idle", "raised"} => WriterIs(builder'[c], held')
  BY <1>2, <1>11, <1>13 DEF ReportInv
<1> QED BY <1>2, <1>11, <1>14, <1>15, <1>16 DEF ReportInv

\* A group is written from the index and the comparison of its build.
LEMMA WriteGroupKeeps ==
  ASSUME ReportInv, NEW b \in Builders, Report!WriteGroup(b)
  PROVE  ReportInv'
<1> DEFINE n == builder[b].next
           x == [builder[b] EXCEPT !.next = @ + 1]
           g == Report!Groups[n]
<1>1. /\ builder[b].pc = "writing" /\ n <= 4 /\ pages' = [pages EXCEPT ![g] = builder[b].content]
      /\ Report!Compared(builder[b].content)
      /\ UNCHANGED <<held, changes, manifest, mixed>>
      /\ builder' = [builder EXCEPT ![b].next = @ + 1]
  BY DEF Report!WriteGroup
<1>2. BuilderIs(builder[b]) /\ n \in 1..4
  BY <1>1 DEF ReportInv, BuilderIs
<1>3. /\ BuilderIs(x) /\ x.pc = "writing" /\ x.content = builder[b].content /\ x.next = n + 1
      /\ x.request = builder[b].request
  BY <1>1, <1>2 DEF BuilderIs
<1> HIDE DEF x
<1>4. /\ builder' = [c \in Builders |-> builder'[c]]
      /\ \A c \in Builders : builder'[c] = IF c = b THEN x ELSE builder[c]
  BY <1>1 DEF ReportInv, x
<1>5. g \in Report!ReportFiles
  BY <1>2 DEF Report!ReportFiles
<1>6. /\ pages' = [f \in Report!ReportFiles |-> pages'[f]]
      /\ \A f \in Report!ReportFiles : pages'[f] = IF f = g THEN builder[b].content ELSE pages[f]
  BY <1>1, <1>5 DEF ReportInv
<1>7. mixed' = {} => Unmixed'
  <2> SUFFICES ASSUME mixed' = {}
               PROVE  Unmixed'
    OBVIOUS
  <2>1. Unmixed
    BY <1>1 DEF ReportInv
  <2>2. \A c \in Builders : builder'[c].pc = builder[c].pc
    BY <1>1, <1>3, <1>4
  <2>3. \A c, d \in Builders : builder'[c].pc = "writing" /\ builder'[d].pc = "writing" => c = d
    BY <2>1, <2>2 DEF Unmixed
  <2>4. \A i \in 1..4 : i < n + 1 => pages'[Report!Groups[i]] = builder[b].content
    <3> SUFFICES ASSUME NEW i \in 1..4, i < n + 1
                 PROVE  pages'[Report!Groups[i]] = builder[b].content
      OBVIOUS
    <3>1. Report!Groups[i] \in Report!ReportFiles
      BY DEF Report!ReportFiles
    <3>2. i = n \/ i < n
      BY <1>2
    <3>3. i < n => pages[Report!Groups[i]] = builder[b].content
      BY <1>1, <2>1 DEF Unmixed
    <3> QED BY <1>6, <3>1, <3>2, <3>3
  <2>5. \A c \in Builders : builder'[c].pc = "writing" =>
          \A i \in 1..4 : i < builder'[c].next => pages'[Report!Groups[i]] = builder'[c].content
    BY <1>1, <1>3, <1>4, <2>1, <2>2, <2>4 DEF Unmixed
  <2> QED BY <1>1, <2>1, <2>3, <2>5 DEF Unmixed
<1>8. \A c \in Builders : BuilderIs(builder'[c])
  BY <1>3, <1>4 DEF ReportInv
<1>9. WriterIs(x, held)
  BY <1>1, <1>3 DEF ReportInv, WriterIs
<1>10. \A c \in Builders : builder'[c].pc \notin {"idle", "raised"} => WriterIs(builder'[c], held')
  BY <1>1, <1>4, <1>9 DEF ReportInv
<1> QED BY <1>1, <1>4, <1>6, <1>7, <1>8, <1>10 DEF ReportInv

\* A build that refuses, is killed or lists its files writes no more.
LEMMA EndKeeps ==
  ASSUME ReportInv, NEW b \in Builders,
         Report!RefuseIndex(b) \/ Report!WriteManifest(b) \/ Report!Kill(b)
  PROVE  ReportInv'
<1>1. PICK s \in {"raised", "killed", "done"} :
        /\ builder' = [builder EXCEPT ![b].pc = s]
        /\ s # "raised" => builder[b].pc = "writing"
        /\ s = "done" => /\ manifest' = [written |-> TRUE, index |-> builder[b].content.index,
                                         listed |-> pages]
                         /\ builder[b].next > 4
        /\ s # "done" => manifest' = manifest
        /\ UNCHANGED <<held, changes, pages, mixed>>
  BY DEF Report!RefuseIndex, Report!WriteManifest, Report!Listed, Report!Kill
<1> DEFINE x == [builder[b] EXCEPT !.pc = s]
<1>2. BuilderIs(builder[b])
  BY DEF ReportInv
<1>3. /\ BuilderIs(x) /\ x.pc = s /\ x.content = builder[b].content /\ x.next = builder[b].next
      /\ x.request = builder[b].request
  BY <1>2 DEF BuilderIs
<1> HIDE DEF x
<1>4. /\ builder' = [c \in Builders |-> builder'[c]]
      /\ \A c \in Builders : builder'[c] = IF c = b THEN x ELSE builder[c]
  BY <1>1 DEF ReportInv, x
<1>5. mixed' = {} => Unmixed'
  <2> SUFFICES ASSUME mixed' = {}
               PROVE  Unmixed'
    OBVIOUS
  <2>1. Unmixed
    BY <1>1 DEF ReportInv
  <2>2. \A c \in Builders : builder'[c].pc = "writing" => c # b /\ builder'[c] = builder[c]
    BY <1>3, <1>4
  <2>3. manifest'.written =>
          \A f \in Report!ReportFiles :
            /\ manifest'.listed[f] = manifest'.listed["pages"] /\ Report!Whole(manifest'.listed[f])
            /\ manifest'.listed[f].index = manifest'.index
    <3>1. CASE s = "done"
      <4>1. \A i \in 1..4 : i < builder[b].next
        BY <1>1, <1>2, <3>1 DEF BuilderIs
      <4>2. \A i \in 1..4 : pages[Report!Groups[i]] = builder[b].content
        BY <1>1, <2>1, <3>1, <4>1 DEF Unmixed
      <4>3. \A f \in Report!ReportFiles : pages[f] = builder[b].content
        BY <4>2 DEF Report!ReportFiles
      <4>4. "pages" \in Report!ReportFiles
        BY DEF Report!ReportFiles, Report!Groups
      <4>5. Report!Whole(builder[b].content)
        <5>1. WriterIs(builder[b], held) /\ builder[b].next > 1
          BY <1>1, <1>2, <3>1 DEF ReportInv, BuilderIs
        <5> QED BY <5>1 DEF WriterIs, Later, Report!Whole
      <4> QED BY <1>1, <3>1, <4>3, <4>4, <4>5
    <3>2. CASE s # "done"
      BY <1>1, <2>1, <3>2 DEF Unmixed
    <3> QED BY <3>1, <3>2
  <2> QED BY <1>1, <2>1, <2>2, <2>3 DEF Unmixed
<1>6. \A c \in Builders : BuilderIs(builder'[c])
  BY <1>3, <1>4 DEF ReportInv
<1>7. s # "raised" => WriterIs(x, held)
  BY <1>1, <1>3 DEF ReportInv, WriterIs
<1>8. \A c \in Builders : builder'[c].pc \notin {"idle", "raised"} => WriterIs(builder'[c], held')
  BY <1>1, <1>3, <1>4, <1>7 DEF ReportInv
<1> QED BY <1>1, <1>4, <1>5, <1>6, <1>8 DEF ReportInv

\* Every step keeps the invariant.
LEMMA ReportStep ==
  ASSUME Report!ReportAssumption, ReportInv, [Report!Next]_(Report!reportVars)
  PROVE  ReportInv'
<1>1. CASE UNCHANGED Report!reportVars
  BY <1>1 DEF Report!reportVars, ReportInv, Unmixed
<1> QED BY <1>1, ChangeRunKeeps, BuildRunIndexKeeps, CompareRunKeeps, WriteGroupKeeps, EndKeeps
        DEF Report!Next

\* What the invariant says of the reports.
LEMMA ReportInvImplies ==
  ASSUME ReportInv
  PROVE  Report!TypeOK /\ Report!ReportSound
<1>1. Report!TypeOK
  BY DEF ReportInv, BuilderIs, Report!TypeOK
<1>2. Report!Verifies /\ mixed = {} =>
        \A f \in Report!ReportFiles :
          /\ pages[f] = pages["pages"] /\ Report!Whole(pages[f]) /\ pages[f].index = manifest.index
  BY DEF ReportInv, Unmixed, Report!Verifies
<1>3. \A b \in Builders : builder[b].pc \notin {"idle", "raised"} =>
        IndexOf(builder[b].content.index, builder[b].request, held)
  BY DEF ReportInv, WriterIs
<1> QED BY <1>1, <1>2, <1>3, SameCardinalityInReports DEF IndexOf, Report!ReportSound

\* Unless builds overlapped, a report that verifies is of one index, the one its
\* manifest names, and of one comparison with every training of it, none older
\* than its row, however many builds were killed before; and an index says of
\* each run what it is (reporting/workflow.py, reporting/benchmarks.py).
THEOREM ReportStaysSound ==
  ASSUME Report!ReportAssumption
  PROVE  Report!Spec => [](Report!TypeOK /\ Report!ReportSound)
<1>1. Report!Init => ReportInv
  BY ReportInit
<1>2. ReportInv /\ [Report!Next]_(Report!reportVars) => ReportInv'
  BY ReportStep
<1>3. ReportInv => Report!TypeOK /\ Report!ReportSound
  BY ReportInvImplies
<1> QED BY <1>1, <1>2, <1>3, PTL DEF Report!Spec


-----------------------------------------------------------------------------
(***************************************************************************)
(* The files of a release.                                                 *)
(***************************************************************************)
(***************************************************************************)
(* The invariant.  What a writer that is alone has exported so far is what *)
(* the code exports, and the stable manifest it has written is that of the *)
(* benchmark there is.                                                     *)
(***************************************************************************)
WriterState ==
  [pc : {"idle", "checksums", "schemas", "exported", "text", "sealed", "raised", "killed"},
   version : Nat, left : SUBSET Documents, alone : BOOLEAN]
ManifestText == [benchmark : Nat, ancestor : BOOLEAN]

ReleaseTypes ==
  /\ code \in 1..Len(Content) /\ inventories \in 0..Len(Content) /\ commits \in 0..MaxCommits
  /\ documents \in [Documents -> Nat]
  /\ benchmark \in [valid : BOOLEAN, named : BOOLEAN, version : Nat]
  /\ stable \in [text : ManifestText, checksum : ManifestText]
  /\ writer \in [Writers -> WriterState]
  /\ \A w \in Writers : Release!OfContracts(w) => writer[w].version \in 1..Len(Content)

ExportedSoFar(x) ==
  /\ x.version = code /\ inventories = code
  /\ x.pc = "checksums" => x.left = Release!Registered(code)
  /\ x.pc # "checksums" => checksums = Content[code]
  /\ x.pc # "checksums" => \A d \in Release!Registered(code) \ x.left : documents[d] = Content[code][d]
  /\ x.pc = "exported" => x.left = {}

ContractsKept ==
  \A w \in Writers : Release!OfContracts(w) /\ writer[w].alone =>
    /\ \A v \in Writers \ {w} : ~Release!Exporting(v)
    /\ ExportedSoFar(writer[w])

StableKept ==
  \A w \in Writers : Release!OfStable(w) /\ writer[w].alone =>
    /\ \A v \in Writers \ {w} : writer[v].pc # "text"
    /\ Release!Buildable /\ stable.text = Release!StableText
    /\ writer[w].pc = "sealed" => stable.checksum = stable.text

ReleaseInv == ReleaseTypes /\ ContractsKept /\ StableKept

\* What the code exports.
LEMMA ContentIs ==
  ASSUME Release!ReleaseAssumption, NEW v \in 1..Len(Content)
  PROVE  Content[v] \in [Documents -> Nat] /\ DOMAIN Content = 1..Len(Content) /\ Len(Content) \in Nat
BY DEF Release!ReleaseAssumption

\* No manifest, and that of the benchmark there is.
LEMMA TextsAre ==
  ASSUME ReleaseTypes
  PROVE  Release!NoText \in ManifestText /\ Release!StableText \in ManifestText
         /\ Release!StableText # Release!NoText
<1>1. benchmark.version \in Nat
  BY DEF ReleaseTypes
<1>2. Release!NoText \in ManifestText /\ Release!NoText.ancestor = FALSE
  BY DEF Release!NoText, ManifestText
<1>3. Release!StableText \in ManifestText /\ Release!StableText.ancestor = TRUE
  BY <1>1 DEF Release!StableText, ManifestText
<1> QED BY <1>2, <1>3

\* Steps that leave the contracts and those who export them alone.
LEMMA ContractsFrame ==
  ASSUME ContractsKept, UNCHANGED <<code, documents, inventories, checksums>>,
         \A v \in Writers : Release!OfContracts(v)' /\ writer'[v].alone =>
           /\ writer[v].alone /\ writer'[v].pc = writer[v].pc
           /\ writer'[v].version = writer[v].version /\ writer'[v].left = writer[v].left,
         \A v \in Writers : Release!Exporting(v)' => Release!Exporting(v)
  PROVE  ContractsKept'
<1> SUFFICES ASSUME NEW w \in Writers, Release!OfContracts(w)', writer'[w].alone
             PROVE  (\A v \in Writers \ {w} : ~Release!Exporting(v)') /\ ExportedSoFar(writer[w])'
  BY DEF ContractsKept
<1>1. /\ writer[w].alone /\ writer'[w].pc = writer[w].pc
      /\ writer'[w].version = writer[w].version /\ writer'[w].left = writer[w].left
  OBVIOUS
<1>2. Release!OfContracts(w)
  BY <1>1 DEF Release!OfContracts, Release!Exporting
<1>3. (\A v \in Writers \ {w} : ~Release!Exporting(v)) /\ ExportedSoFar(writer[w])
  BY <1>1, <1>2 DEF ContractsKept
<1> QED BY <1>1, <1>3 DEF ExportedSoFar, Release!Registered

\* Steps that leave the stable manifest and those who write it alone.
LEMMA StableFrame ==
  ASSUME StableKept, UNCHANGED <<benchmark, ancestor, stable>>,
         \A v \in Writers : Release!OfStable(v)' /\ writer'[v].alone =>
           writer[v].alone /\ writer'[v].pc = writer[v].pc,
         \A v \in Writers : writer'[v].pc = "text" => writer[v].pc = "text"
  PROVE  StableKept'
<1> SUFFICES ASSUME NEW w \in Writers, Release!OfStable(w)', writer'[w].alone
             PROVE  /\ \A v \in Writers \ {w} : writer'[v].pc # "text"
                    /\ Release!Buildable' /\ stable'.text = Release!StableText'
                    /\ writer'[w].pc = "sealed" => stable'.checksum = stable'.text
  BY DEF StableKept
<1>1. writer[w].alone /\ writer'[w].pc = writer[w].pc
  OBVIOUS
<1>2. Release!OfStable(w)
  BY <1>1 DEF Release!OfStable
<1>3. /\ \A v \in Writers \ {w} : writer[v].pc # "text"
      /\ Release!Buildable /\ stable.text = Release!StableText
      /\ writer[w].pc = "sealed" => stable.checksum = stable.text
  BY <1>1, <1>2 DEF StableKept
<1>4. Release!Buildable' /\ stable'.text = Release!StableText'
  BY <1>3 DEF Release!Buildable, Release!StableText
<1> QED BY <1>1, <1>3, <1>4

\* It holds to begin with.
LEMMA ReleaseInit ==
  ASSUME Release!ReleaseAssumption, Release!Init
  PROVE  ReleaseInv
<1>1. 1 \in 1..Len(Content) /\ Content[1] \in [Documents -> Nat] /\ 0 \in 0..MaxCommits
      /\ 1 \in 0..Len(Content)
  BY DEF Release!ReleaseAssumption
<1>2. Release!Idle \in WriterState /\ Release!Idle.pc = "idle"
  BY DEF Release!Idle, WriterState
<1>3. code = 1 /\ inventories = 1 /\ commits = 0 /\ documents = Content[1]
      /\ writer = [w \in Writers |-> Release!Idle]
  BY DEF Release!Init
<1>4. benchmark \in [valid : BOOLEAN, named : BOOLEAN, version : Nat]
  BY DEF Release!Init
<1>5. stable \in [text : ManifestText, checksum : ManifestText]
  BY DEF Release!Init, Release!NoText, ManifestText
<1>6. \A w \in Writers : ~Release!OfContracts(w) /\ ~Release!OfStable(w)
  BY <1>2, <1>3 DEF Release!OfContracts, Release!OfStable, Release!Exporting
<1>7. ReleaseTypes
  BY <1>1, <1>2, <1>3, <1>4, <1>5, <1>6 DEF ReleaseTypes
<1> QED BY <1>6, <1>7 DEF ReleaseInv, ContractsKept, StableKept

\* Nobody is alone after a change.
LEMMA ReleaseChangeKeeps ==
  ASSUME Release!ReleaseAssumption, ReleaseInv, Release!Change
  PROVE  ReleaseInv'
<1> USE DEF ReleaseInv
<1>1. commits' \in 0..MaxCommits
  <2>1. commits \in 0..MaxCommits /\ MaxCommits \in Nat /\ commits < MaxCommits /\ commits' = commits + 1
    BY DEF ReleaseTypes, Release!ReleaseAssumption, Release!Change
  <2> QED BY <2>1
<1>2. code' \in 1..Len(Content)
  <2>1. code \in 1..Len(Content) /\ Len(Content) \in Nat
    BY ContentIs DEF ReleaseTypes
  <2>2. code' = code \/ (code < Len(Content) /\ code' = code + 1)
    BY DEF Release!Change
  <2> QED BY <2>1, <2>2
<1>3. documents' \in [Documents -> Nat]
  <2>1. \/ documents' = documents
        \/ \E d \in Documents, v \in {0, 9} : documents' = [documents EXCEPT ![d] = v]
    BY DEF Release!Change, Release!Garbled
  <2> QED BY <2>1 DEF ReleaseTypes
<1>4. benchmark' \in [valid : BOOLEAN, named : BOOLEAN, version : Nat]
  <2>1. \/ benchmark' = benchmark
        \/ \E v \in BOOLEAN : benchmark' = [benchmark EXCEPT !.valid = v, !.version = @ + 1]
    BY DEF Release!Change
  <2>2. benchmark \in [valid : BOOLEAN, named : BOOLEAN, version : Nat]
    BY DEF ReleaseTypes
  <2>3. CASE benchmark' = benchmark
    BY <2>2, <2>3
  <2>4. ASSUME NEW v \in BOOLEAN, benchmark' = [benchmark EXCEPT !.valid = v, !.version = @ + 1]
        PROVE  benchmark' \in [valid : BOOLEAN, named : BOOLEAN, version : Nat]
    <3>1. benchmark.version + 1 \in Nat
      BY <2>2
    <3> QED BY <2>2, <2>4, <3>1
  <2> QED BY <2>1, <2>3, <2>4
<1>5. writer' = [w \in Writers |-> [writer[w] EXCEPT !.alone = FALSE]]
      /\ UNCHANGED <<inventories, stable>>
  BY DEF Release!Change
<1>6. \A w \in Writers :
        /\ writer'[w] \in WriterState /\ ~writer'[w].alone
        /\ writer'[w].pc = writer[w].pc /\ writer'[w].version = writer[w].version
  BY <1>5 DEF ReleaseTypes, WriterState
<1>7. writer' \in [Writers -> WriterState]
  BY <1>5, <1>6
<1>8. \A w \in Writers : Release!OfContracts(w)' => writer'[w].version \in 1..Len(Content)
  BY <1>6 DEF ReleaseTypes, Release!OfContracts, Release!Exporting
<1>9. ReleaseTypes'
  BY <1>1, <1>2, <1>3, <1>4, <1>5, <1>7, <1>8 DEF ReleaseTypes
<1> QED BY <1>6, <1>9 DEF ContractsKept, StableKept

\* An export begins, of the code there is; the others are not alone any more.
LEMMA ExportInventoriesKeeps ==
  ASSUME Release!ReleaseAssumption, ReleaseInv, NEW w \in Writers, Release!ExportInventories(w)
  PROVE  ReleaseInv'
<1> USE DEF ReleaseInv
<1> DEFINE x == [pc |-> "checksums", version |-> code, left |-> Release!Registered(code),
                 alone |-> \A u \in Writers : ~Release!Exporting(u)]
           Rest(v) == [writer[v] EXCEPT !.alone = @ /\ ~Release!OfContracts(v)]
<1>1. /\ inventories' = code
      /\ UNCHANGED <<code, documents, checksums, commits, benchmark, ancestor, stable>>
      /\ writer' = [v \in Writers |-> IF v = w THEN x ELSE Rest(v)]
  BY DEF Release!ExportInventories
<1>2. code \in 1..Len(Content) /\ code \in Nat /\ inventories' \in 0..Len(Content)
  BY <1>1 DEF ReleaseTypes
<1>3. x \in WriterState
  BY <1>2 DEF WriterState, Release!Registered
<1>4. /\ x.pc = "checksums" /\ x.version = code /\ x.left = Release!Registered(code)
      /\ x.alone => \A u \in Writers : ~Release!Exporting(u)
  OBVIOUS
<1>5. \A v \in Writers :
        /\ Rest(v) \in WriterState /\ Rest(v).pc = writer[v].pc
        /\ Rest(v).version = writer[v].version
        /\ Rest(v).alone => writer[v].alone /\ ~Release!OfContracts(v)
  BY DEF ReleaseTypes, WriterState
<1> HIDE DEF x, Rest
<1>6. \A v \in Writers :
        /\ writer'[v] = IF v = w THEN x ELSE Rest(v)
        /\ writer'[v] \in WriterState
  BY <1>1, <1>3, <1>5
<1>7. ReleaseTypes'
  <2>1. writer' \in [Writers -> WriterState]
    BY <1>1, <1>6
  <2>2. ASSUME NEW v \in Writers, Release!OfContracts(v)'
        PROVE  writer'[v].version \in 1..Len(Content)
    <3>1. CASE v = w
      BY <1>2, <1>4, <1>6, <3>1
    <3>2. CASE v # w
      <4>1. Release!OfContracts(v) /\ writer'[v].version = writer[v].version
        BY <1>5, <1>6, <2>2, <3>2 DEF Release!OfContracts, Release!Exporting
      <4> QED BY <4>1 DEF ReleaseTypes
    <3> QED BY <3>1, <3>2
  <2> QED BY <1>1, <1>2, <2>1, <2>2 DEF ReleaseTypes
<1>8. ContractsKept'
  <2> SUFFICES ASSUME NEW v \in Writers, writer'[v].alone, Release!OfContracts(v)'
               PROVE  /\ \A u \in Writers \ {v} : ~Release!Exporting(u)'
                      /\ ExportedSoFar(writer[v])'
    BY DEF ContractsKept
  <2>1. v = w /\ x.alone
    BY <1>5, <1>6 DEF Release!OfContracts, Release!Exporting
  <2>2. \A u \in Writers \ {w} : ~Release!Exporting(u)'
    BY <1>4, <1>5, <1>6, <2>1 DEF Release!Exporting
  <2>3. ExportedSoFar(writer[w])'
    BY <1>1, <1>4, <1>6 DEF ExportedSoFar, Release!Registered
  <2> QED BY <2>1, <2>2, <2>3
<1>9. StableKept'
  <2>1. \A v \in Writers : Release!OfStable(v)' /\ writer'[v].alone =>
          writer[v].alone /\ writer'[v].pc = writer[v].pc
    BY <1>4, <1>5, <1>6 DEF Release!OfStable
  <2>2. \A v \in Writers : writer'[v].pc = "text" => writer[v].pc = "text"
    BY <1>4, <1>5, <1>6
  <2> QED BY <1>1, <2>1, <2>2, StableFrame
<1> QED BY <1>7, <1>8, <1>9

\* A writer that exports is the only one there is, if any is alone.
LEMMA ExporterSteps ==
  ASSUME ReleaseInv, NEW w \in Writers, Release!Exporting(w), NEW x \in WriterState,
         writer' = [writer EXCEPT ![w] = x], x.pc \in {"schemas", "exported"},
         x.version = writer[w].version, x.alone = writer[w].alone,
         UNCHANGED <<code, inventories, commits, benchmark, ancestor, stable>>,
         documents' \in [Documents -> Nat],
         ExportedSoFar(writer[w]) => ExportedSoFar(x)'
  PROVE  ReleaseInv'
<1> USE DEF ReleaseInv
<1>1. /\ writer' \in [Writers -> WriterState]
      /\ \A v \in Writers : writer'[v] = IF v = w THEN x ELSE writer[v]
  BY DEF ReleaseTypes
<1>2. Release!OfContracts(w)
  BY DEF Release!OfContracts
<1>3. ReleaseTypes'
  <2>1. \A v \in Writers : Release!OfContracts(v)' => writer'[v].version \in 1..Len(Content)
    BY <1>1, <1>2 DEF ReleaseTypes, Release!OfContracts, Release!Exporting
  <2> QED BY <1>1, <2>1 DEF ReleaseTypes
<1>4. ASSUME NEW v \in Writers, writer'[v].alone, Release!OfContracts(v)'
      PROVE  /\ \A u \in Writers \ {v} : ~Release!Exporting(u)'
             /\ ExportedSoFar(writer[v])'
  <2>1. v = w
    <3> SUFFICES ASSUME v # w
                 PROVE  FALSE
      OBVIOUS
    <3>1. writer[v].alone /\ Release!OfContracts(v)
      BY <1>1, <1>4 DEF Release!OfContracts, Release!Exporting
    <3>2. ~Release!Exporting(w)
      BY <3>1 DEF ContractsKept
    <3> QED BY <3>2
  <2>2. writer[w].alone
    BY <1>1, <1>4, <2>1
  <2>3. (\A u \in Writers \ {w} : ~Release!Exporting(u)) /\ ExportedSoFar(writer[w])
    BY <1>2, <2>2 DEF ContractsKept
  <2>4. \A u \in Writers \ {w} : ~Release!Exporting(u)'
    BY <1>1, <2>3 DEF Release!Exporting
  <2>5. ExportedSoFar(x)' /\ writer'[w] = x
    BY <1>1, <2>3
  <2>6. ExportedSoFar(writer[w])'
    BY <2>5 DEF ExportedSoFar
  <2> QED BY <2>1, <2>4, <2>6
<1>5. ContractsKept'
  BY <1>4 DEF ContractsKept
<1>6. StableKept'
  <2>1. \A v \in Writers : Release!OfStable(v)' /\ writer'[v].alone =>
          writer[v].alone /\ writer'[v].pc = writer[v].pc
    BY <1>1 DEF Release!OfStable
  <2>2. \A v \in Writers : writer'[v].pc = "text" => writer[v].pc = "text"
    BY <1>1
  <2> QED BY <2>1, <2>2, StableFrame
<1> QED BY <1>3, <1>5, <1>6

\* Checksums, then schemas, each of the version the writer rendered.
LEMMA ExportKeepsContracts ==
  ASSUME Release!ReleaseAssumption, ReleaseInv, NEW w \in Writers,
         \/ Release!ExportChecksums(w) \/ Release!ExportDone(w)
         \/ \E d \in Documents : Release!ExportSchema(w, d)
  PROVE  ReleaseInv'
<1>1. writer[w] \in WriterState /\ writer \in [Writers -> WriterState]
      /\ documents \in [Documents -> Nat]
  BY DEF ReleaseInv, ReleaseTypes
<1>2. CASE Release!ExportChecksums(w)
  <2>. PICK x : x = [writer[w] EXCEPT !.pc = "schemas"]
    OBVIOUS
  <2>1. /\ Release!Exporting(w) /\ writer[w].pc = "checksums"
        /\ checksums' = Content[writer[w].version] /\ writer' = [writer EXCEPT ![w] = x]
        /\ UNCHANGED <<code, documents, inventories, commits, benchmark, ancestor, stable>>
    BY <1>2 DEF Release!ExportChecksums, Release!Exporting
  <2>2. /\ x \in WriterState /\ x.pc = "schemas" /\ x.version = writer[w].version
        /\ x.alone = writer[w].alone /\ x.left = writer[w].left
    BY <1>1 DEF WriterState
  <2>3. ExportedSoFar(writer[w]) => ExportedSoFar(x)'
    BY <2>1, <2>2 DEF ExportedSoFar, Release!Registered
  <2> QED BY <1>1, <2>1, <2>2, <2>3, ExporterSteps
<1>3. ASSUME NEW d \in Documents, Release!ExportSchema(w, d)
      PROVE  ReleaseInv'
  <2> DEFINE v == writer[w].version
  <2>. PICK x : x = [writer[w] EXCEPT !.left = @ \ {d}]
    OBVIOUS
  <2>1. /\ Release!Exporting(w) /\ writer[w].pc = "schemas"
        /\ documents' = [documents EXCEPT ![d] = Content[v][d]]
        /\ writer' = [writer EXCEPT ![w] = x]
        /\ UNCHANGED <<code, inventories, checksums, commits, benchmark, ancestor, stable>>
    BY <1>3 DEF Release!ExportSchema, Release!Exporting
  <2>2. /\ x \in WriterState /\ x.pc = "schemas" /\ x.version = v
        /\ x.alone = writer[w].alone /\ x.left = writer[w].left \ {d}
    BY <1>1, <2>1 DEF WriterState
  <2>3. documents' \in [Documents -> Nat]
    <3>1. Content[v] \in [Documents -> Nat]
      <4>1. Release!OfContracts(w)
        BY <2>1 DEF Release!OfContracts
      <4> QED BY <4>1, ContentIs DEF ReleaseInv, ReleaseTypes
    <3> QED BY <1>1, <2>1, <3>1
  <2>4. ExportedSoFar(writer[w]) => ExportedSoFar(x)'
    <3> SUFFICES ASSUME ExportedSoFar(writer[w])
                 PROVE  ExportedSoFar(x)'
      OBVIOUS
    <3>1. /\ v = code /\ inventories = code /\ checksums = Content[code]
          /\ \A e \in Release!Registered(code) \ writer[w].left : documents[e] = Content[code][e]
      BY <2>1 DEF ExportedSoFar
    <3>2. \A e \in Release!Registered(code) \ x.left : documents'[e] = Content[code][e]
      <4> SUFFICES ASSUME NEW e \in Release!Registered(code) \ x.left
                   PROVE  documents'[e] = Content[code][e]
        OBVIOUS
      <4>1. e \in Documents
        BY DEF Release!Registered
      <4>2. CASE e = d
        BY <1>1, <2>1, <3>1, <4>2
      <4>3. CASE e # d
        BY <1>1, <2>1, <2>2, <3>1, <4>1, <4>3
      <4> QED BY <4>2, <4>3
    <3> QED BY <2>1, <2>2, <3>1, <3>2 DEF ExportedSoFar, Release!Registered
  <2> QED BY <2>1, <2>2, <2>3, <2>4, ExporterSteps
<1>4. CASE Release!ExportDone(w)
  <2>. PICK x : x = [writer[w] EXCEPT !.pc = "exported"]
    OBVIOUS
  <2>1. /\ Release!Exporting(w) /\ writer[w].pc = "schemas" /\ writer[w].left = {}
        /\ writer' = [writer EXCEPT ![w] = x]
        /\ UNCHANGED <<code, documents, inventories, checksums, commits, benchmark, ancestor, stable>>
    BY <1>4 DEF Release!ExportDone, Release!Exporting
  <2>2. /\ x \in WriterState /\ x.pc = "exported" /\ x.version = writer[w].version
        /\ x.alone = writer[w].alone /\ x.left = writer[w].left
    BY <1>1 DEF WriterState
  <2>3. ExportedSoFar(writer[w]) => ExportedSoFar(x)'
    BY <2>1, <2>2 DEF ExportedSoFar, Release!Registered
  <2> QED BY <1>1, <2>1, <2>2, <2>3, ExporterSteps
<1> QED BY <1>2, <1>3, <1>4

\* The stable manifest touches no contract; its writer is alone if nobody else
\* is between its text and its checksum.
LEMMA StableKeeps ==
  ASSUME ReleaseInv, NEW w \in Writers, Release!WriteStableManifest(w)
  PROVE  ReleaseInv'
<1> USE DEF ReleaseInv
<1> DEFINE x == [Release!Idle EXCEPT !.pc = "text",
                                     !.alone = \A u \in Writers : writer[u].pc # "text"]
           Rest(v) == [writer[v] EXCEPT !.alone = @ /\ ~Release!OfStable(v)]
<1>1. /\ Release!Buildable /\ stable' = [stable EXCEPT !.text = Release!StableText]
      /\ UNCHANGED <<code, documents, inventories, checksums, commits, benchmark, ancestor>>
      /\ writer' = [v \in Writers |-> IF v = w THEN x ELSE Rest(v)]
  BY DEF Release!WriteStableManifest
<1>2. x \in WriterState /\ x.pc = "text" /\ (x.alone => \A u \in Writers : writer[u].pc # "text")
  BY DEF WriterState, Release!Idle
<1>3. \A v \in Writers :
        /\ Rest(v) \in WriterState /\ Rest(v).pc = writer[v].pc /\ Rest(v).left = writer[v].left
        /\ Rest(v).version = writer[v].version
        /\ Rest(v).alone => writer[v].alone /\ ~Release!OfStable(v)
  BY DEF ReleaseTypes, WriterState
<1> HIDE DEF x, Rest
<1>4. \A v \in Writers :
        /\ writer'[v] = IF v = w THEN x ELSE Rest(v)
        /\ writer'[v] \in WriterState
  BY <1>1, <1>2, <1>3
<1>5. stable' \in [text : ManifestText, checksum : ManifestText] /\ stable'.text = Release!StableText
  BY <1>1, TextsAre DEF ReleaseTypes
<1>6. \A v \in Writers :
        /\ Release!Exporting(v)' => Release!Exporting(v) /\ v # w
        /\ Release!OfContracts(v)' => Release!OfContracts(v) /\ v # w
  BY <1>2, <1>3, <1>4 DEF Release!OfContracts, Release!Exporting
<1>7. ReleaseTypes'
  <2>1. writer' \in [Writers -> WriterState]
    BY <1>1, <1>4
  <2>2. \A v \in Writers : Release!OfContracts(v)' => writer'[v].version \in 1..Len(Content)
    BY <1>3, <1>4, <1>6 DEF ReleaseTypes
  <2> QED BY <1>1, <1>5, <2>1, <2>2 DEF ReleaseTypes
<1>8. ContractsKept'
  <2>1. \A v \in Writers : Release!OfContracts(v)' /\ writer'[v].alone =>
           /\ writer[v].alone /\ writer'[v].pc = writer[v].pc
           /\ writer'[v].version = writer[v].version /\ writer'[v].left = writer[v].left
    BY <1>3, <1>4, <1>6
  <2> QED BY <1>1, <1>6, <2>1, ContractsFrame
<1>9. StableKept'
  <2> SUFFICES ASSUME NEW v \in Writers, Release!OfStable(v)', writer'[v].alone
               PROVE  /\ \A u \in Writers \ {v} : writer'[u].pc # "text"
                      /\ Release!Buildable' /\ stable'.text = Release!StableText'
                      /\ writer'[v].pc = "sealed" => stable'.checksum = stable'.text
    BY DEF StableKept
  <2>1. v = w
    BY <1>3, <1>4 DEF Release!OfStable
  <2>2. Release!Buildable' /\ stable'.text = Release!StableText'
    BY <1>1, <1>5 DEF Release!Buildable, Release!StableText
  <2>3. \A u \in Writers \ {w} : writer'[u].pc # "text"
    BY <1>2, <1>3, <1>4, <2>1
  <2> QED BY <1>2, <1>4, <2>1, <2>2, <2>3
<1> QED BY <1>7, <1>8, <1>9

\* A digest of the text that is there; a text that is refused; a writer that is
\* killed, over a file that is torn.
LEMMA StopKeeps ==
  ASSUME Release!ReleaseAssumption, ReleaseInv, NEW w \in Writers,
         \/ Release!WriteStableChecksum(w) \/ Release!RefuseStable(w) \/ Release!Kill(w)
  PROVE  ReleaseInv'
<1> USE DEF ReleaseInv
<1>1. PICK s \in {"sealed", "raised", "killed"} :
        /\ writer' = [writer EXCEPT ![w].pc = s]
        /\ s = "killed" <=> Release!Kill(w)
        /\ s = "sealed" => Release!WriteStableChecksum(w)
        /\ s = "raised" => Release!RefuseStable(w)
  <2>1. Release!Kill(w) => /\ writer' = [writer EXCEPT ![w].pc = "killed"]
                           /\ ~Release!WriteStableChecksum(w) /\ ~Release!RefuseStable(w)
    <3>1. writer[w].pc = "killed" => ~Release!Kill(w)
      BY DEF Release!Kill, Release!Exporting
    <3>2. Release!Kill(w) => writer'[w].pc = "killed"
      BY DEF Release!Kill, ReleaseTypes, WriterState
    <3>3. Release!WriteStableChecksum(w) => writer'[w].pc = "sealed"
      BY DEF Release!WriteStableChecksum, ReleaseTypes, WriterState
    <3>4. Release!RefuseStable(w) => writer'[w].pc = "raised"
      BY DEF Release!RefuseStable, ReleaseTypes, WriterState
    <3> QED BY <3>2, <3>3, <3>4 DEF Release!Kill
  <2> QED BY <2>1 DEF Release!WriteStableChecksum, Release!RefuseStable
<1>2. \A v \in Writers :
        /\ writer'[v] \in WriterState
        /\ v # w => writer'[v] = writer[v]
        /\ writer'[w].pc = s /\ writer'[w].alone = writer[w].alone
  BY <1>1 DEF ReleaseTypes, WriterState
<1>3. writer' \in [Writers -> WriterState] /\ UNCHANGED <<code, commits, benchmark, ancestor>>
  BY <1>1, <1>2
     DEF ReleaseTypes, Release!WriteStableChecksum, Release!RefuseStable, Release!Kill
<1>4. /\ inventories' \in 0..Len(Content) /\ documents' \in [Documents -> Nat]
      /\ stable' \in [text : ManifestText, checksum : ManifestText]
  <2>1. inventories' = inventories \/ inventories' = 0
    BY DEF Release!WriteStableChecksum, Release!RefuseStable, Release!Kill, Release!TornExport
  <2>2. \/ documents' = documents
        \/ \E d \in writer[w].left : documents' = [documents EXCEPT ![d] = 9]
    BY DEF Release!WriteStableChecksum, Release!RefuseStable, Release!Kill, Release!TornExport,
           Release!Garbled
  <2>3. \/ stable' = stable
        \/ stable' = [stable EXCEPT !.checksum = stable.text]
        \/ \E file \in {"text", "checksum"} : stable' = [stable EXCEPT ![file] = Release!NoText]
    BY DEF Release!WriteStableChecksum, Release!RefuseStable, Release!Kill
  <2>4. stable' \in [text : ManifestText, checksum : ManifestText]
    BY <2>3, TextsAre DEF ReleaseTypes
  <2>5. Len(Content) \in Nat /\ 0 \in 0..Len(Content)
    BY DEF Release!ReleaseAssumption
  <2> QED BY <2>1, <2>2, <2>4, <2>5 DEF ReleaseTypes
<1>5. \A v \in Writers :
        /\ Release!Exporting(v)' => v # w /\ Release!Exporting(v)
        /\ Release!OfContracts(v)' => v # w /\ Release!OfContracts(v)
  BY <1>2 DEF Release!OfContracts, Release!Exporting
<1>6. ReleaseTypes'
  <2>1. \A v \in Writers : Release!OfContracts(v)' => writer'[v].version \in 1..Len(Content)
    BY <1>2, <1>5 DEF ReleaseTypes
  <2> QED BY <1>3, <1>4, <2>1 DEF ReleaseTypes
<1>7. ContractsKept'
  <2>1. CASE Release!Exporting(w)
    <3>1. ASSUME NEW v \in Writers, Release!OfContracts(v)', writer'[v].alone
          PROVE  FALSE
      <4>1. v # w /\ writer[v].alone /\ Release!OfContracts(v)
        BY <1>2, <1>5, <3>1
      <4> QED BY <2>1, <4>1 DEF ContractsKept
    <3> QED BY <3>1 DEF ContractsKept
  <2>2. CASE ~Release!Exporting(w)
    <3>1. UNCHANGED <<code, documents, inventories, checksums>>
      BY <2>2 DEF Release!WriteStableChecksum, Release!RefuseStable, Release!Kill,
                  Release!TornExport, Release!Exporting
    <3> QED BY <1>2, <1>5, <3>1, ContractsFrame
  <2> QED BY <2>1, <2>2
<1>8. StableKept'
  <2>1. CASE writer[w].pc # "text"
    <3>1. stable' = stable /\ s # "sealed"
      BY <1>1, <2>1 DEF Release!WriteStableChecksum, Release!RefuseStable, Release!Kill
    <3>2. \A v \in Writers : Release!OfStable(v)' /\ writer'[v].alone =>
            writer[v].alone /\ writer'[v].pc = writer[v].pc
      BY <1>2, <3>1 DEF Release!OfStable
    <3>3. \A v \in Writers : writer'[v].pc = "text" => writer[v].pc = "text"
      BY <1>2
    <3> QED BY <1>3, <3>1, <3>2, <3>3, StableFrame
  <2>2. CASE writer[w].pc = "text"
    <3> SUFFICES ASSUME NEW v \in Writers, Release!OfStable(v)', writer'[v].alone
                 PROVE  /\ \A u \in Writers \ {v} : writer'[u].pc # "text"
                        /\ Release!Buildable' /\ stable'.text = Release!StableText'
                        /\ writer'[v].pc = "sealed" => stable'.checksum = stable'.text
      BY DEF StableKept
    <3>1. v = w
      <4> SUFFICES ASSUME v # w
                   PROVE  FALSE
        OBVIOUS
      <4>1. Release!OfStable(v) /\ writer[v].alone
        BY <1>2 DEF Release!OfStable
      <4> QED BY <2>2, <4>1 DEF StableKept
    <3>2. s = "sealed" /\ Release!OfStable(w) /\ writer[w].alone
      BY <1>2, <2>2, <3>1 DEF Release!OfStable
    <3>3. /\ \A u \in Writers \ {w} : writer[u].pc # "text"
          /\ Release!Buildable /\ stable.text = Release!StableText
      BY <3>2 DEF StableKept
    <3>4. stable' = [stable EXCEPT !.checksum = stable.text]
      BY <1>1, <3>2 DEF Release!WriteStableChecksum
    <3>5. stable'.checksum = stable'.text /\ stable'.text = stable.text
      BY <3>4 DEF ReleaseTypes
    <3>6. Release!Buildable' /\ stable'.text = Release!StableText'
      BY <1>3, <3>3, <3>5 DEF Release!Buildable, Release!StableText
    <3> QED BY <1>2, <3>1, <3>3, <3>5, <3>6
  <2> QED BY <2>1, <2>2
<1> QED BY <1>6, <1>7, <1>8

\* Every step keeps the invariant.
LEMMA ReleaseStep ==
  ASSUME Release!ReleaseAssumption, ReleaseInv, [Release!Next]_(Release!releaseVars)
  PROVE  ReleaseInv'
<1>1. CASE UNCHANGED Release!releaseVars
  <2>1. UNCHANGED <<code, documents, inventories, checksums, commits, benchmark, ancestor,
                    stable, writer>>
    BY <1>1 DEF Release!releaseVars
  <2>2. ReleaseTypes'
    BY <2>1 DEF ReleaseInv, ReleaseTypes, Release!OfContracts, Release!Exporting
  <2>3. ContractsKept'
    BY <2>1 DEF ReleaseInv, ContractsKept, ExportedSoFar, Release!Registered,
                Release!OfContracts, Release!Exporting
  <2>4. StableKept'
    BY <2>1 DEF ReleaseInv, StableKept, Release!OfStable, Release!Buildable, Release!StableText
  <2> QED BY <2>2, <2>3, <2>4 DEF ReleaseInv
<1> QED BY <1>1, ReleaseChangeKeeps, ExportInventoriesKeeps, ExportKeepsContracts, StableKeeps,
           StopKeeps
        DEF Release!Next

\* What the invariant says of the release.
LEMMA ReleaseInvImplies ==
  ASSUME Release!ReleaseAssumption, ReleaseInv
  PROVE  Release!TypeOK /\ Release!ReleaseSound
<1> USE DEF ReleaseInv
<1>1. code \in 1..Len(Content) /\ Content[code] \in [Documents -> Nat]
  BY ContentIs DEF ReleaseTypes
<1>2. Release!TypeOK
  <2>1. DOMAIN Content = 1..Len(Content) /\ Len(Content) \in Nat
    BY <1>1, ContentIs
  <2>2. inventories \in 1..Len(Content) \cup {0}
    BY <2>1 DEF ReleaseTypes
  <2>3. \A w \in Writers : writer[w].left \subseteq Documents
    BY DEF ReleaseTypes, WriterState
  <2> QED BY <1>1, <2>1, <2>2, <2>3 DEF ReleaseTypes, Release!TypeOK, Release!Versions
<1>3. ASSUME NEW w \in Writers, writer[w].pc = "exported", writer[w].alone
      PROVE  Release!Mismatches \subseteq {"extra"}
  <2>1. Release!OfContracts(w)
    BY <1>3 DEF Release!OfContracts
  <2>2. /\ inventories = code /\ checksums = Content[code]
        /\ \A d \in Release!Registered(code) : documents[d] = Content[code][d]
    BY <1>3, <2>1 DEF ContractsKept, ExportedSoFar
  <2>3. \A d \in Release!Registered(code) : documents[d] # 0
    BY <2>2 DEF Release!Registered
  <2> QED BY <2>2, <2>3 DEF Release!Mismatches
<1>4. ASSUME NEW w \in Writers, writer[w].pc = "sealed", writer[w].alone
      PROVE  Release!StableVerified
  <2>1. Release!OfStable(w)
    BY <1>4 DEF Release!OfStable
  <2> QED BY <1>4, <2>1, TextsAre DEF StableKept, Release!StableVerified
<1> QED BY <1>2, <1>3, <1>4 DEF Release!ReleaseSound

\* An export that nobody disturbed repairs what was edited, torn or left of another
\* release before it, but for schemas the code has dropped; and a stable manifest
\* that nobody disturbed verifies (release/freeze.py:472-551, stable_manifest.py:177-231).
THEOREM ReleaseStaysSound ==
  ASSUME Release!ReleaseAssumption
  PROVE  Release!Spec => [](Release!TypeOK /\ Release!ReleaseSound)
<1>1. Release!Init => ReleaseInv
  BY ReleaseInit
<1>2. ReleaseInv /\ [Release!Next]_(Release!releaseVars) => ReleaseInv'
  BY ReleaseStep
<1>3. ReleaseInv => Release!TypeOK /\ Release!ReleaseSound
  BY ReleaseInvImplies
<1> QED BY <1>1, <1>2, <1>3, PTL DEF Release!Spec


-----------------------------------------------------------------------------
(***************************************************************************)
(* Replays of a training run.                                              *)
(***************************************************************************)
(***************************************************************************)
(* The invariant.  A directory that exists is of one replay; what stands   *)
(* in it is what that replay came to; and samples that kept every          *)
(* invariant are of replays that did.                                      *)
(***************************************************************************)
Places == 1..Cardinality(Replays)
Verdicts == {"bitwise", "numerical", "statistical", "failed", "none"}
Written == Verdicts \cup {"torn"}
ReportRecord ==
  [level : Written, executed : BOOLEAN, invariants : BOOLEAN, metric : Metrics \cup {0}]
Before(x) == x.pc \in {"idle", "verified", "refused", "snapshot", "raised"}
ReplayState ==
  [pc : {"idle", "verified", "refused", "snapshot", "raised", "training", "trained", "compared",
         "reported", "done", "lost"},
   id : Places \cup {0}, snapshot : Nat, trained : ReportRecord, bytes : BOOLEAN,
   level : Verdicts]
ManifestRecord == [status : {"none", "torn", "completed", "failed"}, sealed : BOOLEAN]
Place == [exists : BOOLEAN, report : ReportRecord, manifest : ManifestRecord]

Sampled(x) == x.executed /\ x.invariants

StateOf(x) ==
  /\ Before(x) <=> x.id = 0
  /\ x.pc \in {"trained", "compared", "reported"} => x.trained.executed
  /\ Before(x) \/ x.pc = "training" => ~x.trained.executed
  /\ x.pc \in {"compared", "reported", "done"} => x.level # "none"
  /\ x.pc \notin {"compared", "reported", "done", "lost"} => x.level \in {"none", "failed"}

\* A manifest that verifies tells the truth of the verdict beside it.
Truthful(p) ==
  p.manifest.sealed /\ p.report.level \notin {"none", "torn"} =>
    (p.manifest.status = "completed" <=> p.report.level # "failed")

PlaceOf(x, p) ==
  /\ p.exists /\ Truthful(p)
  /\ x.pc \in {"training", "trained", "compared"} => p.report.level = "none"
  /\ x.pc \in {"compared", "reported"} => ~p.manifest.sealed
  /\ x.pc = "reported" => p.report.level = x.level
  /\ x.pc = "done" => /\ p.report.level = x.level
                      /\ x.level # "failed" => p.manifest.status = "completed" /\ p.manifest.sealed
  /\ Sampled(p.report) => Sampled(x.trained)

Keepers == {q \in Replays : Sampled(replay[q].trained)}

ReplayInv ==
  /\ source \in [version : 1..(MaxRenewals + 1), sealed : 0..(MaxRenewals + 1), metric : Metrics,
                 kind : {"training", "agent"}, consistent : BOOLEAN]
  /\ replay \in [Replays -> ReplayState] /\ directory \in [Places -> Place]
  /\ \A r \in Replays : StateOf(replay[r])
  /\ \A r \in Replays : replay[r].id # 0 => PlaceOf(replay[r], directory[replay[r].id])
  /\ \A q, r \in Replays : q # r /\ replay[q].id # 0 => replay[q].id # replay[r].id
  /\ \A i \in Places : directory[i].exists => \E q \in Replays : replay[q].id = i
  /\ \A i \in Places : ~directory[i].exists =>
       /\ ~Sampled(directory[i].report) /\ directory[i].report.level = "none"
       /\ ~directory[i].manifest.sealed
  /\ \A r \in Replays : replay[r].level = "statistical" => Cardinality(Keepers) >= Minimum

\* The numbers of the directories, as the specification has them.
LEMMA PlacesAre ==
  /\ \A S : Replay!Cardinality(S) = Cardinality(S)
  /\ Replay!Ids = Places
<1>1. ASSUME NEW S
      PROVE  Replay!Cardinality(S) = Cardinality(S)
  BY DEF Replay!Cardinality, Cardinality
<1> QED BY <1>1 DEF Replay!Ids, Places

\* There are finitely many replays, and names for as many.
LEMMA FiniteReplays ==
  ASSUME Replay!ReplayAssumption
  PROVE  IsFiniteSet(Replays) /\ Named \subseteq 1..Cardinality(Replays)
<1>1. Replay!Cardinality(Replays) = Cardinality(Replays)
  BY PlacesAre
<1>2. IsFiniteSet(Replays)
  BY DEF Replay!ReplayAssumption, Replay!IsFiniteSet, IsFiniteSet
<1> QED BY <1>1, <1>2 DEF Replay!ReplayAssumption

\* It holds to begin with.
LEMMA ReplayInit ==
  ASSUME Replay!ReplayAssumption, Replay!Init
  PROVE  ReplayInv
<1>1. source \in [version : 1..(MaxRenewals + 1), sealed : 0..(MaxRenewals + 1), metric : Metrics,
                  kind : {"training", "agent"}, consistent : BOOLEAN]
  <2>1. /\ source \in [version : {1}, sealed : {0, 1}, metric : Metrics,
                       kind : {"training", "agent"}, consistent : BOOLEAN]
        /\ MaxRenewals \in Nat
    BY DEF Replay!ReplayAssumption, Replay!Init
  <2>2. 1 \in 1..(MaxRenewals + 1) /\ {0, 1} \subseteq 0..(MaxRenewals + 1)
    BY <2>1
  <2> QED BY <2>1, <2>2
<1>2. Replay!NoReport \in ReportRecord /\ ~Sampled(Replay!NoReport)
  BY DEF Replay!NoReport, ReportRecord, Verdicts, Written, Sampled
<1>3. /\ Replay!Fresh \in ReplayState /\ Replay!Fresh.pc = "idle" /\ Replay!Fresh.id = 0
      /\ Replay!Fresh.level = "none" /\ ~Replay!Fresh.trained.executed
  BY <1>2 DEF Replay!Fresh, Replay!NoReport, ReplayState, Verdicts
<1>4. replay = [r \in Replays |-> Replay!Fresh]
  BY DEF Replay!Init
<1>5. directory = [i \in Places |-> Replay!Vacant]
  BY PlacesAre DEF Replay!Init
<1>6. /\ Replay!Vacant \in Place /\ ~Replay!Vacant.exists /\ ~Replay!Vacant.manifest.sealed
      /\ ~Sampled(Replay!Vacant.report) /\ Replay!Vacant.report.level = "none"
  BY <1>2 DEF Replay!Vacant, Replay!NoManifest, Replay!Manifest, Replay!NoReport, Place, ManifestRecord
<1>7. StateOf(Replay!Fresh)
  BY <1>3 DEF StateOf, Before
<1> QED BY <1>1, <1>2, <1>3, <1>4, <1>5, <1>6, <1>7 DEF ReplayInv


\* The source goes on; no replay notices until it compares.
LEMMA SourceKeeps ==
  ASSUME Replay!ReplayAssumption, ReplayInv, Replay!Evaluate \/ Replay!Seal \/ Replay!Retrain
  PROVE  ReplayInv'
<1>1. source' \in [version : 1..(MaxRenewals + 1), sealed : 0..(MaxRenewals + 1), metric : Metrics,
                   kind : {"training", "agent"}, consistent : BOOLEAN]
  <2>1. /\ source \in [version : 1..(MaxRenewals + 1), sealed : 0..(MaxRenewals + 1), metric : Metrics,
                       kind : {"training", "agent"}, consistent : BOOLEAN]
        /\ MaxRenewals \in Nat
    BY DEF ReplayInv, Replay!ReplayAssumption
  <2>2. source.version <= MaxRenewals => /\ source.version + 1 \in 1..(MaxRenewals + 1)
                                        /\ source.version + 1 \in 0..(MaxRenewals + 1)
    BY <2>1
  <2>3. source.version \in 0..(MaxRenewals + 1)
    BY <2>1
  <2>4. CASE Replay!Evaluate
    BY <2>1, <2>2, <2>4 DEF Replay!Evaluate
  <2>5. CASE Replay!Seal
    BY <2>1, <2>3, <2>5 DEF Replay!Seal
  <2>6. CASE Replay!Retrain
    BY <2>1, <2>2, <2>6 DEF Replay!Retrain
  <2> QED BY <2>4, <2>5, <2>6
<1>2. UNCHANGED <<replay, directory>>
  BY DEF Replay!Evaluate, Replay!Seal, Replay!Retrain
<1> QED BY <1>1, <1>2 DEF ReplayInv, Keepers

\* Replays that kept every invariant stay so.
LEMMA KeepersGrow ==
  ASSUME Replay!ReplayAssumption, ReplayInv,
         \A q \in Replays : Sampled(replay[q].trained) => Sampled(replay'[q].trained),
         Cardinality(Keepers) >= Minimum
  PROVE  Cardinality(Keepers') >= Minimum
<1>1. Keepers \subseteq Keepers' /\ IsFiniteSet(Keepers')
  <2>1. Keepers' \in SUBSET Replays
    BY DEF Keepers
  <2> QED BY <2>1, FS_Subset, FiniteReplays DEF Keepers
<1> HIDE DEF Keepers
<1>2. Cardinality(Keepers) <= Cardinality(Keepers') /\ IsFiniteSet(Keepers)
  BY <1>1, FS_Subset
<1>3. Cardinality(Keepers) \in Nat /\ Cardinality(Keepers') \in Nat /\ Minimum \in Nat
  BY <1>1, <1>2, FS_CardinalityType DEF Replay!ReplayAssumption
<1> QED BY <1>2, <1>3

\* What is known of a replay.
LEMMA ReplayIs ==
  ASSUME ReplayInv, NEW r \in Replays
  PROVE  /\ replay[r] \in ReplayState /\ StateOf(replay[r])
         /\ ~Before(replay[r]) =>
              /\ replay[r].id \in Places /\ replay[r].id # 0
              /\ directory[replay[r].id] \in Place
              /\ PlaceOf(replay[r], directory[replay[r].id])
<1>1. replay[r] \in ReplayState /\ StateOf(replay[r])
  BY DEF ReplayInv
<1>2. ASSUME ~Before(replay[r])
      PROVE  replay[r].id \in Places /\ replay[r].id # 0
  BY <1>1, <1>2 DEF ReplayState, StateOf
<1>3. \A i \in Places : directory[i] \in Place
  BY DEF ReplayInv
<1> QED BY <1>1, <1>2, <1>3 DEF ReplayInv

\* A step of a replay in its directory.
LEMMA PlaceSteps ==
  ASSUME Replay!ReplayAssumption, ReplayInv, NEW r \in Replays, ~Before(replay[r]),
         NEW x \in ReplayState, NEW p \in Place, x.id = replay[r].id, ~Before(x),
         StateOf(x), PlaceOf(x, p), Sampled(replay[r].trained) => Sampled(x.trained),
         x.level = "statistical" => replay[r].level = "statistical" \/ Cardinality(Keepers) >= Minimum,
         replay' = [replay EXCEPT ![r] = x], directory' = [directory EXCEPT ![x.id] = p],
         UNCHANGED source
  PROVE  ReplayInv'
<1>1. x.id \in Places /\ x.id # 0 /\ p.exists
  BY ReplayIs DEF PlaceOf
<1>2. /\ replay' \in [Replays -> ReplayState] /\ directory' \in [Places -> Place]
      /\ \A q \in Replays : replay'[q] = IF q = r THEN x ELSE replay[q]
      /\ \A i \in Places : directory'[i] = IF i = x.id THEN p ELSE directory[i]
  BY <1>1 DEF ReplayInv
<1>3. \A q \in Replays : StateOf(replay'[q]) /\ replay'[q].id = replay[q].id
  BY <1>2 DEF ReplayInv
<1>4. \A q, s \in Replays : q # s /\ replay'[q].id # 0 => replay'[q].id # replay'[s].id
  BY <1>3 DEF ReplayInv
<1>5. ASSUME NEW q \in Replays, replay'[q].id # 0
      PROVE  PlaceOf(replay'[q], directory'[replay'[q].id])
  <2>1. CASE q = r
    BY <1>1, <1>2, <2>1
  <2>2. CASE q # r
    <3>1. replay'[q] = replay[q] /\ replay[q].id # x.id
      BY <1>2, <1>3, <1>5, <2>2 DEF ReplayInv
    <3>2. replay[q].id \in Places
      BY <1>5, <3>1 DEF ReplayInv, ReplayState
    <3>3. directory'[replay[q].id] = directory[replay[q].id]
      BY <1>2, <3>1, <3>2
    <3> QED BY <1>5, <3>1, <3>3 DEF ReplayInv
  <2> QED BY <2>1, <2>2
<1>6. \A i \in Places : directory'[i].exists => \E q \in Replays : replay'[q].id = i
  BY <1>2, <1>3 DEF ReplayInv
<1>7. \A i \in Places : ~directory'[i].exists =>
        /\ ~Sampled(directory'[i].report) /\ directory'[i].report.level = "none"
        /\ ~directory'[i].manifest.sealed
  BY <1>1, <1>2 DEF ReplayInv
<1>8. \A q \in Replays : Sampled(replay[q].trained) => Sampled(replay'[q].trained)
  BY <1>2
<1>9. ASSUME NEW q \in Replays, replay'[q].level = "statistical"
      PROVE  Cardinality(Keepers') >= Minimum
  <2>1. Cardinality(Keepers) >= Minimum
    BY <1>2, <1>9 DEF ReplayInv
  <2> QED BY <1>8, <2>1, KeepersGrow
<1>10. source' \in [version : 1..(MaxRenewals + 1), sealed : 0..(MaxRenewals + 1), metric : Metrics,
                    kind : {"training", "agent"}, consistent : BOOLEAN]
  BY DEF ReplayInv
<1> QED BY <1>2, <1>3, <1>4, <1>5, <1>6, <1>7, <1>9, <1>10 DEF ReplayInv

\* A step of a replay that has no directory yet, nor gets one.
LEMMA BeforeSteps ==
  ASSUME Replay!ReplayAssumption, ReplayInv, NEW r \in Replays, Before(replay[r]),
         NEW x \in ReplayState, Before(x), StateOf(x),
         replay' = [replay EXCEPT ![r] = x], UNCHANGED <<source, directory>>
  PROVE  ReplayInv'
<1>1. replay[r].id = 0 /\ x.id = 0 /\ ~Sampled(replay[r].trained) /\ x.level \in {"none", "failed"}
  BY ReplayIs DEF StateOf, Sampled, Before
<1>2. /\ replay' \in [Replays -> ReplayState]
      /\ \A q \in Replays : replay'[q] = IF q = r THEN x ELSE replay[q]
  BY DEF ReplayInv
<1>3. \A q \in Replays : StateOf(replay'[q]) /\ replay'[q].id = replay[q].id
  BY <1>1, <1>2 DEF ReplayInv
<1>4. \A q, s \in Replays : q # s /\ replay'[q].id # 0 => replay'[q].id # replay'[s].id
  BY <1>3 DEF ReplayInv
<1>5. \A q \in Replays : replay'[q].id # 0 => PlaceOf(replay'[q], directory[replay'[q].id])
  BY <1>1, <1>2 DEF ReplayInv
<1>6. \A i \in Places : directory[i].exists => \E q \in Replays : replay'[q].id = i
  BY <1>3 DEF ReplayInv
<1>7. \A q \in Replays : Sampled(replay[q].trained) => Sampled(replay'[q].trained)
  BY <1>1, <1>2
<1>8. ASSUME NEW q \in Replays, replay'[q].level = "statistical"
      PROVE  Cardinality(Keepers') >= Minimum
  <2>1. Cardinality(Keepers) >= Minimum
    BY <1>1, <1>2, <1>8 DEF ReplayInv
  <2> QED BY <1>7, <2>1, KeepersGrow
<1> QED BY <1>2, <1>3, <1>4, <1>5, <1>6, <1>8 DEF ReplayInv


\* As long as a replay has no directory, one is free: there are as many as replays.
LEMMA OneIsFree ==
  ASSUME Replay!ReplayAssumption, ReplayInv, NEW r \in Replays, replay[r].id = 0
  PROVE  \E i \in Places : ~directory[i].exists
<1> SUFFICES ASSUME \A i \in Places : directory[i].exists
             PROVE  FALSE
  OBVIOUS
<1> DEFINE owner == [i \in Places |-> CHOOSE q \in Replays : replay[q].id = i]
           others == Replays \ {r}
           n == Cardinality(Replays)
<1>1. \A i \in Places : owner[i] \in Replays /\ replay[owner[i]].id = i
  BY DEF ReplayInv
<1>2. \A i \in Places : owner[i] # r
  BY <1>1 DEF Places
<1>3. owner \in Injection(Places, others)
  <2>1. owner \in [Places -> others]
    BY <1>1, <1>2
  <2>2. \A i, j \in Places : owner[i] = owner[j] => i = j
    BY <1>1
  <2> HIDE DEF owner, others
  <2> QED BY <2>1, <2>2 DEF Injection, IsInjective
<1>4. /\ IsFiniteSet(others) /\ Cardinality(others) = n - 1 /\ n \in Nat
  BY FS_RemoveElement, FS_CardinalityType, FiniteReplays
<1>5. Cardinality(Places) = n
  <2>1. Places = 1..n
    BY DEF Places
  <2> HIDE DEF n
  <2>2. Cardinality(1..n) = IF 1 > n THEN 0 ELSE n - 1 + 1
    BY <1>4, FS_Interval
  <2> QED BY <1>4, <2>1, <2>2
<1>6. Cardinality(Places) <= Cardinality(others)
  <2> HIDE DEF owner, others
  <2> QED BY <1>3, <1>4, FS_Injection
<1> HIDE DEF n
<1> QED BY <1>4, <1>5, <1>6

\* The first free number is one of them.
LEMMA FirstFreeIs ==
  ASSUME Replay!ReplayAssumption, ReplayInv, NEW r \in Replays, replay[r].id = 0
  PROVE  Replay!FirstFree \in Places /\ ~directory[Replay!FirstFree].exists
<1> DEFINE F == {i \in Places : ~directory[i].exists}
<1>1. F \in SUBSET Nat /\ F # {}
  BY OneIsFree DEF Places
<1>2. PICK l \in F : \A k \in F : <<k, l>> \notin OpToRel(<, Nat)
  <2> HIDE DEF F
  <2> QED BY <1>1, NatLessThanWellFounded, WFMin
<1>3. \A k \in F : l <= k
  <2> SUFFICES ASSUME NEW k \in F
               PROVE  l <= k
    OBVIOUS
  <2>1. k \in Nat /\ l \in Nat
    BY <1>1
  <2>2. ~(k < l)
    BY <1>2, <2>1 DEF OpToRel
  <2> QED BY <2>1, <2>2
<1>4. Replay!FirstFree = CHOOSE x \in F : \A y \in F : x <= y
  BY PlacesAre DEF Replay!FirstFree, Replay!Min
<1> QED BY <1>3, <1>4

\* A free directory is taken by the replay that makes it.
LEMMA AllocateKeeps ==
  ASSUME Replay!ReplayAssumption, ReplayInv, NEW r \in Replays, NEW i \in Places,
         Replay!AllocateDirectory(r, i)
  PROVE  ReplayInv'
<1> DEFINE x == [replay[r] EXCEPT !.pc = "training", !.id = i]
           p == [directory[i] EXCEPT !.exists = TRUE]
<1>1. /\ replay[r].pc = "snapshot" /\ ~directory[i].exists
      /\ replay' = [replay EXCEPT ![r] = x] /\ directory' = [directory EXCEPT ![i] = p]
      /\ UNCHANGED source
  BY DEF Replay!AllocateDirectory
<1>2. /\ replay[r] \in ReplayState /\ StateOf(replay[r]) /\ replay[r].id = 0
      /\ ~replay[r].trained.executed /\ replay[r].level \in {"none", "failed"}
  BY <1>1, ReplayIs DEF StateOf, Before
<1>3. /\ x \in ReplayState /\ x.pc = "training" /\ x.id = i
      /\ x.trained = replay[r].trained /\ x.level = replay[r].level
  BY <1>2 DEF ReplayState
<1>4. /\ directory[i] \in Place /\ ~Sampled(directory[i].report)
      /\ directory[i].report.level = "none" /\ ~directory[i].manifest.sealed
  BY <1>1 DEF ReplayInv
<1>5. /\ p \in Place /\ p.exists /\ p.report = directory[i].report
      /\ p.manifest = directory[i].manifest
  BY <1>4 DEF Place
<1>6. i # 0
  BY DEF Places
<1> HIDE DEF x, p
<1>7. StateOf(x) /\ PlaceOf(x, p)
  BY <1>2, <1>3, <1>4, <1>5, <1>6 DEF StateOf, PlaceOf, Truthful, Before
<1>8. /\ replay' \in [Replays -> ReplayState] /\ directory' \in [Places -> Place]
      /\ \A q \in Replays : replay'[q] = IF q = r THEN x ELSE replay[q]
      /\ \A j \in Places : directory'[j] = IF j = i THEN p ELSE directory[j]
  BY <1>1, <1>3, <1>5 DEF ReplayInv
<1>9. \A q \in Replays : q # r => replay[q].id # i
  <2> SUFFICES ASSUME NEW q \in Replays, q # r, replay[q].id = i
               PROVE  FALSE
    OBVIOUS
  <2>1. PlaceOf(replay[q], directory[i])
    BY <1>6 DEF ReplayInv
  <2> QED BY <1>1, <2>1 DEF PlaceOf
<1>10. \A q, s \in Replays : q # s /\ replay'[q].id # 0 => replay'[q].id # replay'[s].id
  <2> SUFFICES ASSUME NEW q \in Replays, NEW s \in Replays, q # s, replay'[q].id # 0
               PROVE  replay'[q].id # replay'[s].id
    OBVIOUS
  <2>1. CASE q # r /\ s # r
    BY <1>8, <2>1 DEF ReplayInv
  <2>2. CASE q = r \/ s = r
    BY <1>3, <1>8, <1>9, <2>2
  <2> QED BY <2>1, <2>2
<1>11. ASSUME NEW q \in Replays, replay'[q].id # 0
       PROVE  PlaceOf(replay'[q], directory'[replay'[q].id])
  <2>1. CASE q = r
    BY <1>3, <1>7, <1>8, <2>1
  <2>2. CASE q # r
    <3>1. replay'[q] = replay[q] /\ replay[q].id # i
      BY <1>8, <1>9, <2>2
    <3>2. replay[q].id \in Places
      BY <1>11, <3>1 DEF ReplayInv, ReplayState
    <3> QED BY <1>8, <1>11, <3>1, <3>2 DEF ReplayInv
  <2> QED BY <2>1, <2>2
<1>12. ASSUME NEW j \in Places, directory'[j].exists
       PROVE  \E q \in Replays : replay'[q].id = j
  <2>1. CASE j = i
    BY <1>3, <1>8, <2>1
  <2>2. CASE j # i
    <3>1. PICK q \in Replays : replay[q].id = j
      BY <1>8, <1>12, <2>2 DEF ReplayInv
    <3>2. q # r
      BY <1>2, <3>1 DEF Places
    <3> QED BY <1>8, <3>1, <3>2
  <2> QED BY <2>1, <2>2
<1>13. \A j \in Places : ~directory'[j].exists =>
         /\ ~Sampled(directory'[j].report) /\ directory'[j].report.level = "none"
         /\ ~directory'[j].manifest.sealed
  BY <1>5, <1>8 DEF ReplayInv
<1>14. \A q \in Replays : Sampled(replay[q].trained) => Sampled(replay'[q].trained)
  BY <1>3, <1>8
<1>15. ASSUME NEW q \in Replays, replay'[q].level = "statistical"
       PROVE  Cardinality(Keepers') >= Minimum
  <2>1. Cardinality(Keepers) >= Minimum
    BY <1>2, <1>3, <1>8, <1>15 DEF ReplayInv
  <2> QED BY <1>14, <2>1, KeepersGrow
<1>16. \A q \in Replays : StateOf(replay'[q])
  BY <1>7, <1>8 DEF ReplayInv
<1>17. source' \in [version : 1..(MaxRenewals + 1), sealed : 0..(MaxRenewals + 1), metric : Metrics,
                    kind : {"training", "agent"}, consistent : BOOLEAN]
  BY <1>1 DEF ReplayInv
<1> QED BY <1>8, <1>10, <1>11, <1>12, <1>13, <1>15, <1>16, <1>17 DEF ReplayInv


\* What is verified, recorded and refused before a directory is taken.
LEMMA EarlyKeeps ==
  ASSUME Replay!ReplayAssumption, ReplayInv, NEW r \in Replays,
         Replay!Verify(r) \/ Replay!Snapshot(r) \/ Replay!NameTaken(r)
  PROVE  ReplayInv'
<1>1. replay[r] \in ReplayState /\ StateOf(replay[r])
  BY ReplayIs
<1>2. source.version \in Nat
  BY DEF ReplayInv, Replay!ReplayAssumption
<1>3. replay \in [Replays -> ReplayState]
  BY DEF ReplayInv
<1>4. CASE Replay!Verify(r)
  <2>1. PICK x : x = IF Replay!ArtifactsVerified(source) /\ source.kind = "training"
                       THEN [replay[r] EXCEPT !.pc = "verified"]
                       ELSE [replay[r] EXCEPT !.pc = "refused", !.level = "failed"]
    OBVIOUS
  <2>2. replay[r].pc = "idle" /\ replay' = [replay EXCEPT ![r] = x] /\ UNCHANGED <<source, directory>>
    BY <1>3, <1>4, <2>1 DEF Replay!Verify
  <2>3. x \in ReplayState /\ StateOf(x) /\ Before(x) /\ Before(replay[r])
    BY <1>1, <2>1, <2>2 DEF ReplayState, Verdicts, StateOf, Before
  <2> QED BY <2>2, <2>3, BeforeSteps
<1>5. CASE Replay!Snapshot(r)
  <2>1. PICK x : x = [replay[r] EXCEPT !.pc = "snapshot", !.snapshot = source.version]
    OBVIOUS
  <2>2. replay[r].pc = "verified" /\ replay' = [replay EXCEPT ![r] = x] /\ UNCHANGED <<source, directory>>
    BY <1>3, <1>5, <2>1 DEF Replay!Snapshot
  <2>3. x \in ReplayState /\ StateOf(x) /\ Before(x) /\ Before(replay[r])
    BY <1>1, <1>2, <2>1, <2>2 DEF ReplayState, StateOf, Before
  <2> QED BY <2>2, <2>3, BeforeSteps
<1>6. CASE Replay!NameTaken(r)
  <2>1. PICK x : x = [replay[r] EXCEPT !.pc = "raised"]
    OBVIOUS
  <2>2. replay[r].pc = "snapshot" /\ replay' = [replay EXCEPT ![r] = x] /\ UNCHANGED <<source, directory>>
    BY <1>3, <1>6, <2>1 DEF Replay!NameTaken
  <2>3. x \in ReplayState /\ StateOf(x) /\ Before(x) /\ Before(replay[r])
    BY <1>1, <2>1, <2>2 DEF ReplayState, StateOf, Before
  <2> QED BY <2>2, <2>3, BeforeSteps
<1> QED BY <1>4, <1>5, <1>6

\* The directory a replay trains in, whichever way it was numbered.
LEMMA TakenKeeps ==
  ASSUME Replay!ReplayAssumption, ReplayInv, NEW r \in Replays,
         Replay!AllocateNext(r) \/ Replay!AllocateNamed(r)
  PROVE  ReplayInv'
<1>1. CASE Replay!AllocateNext(r)
  <2>1. Replay!AllocateDirectory(r, Replay!FirstFree)
    BY <1>1 DEF Replay!AllocateNext
  <2>2. replay[r].id = 0
    BY <2>1, ReplayIs DEF Replay!AllocateDirectory, StateOf, Before
  <2>3. Replay!FirstFree \in Places
    BY <2>2, FirstFreeIs
  <2> QED BY <2>1, <2>3, AllocateKeeps
<1>2. CASE Replay!AllocateNamed(r)
  <2>1. PICK i \in Named : Replay!AllocateDirectory(r, i)
    BY <1>2 DEF Replay!AllocateNamed
  <2>2. i \in Places
    BY FiniteReplays DEF Places
  <2> QED BY <2>1, <2>2, AllocateKeeps
<1> QED BY <1>1, <1>2

\* The training of a replay.
LEMMA TrainKeeps ==
  ASSUME Replay!ReplayAssumption, ReplayInv, NEW r \in Replays, Replay!Train(r)
  PROVE  ReplayInv'
<1>1. PICK m \in Metrics, same \in BOOLEAN, sound \in BOOLEAN :
        replay' = [replay EXCEPT ![r].pc = "trained", ![r].bytes = same,
          ![r].trained = [level |-> "none", executed |-> TRUE, invariants |-> sound, metric |-> m]]
  BY DEF Replay!Train
<1>2. PICK t : t = [level |-> "none", executed |-> TRUE, invariants |-> sound, metric |-> m]
  OBVIOUS
<1>3. PICK x : x = [replay[r] EXCEPT !.pc = "trained", !.bytes = same, !.trained = t]
  OBVIOUS
<1>4. PICK p : p = [directory[replay[r].id] EXCEPT !.manifest = Replay!Manifest("completed", TRUE)]
  OBVIOUS
<1>5. /\ replay[r].pc = "training"
      /\ directory' = [directory EXCEPT ![replay[r].id].manifest = Replay!Manifest("completed", TRUE)]
      /\ UNCHANGED source
  BY DEF Replay!Train
<1>6. ~Before(replay[r])
  BY <1>5 DEF Before
<1>7. /\ replay[r] \in ReplayState /\ StateOf(replay[r]) /\ replay[r].id \in Places /\ replay[r].id # 0
      /\ directory[replay[r].id] \in Place /\ PlaceOf(replay[r], directory[replay[r].id])
  BY <1>6, ReplayIs
<1>8. t \in ReportRecord /\ t.executed
  BY <1>2 DEF ReportRecord, Verdicts, Written
<1>9. /\ x \in ReplayState /\ x.pc = "trained" /\ x.id = replay[r].id /\ x.trained = t
      /\ x.level = replay[r].level
  BY <1>3, <1>7, <1>8 DEF ReplayState
<1>10. p \in Place /\ p.exists /\ p.report = directory[replay[r].id].report
  <2>1. Replay!Manifest("completed", TRUE) \in ManifestRecord
    BY DEF Replay!Manifest, ManifestRecord
  <2> QED BY <1>4, <1>7, <2>1 DEF Place, PlaceOf
<1>11. replay' = [replay EXCEPT ![r] = x] /\ directory' = [directory EXCEPT ![x.id] = p]
  <2>1. replay \in [Replays -> ReplayState] /\ directory \in [Places -> Place]
    BY DEF ReplayInv
  <2>2. replay' = [replay EXCEPT ![r] = x]
    BY <1>1, <1>2, <1>3, <2>1
  <2>3. directory' = [directory EXCEPT ![x.id] = p]
    BY <1>4, <1>5, <1>9, <2>1
  <2> QED BY <2>2, <2>3
<1>12. ~Sampled(replay[r].trained)
  BY <1>5, <1>7 DEF StateOf, Sampled
<1>13. StateOf(x) /\ ~Before(x) /\ PlaceOf(x, p)
  <2>1. ~Sampled(directory[replay[r].id].report)
    BY <1>7, <1>12 DEF PlaceOf
  <2>2. replay[r].level \in {"none", "failed"}
    BY <1>5, <1>7 DEF StateOf
  <2>3. directory[replay[r].id].report.level = "none"
    BY <1>5, <1>7 DEF PlaceOf
  <2> QED BY <1>7, <1>8, <1>9, <1>10, <2>1, <2>2, <2>3 DEF StateOf, PlaceOf, Truthful, Before
<1>14. x.level = "statistical" => replay[r].level = "statistical"
  BY <1>9
<1> QED BY <1>5, <1>6, <1>9, <1>10, <1>11, <1>12, <1>13, <1>14, PlaceSteps


\* The samples of a comparison are of as many replays that kept every invariant.
LEMMA SamplesAreKeepers ==
  ASSUME Replay!ReplayAssumption, ReplayInv, NEW r \in Replays, replay[r].pc = "trained",
         replay[r].trained.invariants
  PROVE  Cardinality(Replay!PriorReplays(replay[r].id) \cup {replay[r].id}) <= Cardinality(Keepers)
<1> DEFINE samples == Replay!PriorReplays(replay[r].id) \cup {replay[r].id}
           owner == [i \in samples |-> CHOOSE q \in Replays : replay[q].id = i]
<1>1. /\ replay[r].id \in Places /\ replay[r].id # 0 /\ directory[replay[r].id].exists
      /\ Sampled(replay[r].trained)
  BY ReplayIs DEF Before, PlaceOf, StateOf, Sampled
<1>2. samples \subseteq Places
  BY <1>1, PlacesAre DEF Replay!PriorReplays
<1>3. ASSUME NEW i \in samples
      PROVE  owner[i] \in Replays /\ replay[owner[i]].id = i
  <2>1. directory[i].exists
    BY <1>1, <1>2, PlacesAre DEF Replay!PriorReplays, ReplayInv, Sampled
  <2>2. \E q \in Replays : replay[q].id = i
    BY <1>2, <2>1 DEF ReplayInv
  <2> QED BY <2>2
<1> HIDE DEF owner
<1>4. ASSUME NEW i \in samples
      PROVE  Sampled(replay[owner[i]].trained)
  <2>0. owner[i] \in Replays /\ replay[owner[i]].id = i /\ i \in Places /\ i # 0
    BY <1>2, <1>3 DEF Places
  <2>1. CASE i = replay[r].id
    <3>1. owner[i] = r
      BY <1>1, <2>0, <2>1 DEF ReplayInv
    <3> QED BY <1>1, <3>1
  <2>2. CASE i # replay[r].id
    <3>1. Sampled(directory[i].report)
      BY <2>2 DEF Replay!PriorReplays, Sampled
    <3>2. PlaceOf(replay[owner[i]], directory[i])
      BY <2>0 DEF ReplayInv
    <3> QED BY <3>1, <3>2 DEF PlaceOf
  <2> QED BY <2>1, <2>2
<1>5. owner \in [samples -> Keepers]
  <2>1. \A i \in samples : owner[i] \in Keepers
    BY <1>3, <1>4 DEF Keepers
  <2> HIDE DEF samples
  <2> QED BY <2>1 DEF owner
<1>6. owner \in Injection(samples, Keepers)
  <2>1. \A i, j \in samples : owner[i] = owner[j] => i = j
    BY <1>3
  <2> HIDE DEF samples
  <2> QED BY <1>5, <2>1 DEF Injection, IsInjective
<1>7. IsFiniteSet(Keepers)
  BY FS_Subset, FiniteReplays DEF Keepers
<1>8. Cardinality(samples) <= Cardinality(Keepers)
  <2> HIDE DEF samples
  <2> QED BY <1>6, <1>7, FS_Injection
<1> QED BY <1>8

\* Statistics want their minimum of samples.
LEMMA EnoughSamples ==
  ASSUME NEW i, NEW own, Replay!CompareStatistically(i, own)
  PROVE  Replay!Cardinality(Replay!PriorReplays(i) \cup {i}) >= Minimum
BY Zenon DEF Replay!CompareStatistically

\* The verdict of a replay.
LEMMA CompareKeeps ==
  ASSUME Replay!ReplayAssumption, ReplayInv, NEW r \in Replays, Replay!Compare(r)
  PROVE  ReplayInv'
<1> DEFINE t == replay[r].trained
           level == Replay!ClassifyReproduction(t.invariants /\ replay[r].bytes,
                      t.invariants /\ Replay!CompareMetrics(source.metric, t.metric), t.invariants,
                      Replay!CompareStatistically(replay[r].id, t.metric),
                      replay[r].snapshot = source.version)
<1>1. PICK v : v = level
  OBVIOUS
<1>2. v \in {"failed", "bitwise", "numerical", "statistical"}
  BY <1>1 DEF Replay!ClassifyReproduction
<1>3. v = "statistical" => t.invariants /\ Replay!CompareStatistically(replay[r].id, t.metric)
  BY <1>1 DEF Replay!ClassifyReproduction
<1>4. PICK x : x = [replay[r] EXCEPT !.pc = "compared", !.level = v]
  OBVIOUS
<1>5. replay[r].pc = "trained" /\ UNCHANGED source
  BY DEF Replay!Compare
<1>6. replay' = [replay EXCEPT ![r] = x]
  <2>1. replay' = [replay EXCEPT ![r].pc = "compared", ![r].level = v]
    BY <1>1 DEF Replay!Compare
  <2>2. replay \in [Replays -> ReplayState]
    BY DEF ReplayInv
  <2> QED BY <1>4, <2>1, <2>2
<1>7. /\ replay[r] \in ReplayState /\ StateOf(replay[r]) /\ replay[r].id \in Places /\ ~Before(replay[r])
      /\ directory[replay[r].id] \in Place /\ PlaceOf(replay[r], directory[replay[r].id])
  BY <1>5, ReplayIs DEF Before
<1>8. /\ x \in ReplayState /\ x.pc = "compared" /\ x.id = replay[r].id /\ x.trained = t /\ x.level = v
  BY <1>2, <1>4, <1>7 DEF ReplayState, Verdicts
<1>12. PICK p : p = [directory[replay[r].id] EXCEPT !.manifest.sealed = FALSE]
  OBVIOUS
<1>13. /\ p \in Place /\ p.exists /\ ~p.manifest.sealed
       /\ p.report = directory[replay[r].id].report /\ p.report.level = "none"
  <2>1. directory[replay[r].id].report.level = "none"
    BY <1>5, <1>7 DEF PlaceOf
  <2> QED BY <1>7, <1>12, <2>1 DEF Place, ManifestRecord, PlaceOf
<1>9. StateOf(x) /\ ~Before(x) /\ PlaceOf(x, p)
  BY <1>2, <1>5, <1>7, <1>8, <1>13 DEF StateOf, PlaceOf, Truthful, Before
<1>10. v = "statistical" => Cardinality(Keepers) >= Minimum
  <2> SUFFICES ASSUME v = "statistical"
               PROVE  Cardinality(Keepers) >= Minimum
    OBVIOUS
  <2>1. PICK n : n = Cardinality(Replay!PriorReplays(replay[r].id) \cup {replay[r].id})
    OBVIOUS
  <2>2. n >= Minimum
    <3>1. Replay!Cardinality(Replay!PriorReplays(replay[r].id) \cup {replay[r].id}) >= Minimum
      BY <1>3, EnoughSamples
    <3> QED BY <2>1, <3>1, PlacesAre
  <2>3. n <= Cardinality(Keepers)
    BY <1>3, <1>5, <2>1, SamplesAreKeepers
  <2>4. IsFiniteSet(Keepers)
    BY FS_Subset, FiniteReplays DEF Keepers
  <2>5. n \in Nat
    <3>1. Replay!PriorReplays(replay[r].id) \cup {replay[r].id} \subseteq Places
      BY <1>7, PlacesAre DEF Replay!PriorReplays
    <3>2. IsFiniteSet(Places)
      BY FS_Interval, FS_CardinalityType, FiniteReplays DEF Places
    <3>3. IsFiniteSet(Replay!PriorReplays(replay[r].id) \cup {replay[r].id})
      BY <3>1, <3>2, FS_Subset
    <3> QED BY <2>1, <3>3, FS_CardinalityType
  <2>6. Cardinality(Keepers) \in Nat /\ Minimum \in Nat
    BY <2>4, FS_CardinalityType DEF Replay!ReplayAssumption
  <2> QED BY <2>2, <2>3, <2>5, <2>6
<1>11. directory' = [directory EXCEPT ![x.id] = p]
  <2>1. directory \in [Places -> Place]
    BY DEF ReplayInv
  <2>2. directory' = [directory EXCEPT ![replay[r].id].manifest.sealed = FALSE]
    BY DEF Replay!Compare
  <2> QED BY <1>8, <1>12, <2>1, <2>2
<1> HIDE DEF t, level
<1> QED
  <2>1. Sampled(replay[r].trained) => Sampled(x.trained)
    BY <1>8 DEF t
  <2> QED BY <1>5, <1>6, <1>7, <1>8, <1>9, <1>10, <1>11, <1>13, <2>1, PlaceSteps


\* The report of a replay.
LEMMA WriteReportKeeps ==
  ASSUME Replay!ReplayAssumption, ReplayInv, NEW r \in Replays, Replay!WriteReport(r)
  PROVE  ReplayInv'
<1>1. PICK t : t = [replay[r].trained EXCEPT !.level = replay[r].level]
  OBVIOUS
<1>2. PICK x : x = [replay[r] EXCEPT !.pc = "reported"]
  OBVIOUS
<1>3. PICK p : p = [directory[replay[r].id] EXCEPT !.report = t]
  OBVIOUS
<1>4. /\ replay[r].pc = "compared" /\ UNCHANGED source
      /\ directory' = [directory EXCEPT ![replay[r].id].report = t]
      /\ replay' = [replay EXCEPT ![r].pc = "reported"]
  BY <1>1 DEF Replay!WriteReport, Replay!VerdictReport
<1>5. /\ replay[r] \in ReplayState /\ StateOf(replay[r]) /\ replay[r].id \in Places /\ ~Before(replay[r])
      /\ directory[replay[r].id] \in Place /\ PlaceOf(replay[r], directory[replay[r].id])
  BY <1>4, ReplayIs DEF Before
<1>6. /\ t \in ReportRecord /\ t.level = replay[r].level /\ t.executed = replay[r].trained.executed
      /\ t.invariants = replay[r].trained.invariants
  BY <1>1, <1>5 DEF ReplayState, ReportRecord, Written
<1>7. /\ x \in ReplayState /\ x.pc = "reported" /\ x.id = replay[r].id
      /\ x.trained = replay[r].trained /\ x.level = replay[r].level
  BY <1>2, <1>5 DEF ReplayState
<1>8. /\ p \in Place /\ p.exists /\ p.report = t /\ p.manifest = directory[replay[r].id].manifest
  BY <1>3, <1>5, <1>6 DEF Place, PlaceOf
<1>9. replay' = [replay EXCEPT ![r] = x] /\ directory' = [directory EXCEPT ![x.id] = p]
  <2>1. replay \in [Replays -> ReplayState] /\ directory \in [Places -> Place]
    BY DEF ReplayInv
  <2>2. replay' = [replay EXCEPT ![r] = x]
    BY <1>2, <1>4, <2>1
  <2>3. directory' = [directory EXCEPT ![x.id] = p]
    BY <1>3, <1>4, <1>7, <2>1
  <2> QED BY <2>2, <2>3
<1>10. StateOf(x) /\ ~Before(x) /\ PlaceOf(x, p)
  <2>1. Sampled(p.report) => Sampled(x.trained)
    BY <1>6, <1>7, <1>8 DEF Sampled
  <2> QED BY <1>4, <1>5, <1>6, <1>7, <1>8, <2>1 DEF StateOf, PlaceOf, Truthful, Before
<1> QED BY <1>4, <1>5, <1>7, <1>8, <1>9, <1>10, PlaceSteps

\* The manifest of a replay.
LEMMA WriteManifestKeeps ==
  ASSUME Replay!ReplayAssumption, ReplayInv, NEW r \in Replays, Replay!WriteManifest(r)
  PROVE  ReplayInv'
<1>1. PICK w : w = Replay!VerdictManifest(r)
  OBVIOUS
<1>2. PICK x : x = [replay[r] EXCEPT !.pc = "done"]
  OBVIOUS
<1>3. PICK p : p = [directory[replay[r].id] EXCEPT !.manifest = w]
  OBVIOUS
<1>4. /\ replay[r].pc = "reported" /\ UNCHANGED source
      /\ directory' = [directory EXCEPT ![replay[r].id].manifest = w]
      /\ replay' = [replay EXCEPT ![r].pc = "done"]
  BY <1>1 DEF Replay!WriteManifest
<1>5. /\ replay[r] \in ReplayState /\ StateOf(replay[r]) /\ replay[r].id \in Places /\ ~Before(replay[r])
      /\ directory[replay[r].id] \in Place /\ PlaceOf(replay[r], directory[replay[r].id])
  BY <1>4, ReplayIs DEF Before
<1>6. /\ x \in ReplayState /\ x.pc = "done" /\ x.id = replay[r].id
      /\ x.trained = replay[r].trained /\ x.level = replay[r].level
  BY <1>2, <1>5 DEF ReplayState
<1>7. /\ p \in Place /\ p.exists /\ p.report = directory[replay[r].id].report /\ p.manifest = w
  <2>1. w \in ManifestRecord
    BY <1>1 DEF Replay!VerdictManifest, Replay!Manifest, ManifestRecord
  <2> QED BY <1>3, <1>5, <2>1 DEF Place, PlaceOf
<1>8. replay' = [replay EXCEPT ![r] = x] /\ directory' = [directory EXCEPT ![x.id] = p]
  <2>1. replay \in [Replays -> ReplayState] /\ directory \in [Places -> Place]
    BY DEF ReplayInv
  <2>2. replay' = [replay EXCEPT ![r] = x]
    BY <1>2, <1>4, <2>1
  <2>3. directory' = [directory EXCEPT ![x.id] = p]
    BY <1>3, <1>4, <1>6, <2>1
  <2> QED BY <2>2, <2>3
<1>9. StateOf(x) /\ ~Before(x) /\ PlaceOf(x, p)
  <2>1. w.sealed /\ (w.status = "completed" <=> replay[r].level # "failed")
    BY <1>1 DEF Replay!VerdictManifest, Replay!Manifest
  <2> QED BY <1>4, <1>5, <1>6, <1>7, <2>1 DEF StateOf, PlaceOf, Truthful, Before
<1> QED BY <1>4, <1>5, <1>6, <1>7, <1>8, <1>9, PlaceSteps

\* The manifests there are.
LEMMA ManifestsAre ==
  /\ Replay!TornManifest \in ManifestRecord /\ ~Replay!TornManifest.sealed
  /\ Replay!Manifest("completed", TRUE) \in ManifestRecord
  /\ Replay!Manifest("failed", TRUE) \in ManifestRecord
  /\ Replay!Manifest("failed", TRUE).status = "failed"
BY DEF ManifestRecord, Replay!TornManifest, Replay!Manifest

\* What a step that raised leaves of the manifest, as long as the report stays.
LEMMA LeftIs ==
  ASSUME ReplayInv, NEW r \in Replays, Replay!Working(r), NEW m \in Replay!Left(r)
  PROVE  /\ m \in ManifestRecord
         /\ [m EXCEPT !.sealed = FALSE] \in ManifestRecord
         /\ Truthful([directory[replay[r].id] EXCEPT !.manifest = m])
<1>1. PICK d : d = directory[replay[r].id]
  OBVIOUS
<1>2. d \in Place /\ StateOf(replay[r]) /\ PlaceOf(replay[r], d)
  BY <1>1, ReplayIs DEF Replay!Working, Before
<1>3. PICK w : w = Replay!VerdictManifest(r)
  OBVIOUS
<1>4. /\ w \in ManifestRecord
      /\ w.sealed /\ (w.status = "completed" <=> replay[r].level # "failed")
  BY <1>3 DEF Replay!VerdictManifest, Replay!Manifest, ManifestRecord
<1>5. m \in {d.manifest, [d.manifest EXCEPT !.sealed = FALSE], Replay!TornManifest}
      \/ (m = Replay!Manifest("completed", TRUE) /\ replay[r].pc = "training")
      \/ (m = w /\ replay[r].pc = "reported")
  BY <1>1, <1>3 DEF Replay!Left
<1>6. m \in ManifestRecord
  <2>1. d.manifest \in ManifestRecord
    BY <1>2 DEF Place
  <2>2. [d.manifest EXCEPT !.sealed = FALSE] \in ManifestRecord
    BY <2>1 DEF ManifestRecord
  <2> QED BY <1>4, <1>5, <2>1, <2>2, ManifestsAre
<1>7. PICK q : q = [d EXCEPT !.manifest = m]
  OBVIOUS
<1>8. q.manifest = m /\ q.report = d.report
  BY <1>2, <1>7 DEF Place
<1>9. Truthful(q)
  <2>1. CASE m = d.manifest
    BY <1>2, <1>8, <2>1 DEF PlaceOf, Truthful
  <2>2. CASE ~m.sealed
    BY <1>8, <2>2 DEF Truthful
  <2>3. CASE replay[r].pc = "training"
    BY <1>2, <1>8, <2>3 DEF PlaceOf, Truthful
  <2>4. CASE m = w /\ replay[r].pc = "reported"
    BY <1>2, <1>4, <1>8, <2>4 DEF PlaceOf, Truthful
  <2>5. m = [d.manifest EXCEPT !.sealed = FALSE] \/ m = Replay!TornManifest => ~m.sealed
    BY <1>2 DEF Place, ManifestRecord, Replay!TornManifest, Replay!Manifest
  <2> QED BY <1>5, <2>1, <2>2, <2>3, <2>4, <2>5
<1>10. [m EXCEPT !.sealed = FALSE] \in ManifestRecord
  BY <1>6 DEF ManifestRecord
<1> QED BY <1>1, <1>6, <1>7, <1>9, <1>10

\* The reports of a failure are no samples.
LEMMA FailuresAre ==
  ASSUME NEW r \in Replays
  PROVE  /\ Replay!Handled(r) \in ReportRecord /\ ~Sampled(Replay!Handled(r))
         /\ Replay!Handled(r).level = "failed"
         /\ Replay!Torn \in ReportRecord /\ ~Sampled(Replay!Torn)
<1>1. /\ Replay!NoReport \in ReportRecord /\ ~Replay!NoReport.invariants
  BY DEF Replay!NoReport, ReportRecord, Verdicts, Written
<1> QED BY <1>1 DEF Replay!Handled, Replay!FailedReport, Replay!Torn, ReportRecord, Verdicts,
                    Written, Sampled

\* A replay that fails, wherever it is.
LEMMA ReplayFailKeeps ==
  ASSUME Replay!ReplayAssumption, ReplayInv, NEW r \in Replays, Replay!Fail(r)
  PROVE  ReplayInv'
<1>1. PICK t : t = Replay!Handled(r)
  OBVIOUS
<1>2. PICK m \in Replay!Left(r) :
        \E w \in {Replay!Manifest("failed", TRUE), Replay!TornManifest, [m EXCEPT !.sealed = FALSE]} :
          directory' = [directory EXCEPT ![replay[r].id] = [@ EXCEPT !.manifest = w, !.report = t]]
  BY <1>1, Zenon DEF Replay!Fail
<1>3. PICK w \in {Replay!Manifest("failed", TRUE), Replay!TornManifest, [m EXCEPT !.sealed = FALSE]} :
        directory' = [directory EXCEPT ![replay[r].id] = [@ EXCEPT !.manifest = w, !.report = t]]
  BY <1>2, Zenon
<1>4. PICK x : x = [replay[r] EXCEPT !.pc = "done", !.level = "failed"]
  OBVIOUS
<1>5. PICK p : p = [directory[replay[r].id] EXCEPT !.manifest = w, !.report = t]
  OBVIOUS
<1>6. /\ Replay!Working(r) /\ UNCHANGED source
      /\ replay' = [replay EXCEPT ![r].pc = "done", ![r].level = "failed"]
  BY DEF Replay!Fail
<1>7. /\ replay[r] \in ReplayState /\ StateOf(replay[r]) /\ replay[r].id \in Places /\ ~Before(replay[r])
      /\ directory[replay[r].id] \in Place /\ PlaceOf(replay[r], directory[replay[r].id])
  BY <1>6, ReplayIs DEF Before, Replay!Working
<1>8. t \in ReportRecord /\ t.level = "failed" /\ ~Sampled(t)
  BY <1>1, FailuresAre
<1>9. /\ x \in ReplayState /\ x.pc = "done" /\ x.id = replay[r].id
      /\ x.trained = replay[r].trained /\ x.level = "failed"
  BY <1>4, <1>7 DEF ReplayState, Verdicts
<1>10. w \in ManifestRecord /\ (w.sealed => w.status = "failed")
  <2>1. m \in ManifestRecord
    BY <1>2, <1>6, LeftIs
  <2>2. PICK u : u = [m EXCEPT !.sealed = FALSE]
    OBVIOUS
  <2>3. u \in ManifestRecord /\ ~u.sealed
    BY <2>1, <2>2 DEF ManifestRecord
  <2>4. w \in {Replay!Manifest("failed", TRUE), Replay!TornManifest, u}
    BY <1>3, <2>2
  <2> QED BY <2>3, <2>4, ManifestsAre
<1>11. /\ p \in Place /\ p.exists /\ p.report = t /\ p.manifest = w
  BY <1>5, <1>7, <1>8, <1>10 DEF Place, PlaceOf
<1>12. replay' = [replay EXCEPT ![r] = x] /\ directory' = [directory EXCEPT ![x.id] = p]
  <2>1. replay \in [Replays -> ReplayState] /\ directory \in [Places -> Place]
    BY DEF ReplayInv
  <2>2. replay' = [replay EXCEPT ![r] = x]
    BY <1>4, <1>6, <2>1
  <2>3. directory' = [directory EXCEPT ![x.id] = p]
    BY <1>3, <1>5, <1>9, <2>1
  <2> QED BY <2>2, <2>3
<1>13. StateOf(x) /\ ~Before(x) /\ PlaceOf(x, p)
  BY <1>7, <1>8, <1>9, <1>10, <1>11 DEF StateOf, PlaceOf, Truthful, Before
<1> QED BY <1>6, <1>7, <1>9, <1>11, <1>12, <1>13, PlaceSteps

\* A replay whose failure could not be written down either.
LEMMA ReplayLoseKeeps ==
  ASSUME Replay!ReplayAssumption, ReplayInv, NEW r \in Replays, Replay!Lose(r)
  PROVE  ReplayInv'
<1>1. PICK m \in Replay!Left(r) :
        \E t \in {directory[replay[r].id].report, Replay!Torn, Replay!Handled(r)}
                 \cup (IF replay[r].pc = "compared" THEN {Replay!VerdictReport(r)} ELSE {}) :
          /\ m.sealed => t = directory[replay[r].id].report
          /\ directory' = [directory EXCEPT ![replay[r].id] = [@ EXCEPT !.manifest = m, !.report = t]]
  BY Zenon DEF Replay!Lose
<1>2. PICK t \in {directory[replay[r].id].report, Replay!Torn, Replay!Handled(r)}
                 \cup (IF replay[r].pc = "compared" THEN {Replay!VerdictReport(r)} ELSE {}) :
        /\ m.sealed => t = directory[replay[r].id].report
        /\ directory' = [directory EXCEPT ![replay[r].id] = [@ EXCEPT !.manifest = m, !.report = t]]
  BY <1>1, Zenon
<1>3. PICK x : x = [replay[r] EXCEPT !.pc = "lost"]
  OBVIOUS
<1>4. PICK p : p = [directory[replay[r].id] EXCEPT !.manifest = m, !.report = t]
  OBVIOUS
<1>5. /\ Replay!Working(r) /\ UNCHANGED source /\ replay' = [replay EXCEPT ![r].pc = "lost"]
  BY DEF Replay!Lose
<1>6. /\ replay[r] \in ReplayState /\ StateOf(replay[r]) /\ replay[r].id \in Places /\ ~Before(replay[r])
      /\ directory[replay[r].id] \in Place /\ PlaceOf(replay[r], directory[replay[r].id])
  BY <1>5, ReplayIs DEF Before, Replay!Working
<1>7. t \in ReportRecord /\ (Sampled(t) => Sampled(replay[r].trained))
  <2>1. PICK v : v = Replay!VerdictReport(r)
    OBVIOUS
  <2>2. v \in ReportRecord /\ (Sampled(v) => Sampled(replay[r].trained))
    BY <1>6, <2>1 DEF Replay!VerdictReport, ReplayState, ReportRecord, Written, Sampled
  <2>3. t \in {directory[replay[r].id].report, Replay!Torn, Replay!Handled(r), v}
    BY <1>2, <2>1
  <2>4. directory[replay[r].id].report \in ReportRecord
    BY <1>6 DEF Place
  <2> QED BY <1>6, <2>2, <2>3, <2>4, FailuresAre DEF PlaceOf
<1>8. /\ x \in ReplayState /\ x.pc = "lost" /\ x.id = replay[r].id
      /\ x.trained = replay[r].trained /\ x.level = replay[r].level
  BY <1>3, <1>6 DEF ReplayState
<1>9. PICK q : q = [directory[replay[r].id] EXCEPT !.manifest = m]
  OBVIOUS
<1>10. m \in ManifestRecord /\ Truthful(q)
  BY <1>1, <1>5, <1>9, LeftIs
<1>11. /\ p \in Place /\ p.exists /\ p.report = t /\ p.manifest = m
       /\ q.manifest = m /\ q.report = directory[replay[r].id].report
  BY <1>4, <1>6, <1>7, <1>9, <1>10 DEF Place, PlaceOf
<1>12. Truthful(p)
  BY <1>2, <1>10, <1>11 DEF Truthful
<1>13. replay' = [replay EXCEPT ![r] = x] /\ directory' = [directory EXCEPT ![x.id] = p]
  <2>1. replay \in [Replays -> ReplayState] /\ directory \in [Places -> Place]
    BY DEF ReplayInv
  <2>2. replay' = [replay EXCEPT ![r] = x]
    BY <1>3, <1>5, <2>1
  <2>3. directory' = [directory EXCEPT ![x.id] = p]
    BY <1>2, <1>4, <1>8, <2>1
  <2> QED BY <2>2, <2>3
<1>14. StateOf(x) /\ ~Before(x) /\ PlaceOf(x, p)
  BY <1>6, <1>7, <1>8, <1>11, <1>12 DEF StateOf, PlaceOf, Before
<1> QED BY <1>5, <1>6, <1>8, <1>11, <1>13, <1>14, PlaceSteps

\* Every step keeps it.
LEMMA ReplayStepKeeps ==
  ASSUME Replay!ReplayAssumption, ReplayInv, [Replay!Next]_(Replay!reproductionVars)
  PROVE  ReplayInv'
<1>1. CASE Replay!Evaluate \/ Replay!Seal \/ Replay!Retrain
  BY <1>1, SourceKeeps
<1>2. ASSUME NEW r \in Replays, Replay!ReplayStep(r)
      PROVE  ReplayInv'
  <2>1. CASE Replay!Verify(r) \/ Replay!Snapshot(r) \/ Replay!NameTaken(r)
    BY <2>1, EarlyKeeps
  <2>2. CASE Replay!AllocateNext(r) \/ Replay!AllocateNamed(r)
    BY <2>2, TakenKeeps
  <2>3. CASE Replay!Train(r)
    BY <2>3, TrainKeeps
  <2>4. CASE Replay!Compare(r)
    BY <2>4, CompareKeeps
  <2>5. CASE Replay!WriteReport(r)
    BY <2>5, WriteReportKeeps
  <2>6. CASE Replay!WriteManifest(r)
    BY <2>6, WriteManifestKeeps
  <2>7. CASE Replay!Fail(r)
    BY <2>7, ReplayFailKeeps
  <2>8. CASE Replay!Lose(r)
    BY <2>8, ReplayLoseKeeps
  <2> QED BY <1>2, <2>1, <2>2, <2>3, <2>4, <2>5, <2>6, <2>7, <2>8 DEF Replay!ReplayStep
<1>3. CASE UNCHANGED Replay!reproductionVars
  BY <1>3 DEF Replay!reproductionVars, ReplayInv, Keepers
<1> QED BY <1>1, <1>2, <1>3 DEF Replay!Next

\* What it says of the properties.
LEMMA ReplayInvImplies ==
  ASSUME ReplayInv
  PROVE  Replay!TypeOK /\ Replay!ReplaysJustified
<1>1. Replay!TypeOK
  <2>1. \A r \in Replays : replay[r].id \in Places \cup {0} /\ replay[r].level \in Verdicts
    BY DEF ReplayInv, ReplayState
  <2>2. \A i \in Places : directory[i].manifest \in
                          [status : {"none", "torn", "completed", "failed"}, sealed : BOOLEAN]
    BY DEF ReplayInv, Place, ManifestRecord
  <2>3. source \in [version : 1..(MaxRenewals + 1), sealed : 0..(MaxRenewals + 1), metric : Metrics,
                    kind : {"training", "agent"}, consistent : BOOLEAN]
    BY DEF ReplayInv
  <2> QED BY <2>1, <2>2, <2>3, PlacesAre DEF Replay!TypeOK, Replay!Levels, Verdicts
<1>2. \A q, r \in Replays : q # r /\ replay[q].id # 0 => replay[q].id # replay[r].id
  BY DEF ReplayInv
<1>3. ASSUME NEW r \in Replays, replay[r].pc = "done"
      PROVE  /\ directory[replay[r].id].report.level = replay[r].level
             /\ Replay!Reproduced(r) =>
                  directory[replay[r].id].manifest = Replay!Manifest("completed", TRUE)
  <2>1. /\ PlaceOf(replay[r], directory[replay[r].id]) /\ directory[replay[r].id] \in Place
    BY <1>3, ReplayIs DEF Before
  <2>2. ASSUME Replay!Reproduced(r)
        PROVE  directory[replay[r].id].manifest = Replay!Manifest("completed", TRUE)
    <3>1. replay[r].level # "failed"
      BY <2>2 DEF Replay!Reproduced
    <3> QED BY <1>3, <2>1, <3>1 DEF PlaceOf, Place, ManifestRecord, Replay!Manifest
  <2> QED BY <1>3, <2>1, <2>2 DEF PlaceOf
<1>4. {q \in Replays : Replay!Comparable(q)} = Keepers
  BY DEF Keepers, Replay!Comparable, Sampled
<1>5. \A r \in Replays : replay[r].level = "statistical" => Cardinality(Keepers) >= Minimum
  BY DEF ReplayInv
<1>6. \A S : Replay!Cardinality(S) = Cardinality(S)
  BY PlacesAre
<1>7. ASSUME NEW i \in Places, directory[i].manifest.sealed, directory[i].report.level \in Replay!Levels
      PROVE  directory[i].manifest.status = "completed" <=> directory[i].report.level # "failed"
  <2>1. directory[i].exists
    BY <1>7 DEF ReplayInv
  <2>2. PICK q \in Replays : replay[q].id = i
    BY <2>1 DEF ReplayInv
  <2>3. Truthful(directory[i])
    BY <2>2 DEF ReplayInv, Places, PlaceOf
  <2> QED BY <1>7, <2>3 DEF Truthful, Replay!Levels
<1> QED BY <1>1, <1>2, <1>3, <1>4, <1>5, <1>6, <1>7, PlacesAre DEF Replay!ReplaysJustified

(***************************************************************************)
(* Whatever replays run at once, whatever becomes of their source run and  *)
(* whichever of their writes fail, those of the failure handler included   *)
(* (execute_training_replay): no two share a directory; each that returned *)
(* left its verdict there, and a manifest that verifies if it reproduced   *)
(* the run; a manifest that verifies beside a verdict says "completed" if  *)
(* and only if that is not "failed"; and one that reproduced the run by    *)
(* statistics is among at least Minimum that kept every invariant.         *)
(***************************************************************************)
THEOREM ReplaysStayJustified ==
  ASSUME Replay!ReplayAssumption
  PROVE  Replay!Spec => [](Replay!TypeOK /\ Replay!ReplaysJustified)
<1>1. Replay!Init => ReplayInv
  BY ReplayInit
<1>2. ReplayInv /\ [Replay!Next]_(Replay!reproductionVars) => ReplayInv'
  BY ReplayStepKeeps
<1>3. ReplayInv => Replay!TypeOK /\ Replay!ReplaysJustified
  BY ReplayInvImplies
<1> QED BY <1>1, <1>2, <1>3, PTL DEF Replay!Spec



-----------------------------------------------------------------------------
(***************************************************************************)
(* The universe and its snapshot.                                          *)
(***************************************************************************)
(***************************************************************************)
(* Positions.  The n-th of a finite set of numbers is its member with      *)
(* n - 1 smaller ones; there is one for every n up to its size.            *)
(***************************************************************************)
Smaller(S, i) == {j \in S : j < i}

\* There are finitely many files.
LEMMA FiniteFiles ==
  ASSUME Data!DataAssumption
  PROVE  IsFiniteSet(Files)
BY DEF Data!DataAssumption, Data!IsFiniteSet, IsFiniteSet

\* A larger member has more smaller ones.
LEMMA SmallerGrows ==
  ASSUME NEW S \in SUBSET Nat, IsFiniteSet(S), NEW i \in S, NEW j \in S, i < j
  PROVE  Cardinality(Smaller(S, i)) < Cardinality(Smaller(S, j))
<1>1. Smaller(S, i) \cup {i} \in SUBSET Smaller(S, j) /\ i \notin Smaller(S, i)
  <2>1. \A k \in S : k \in Nat
    OBVIOUS
  <2>2. (\A k \in S : k < i => k < j) /\ ~(i < i)
    BY <2>1
  <2> QED BY <2>2 DEF Smaller
<1>2. IsFiniteSet(Smaller(S, i)) /\ IsFiniteSet(Smaller(S, j))
  BY FS_Subset DEF Smaller
<1>3. Cardinality(Smaller(S, i) \cup {i}) = Cardinality(Smaller(S, i)) + 1
  BY <1>1, <1>2, FS_AddElement, Zenon
<1>4. Cardinality(Smaller(S, i) \cup {i}) <= Cardinality(Smaller(S, j))
  BY <1>1, <1>2, FS_Subset
<1> QED BY <1>2, <1>3, <1>4, FS_CardinalityType

\* Every n up to the size has its member, and every member its n.
LEMMA NthIs ==
  ASSUME NEW S \in SUBSET Nat, IsFiniteSet(S)
  PROVE  /\ \A n \in 1..Cardinality(S) : Data!Nth(n, S) \in S
         /\ \A i \in S : /\ Cardinality(Smaller(S, i)) + 1 \in 1..Cardinality(S)
                         /\ Data!Nth(Cardinality(Smaller(S, i)) + 1, S) = i
<1> DEFINE m == Cardinality(S)
           rank == [i \in S |-> Cardinality(Smaller(S, i)) + 1]
<1>1. m \in Nat
  BY FS_CardinalityType
<1>2. \A i \in S : Cardinality(Smaller(S, i)) \in 0..(m - 1)
  <2> SUFFICES ASSUME NEW i \in S
               PROVE  Cardinality(Smaller(S, i)) \in 0..(m - 1)
    OBVIOUS
  <2>1. Smaller(S, i) \in SUBSET (S \ {i})
    BY DEF Smaller
  <2>2. IsFiniteSet(S \ {i}) /\ Cardinality(S \ {i}) = m - 1
    BY FS_RemoveElement, Zenon
  <2>3. IsFiniteSet(Smaller(S, i)) /\ Cardinality(Smaller(S, i)) <= Cardinality(S \ {i})
    BY <2>1, <2>2, FS_Subset
  <2> QED BY <1>1, <2>2, <2>3, FS_CardinalityType
<1>3. rank \in [S -> 1..m]
  <2>1. \A i \in S : Cardinality(Smaller(S, i)) + 1 \in 1..m
    BY <1>1, <1>2
  <2> QED BY <2>1
<1>4. \A i, j \in S : rank[i] = rank[j] => i = j
  <2> SUFFICES ASSUME NEW i \in S, NEW j \in S, i < j
               PROVE  rank[i] # rank[j]
    OBVIOUS
  <2>1. Cardinality(Smaller(S, i)) < Cardinality(Smaller(S, j))
    BY SmallerGrows
  <2> QED BY <1>2, <2>1
<1>5. rank \in Surjection(S, 1..m)
  <2>1. rank \in Injection(S, 1..m)
    <3> HIDE DEF rank
    <3> QED BY <1>3, <1>4 DEF Injection, IsInjective
  <2>2. IsFiniteSet(1..m) /\ Cardinality(1..m) = m
    BY <1>1, FS_Interval
  <2> QED BY <2>1, <2>2, FS_Injection
<1>6. ASSUME NEW n \in 1..m
      PROVE  \E i \in S : Data!Cardinality({j \in S : j < i}) = n - 1
  <2>1. PICK i \in S : rank[i] = n
    BY <1>5 DEF Surjection
  <2>2. Cardinality({j \in S : j < i}) = n - 1
    BY <1>2, <2>1 DEF Smaller
  <2>3. Data!Cardinality({j \in S : j < i}) = Cardinality({j \in S : j < i})
    BY DEF Data!Cardinality, Cardinality
  <2> QED BY <2>2, <2>3
<1>7. \A n \in 1..m : Data!Nth(n, S) \in S
  BY <1>6 DEF Data!Nth
<1>8. ASSUME NEW i \in S
      PROVE  Data!Nth(Cardinality(Smaller(S, i)) + 1, S) = i
  <2> DEFINE n == Cardinality(Smaller(S, i)) + 1
             k == Data!Nth(n, S)
  <2>1. n \in 1..m /\ n = rank[i]
    BY <1>3
  <2>2. Data!Cardinality({j \in S : j < k}) = n - 1 /\ k \in S
    BY <1>6, <2>1 DEF Data!Nth
  <2>3. Data!Cardinality({j \in S : j < k}) = Cardinality(Smaller(S, k))
    BY DEF Data!Cardinality, Cardinality, Smaller
  <2> HIDE DEF k
  <2>4. rank[k] = rank[i]
    BY <1>2, <2>1, <2>2, <2>3
  <2> QED BY <1>4, <2>2, <2>4 DEF k
<1> QED BY <1>3, <1>7, <1>8


(***************************************************************************)
(* The rows known at the cutoff are the rows of the known positions; of    *)
(* rows that are all known they are all; and later rows add none.          *)
(***************************************************************************)
LEMMA SelectionIs ==
  ASSUME Data!DataAssumption, NEW rows \in Seq(Data!Row)
  PROVE  /\ Data!Selection(rows) \in Seq(Data!Row)
         /\ \A n \in 1..Len(Data!Selection(rows)) :
              \E i \in Data!KnownRows(rows) : Data!Selection(rows)[n] = rows[i]
         /\ \A i \in Data!KnownRows(rows) :
              \E n \in 1..Len(Data!Selection(rows)) : Data!Selection(rows)[n] = rows[i]
<1> DEFINE S == Data!KnownRows(rows)
           m == Cardinality(S)
<1>1. S \in SUBSET Nat /\ IsFiniteSet(S) /\ S \subseteq 1..Len(rows)
  <2>1. Len(rows) \in Nat
    OBVIOUS
  <2>2. IsFiniteSet(1..Len(rows)) /\ S \in SUBSET (1..Len(rows))
    BY <2>1, FS_Interval DEF Data!KnownRows
  <2> QED BY <2>1, <2>2, FS_Subset
<1>2. m \in Nat
  BY <1>1, FS_CardinalityType
<1>3. /\ \A n \in 1..m : Data!Nth(n, S) \in S
      /\ \A i \in S : /\ Cardinality(Smaller(S, i)) + 1 \in 1..m
                      /\ Data!Nth(Cardinality(Smaller(S, i)) + 1, S) = i
  BY <1>1, NthIs
<1>4. Data!Selection(rows) = [n \in 1..m |-> rows[Data!Nth(n, S)]]
  BY DEF Data!Selection, Data!Cardinality, Cardinality
<1> HIDE DEF S, m
<1>5. \A i \in S : rows[i] \in Data!Row
  BY <1>1
<1>6. Data!Selection(rows) \in Seq(Data!Row)
  BY <1>2, <1>3, <1>4, <1>5
<1>7. Len(Data!Selection(rows)) = m
  BY <1>2, <1>4, <1>6
<1> QED BY <1>3, <1>4, <1>6, <1>7 DEF S

LEMMA SelectionOfKnown ==
  ASSUME Data!DataAssumption, NEW rows \in Seq(Data!Row), \A i \in 1..Len(rows) : rows[i].day <= Cutoff
  PROVE  Data!Selection(rows) = rows
<1> DEFINE S == Data!KnownRows(rows)
           m == Len(rows)
<1>1. m \in Nat /\ S = 1..m
  BY DEF Data!KnownRows
<1>2. IsFiniteSet(S) /\ Cardinality(S) = m
  <2> HIDE DEF m
  <2>1. IsFiniteSet(1..m) /\ Cardinality(1..m) = IF 1 > m THEN 0 ELSE m - 1 + 1
    BY <1>1, FS_Interval
  <2> QED BY <1>1, <2>1
<1>3. ASSUME NEW n \in 1..m
      PROVE  Data!Nth(n, S) = n
  <2>1. Smaller(S, n) = 1..(n - 1)
    BY <1>1 DEF Smaller
  <2>2. n - 1 \in Int /\ Cardinality(1..(n - 1)) = n - 1
    BY FS_Interval
  <2>3. Cardinality(Smaller(S, n)) + 1 = n
    BY <2>1, <2>2
  <2>4. S \in SUBSET Nat /\ n \in S
    BY <1>1
  <2> QED BY <1>2, <2>3, <2>4, NthIs
<1>4. Data!Selection(rows) = [n \in 1..m |-> rows[Data!Nth(n, S)]]
  BY <1>2 DEF Data!Selection, Data!Cardinality, Cardinality
<1>5. Data!Selection(rows) = [n \in 1..m |-> rows[n]]
  BY <1>3, <1>4
<1> QED BY <1>1, <1>5

LEMMA SelectionTwice ==
  ASSUME Data!DataAssumption, NEW rows \in Seq(Data!Row)
  PROVE  Data!Selection(Data!Selection(rows)) = Data!Selection(rows)
<1> DEFINE known == Data!Selection(rows)
<1>1. known \in Seq(Data!Row)
  BY SelectionIs
<1>2. ASSUME NEW n \in 1..Len(known)
      PROVE  known[n].day <= Cutoff
  <2>1. PICK i \in Data!KnownRows(rows) : known[n] = rows[i]
    BY SelectionIs
  <2> QED BY <2>1 DEF Data!KnownRows
<1> HIDE DEF known
<1>3. Data!Selection(known) = known
  BY <1>1, <1>2, SelectionOfKnown
<1> QED BY <1>3 DEF known

LEMMA SelectionOfPrefix ==
  ASSUME Data!DataAssumption, NEW rows \in Seq(Data!Row), NEW m \in 0..Len(rows),
         \A i \in (m + 1)..Len(rows) : ~(rows[i].day <= Cutoff)
  PROVE  Data!Selection(SubSeq(rows, 1, m)) = Data!Selection(rows)
<1> DEFINE front == SubSeq(rows, 1, m)
<1>1. front \in Seq(Data!Row) /\ Len(front) = m /\ \A i \in 1..m : front[i] = rows[i]
  OBVIOUS
<1> HIDE DEF front
<1>2. Data!KnownRows(front) = Data!KnownRows(rows)
  BY <1>1 DEF Data!KnownRows
<1>3. \A i \in Data!KnownRows(rows) : front[i] = rows[i]
  BY <1>1, <1>2 DEF Data!KnownRows
<1>4. \A n \in 1..Cardinality(Data!KnownRows(rows)) : Data!Nth(n, Data!KnownRows(rows)) \in Data!KnownRows(rows)
  <2>1. Len(rows) \in Nat /\ Data!KnownRows(rows) \in SUBSET (1..Len(rows))
    BY DEF Data!KnownRows
  <2>2. IsFiniteSet(Data!KnownRows(rows)) /\ Data!KnownRows(rows) \in SUBSET Nat
    <3>1. IsFiniteSet(1..Len(rows)) /\ 1..Len(rows) \in SUBSET Nat
      BY <2>1, FS_Interval
    <3>2. IsFiniteSet(Data!KnownRows(rows))
      BY <2>1, <3>1, FS_Subset
    <3> QED BY <2>1, <3>1, <3>2
  <2> QED BY <2>2, NthIs
<1>5. Data!Cardinality(Data!KnownRows(rows)) = Cardinality(Data!KnownRows(rows))
  BY DEF Data!Cardinality, Cardinality
<1>6. Data!Selection(front) = Data!Selection(rows)
  BY <1>2, <1>3, <1>4, <1>5 DEF Data!Selection
<1> QED BY <1>6 DEF front

\* Rows of which none goes back are in order of their days.
LEMMA InOrder ==
  ASSUME NEW rows \in Seq(Data!Row), Data!Backwards(rows) = {}
  PROVE  \A i, j \in 1..Len(rows) : i <= j => rows[i].day <= rows[j].day
<1> SUFFICES ASSUME NEW i \in 1..Len(rows), \E j \in 1..Len(rows) : i <= j /\ rows[j].day < rows[i].day
             PROVE  FALSE
  <2>1. \A k \in 1..Len(rows) : rows[k] \in Data!Row
    OBVIOUS
  <2>2. \A k \in 1..Len(rows) : rows[k].day \in Nat
    BY <2>1 DEF Data!Row
  <2> QED BY <2>2
<1> DEFINE late == {j \in 1..Len(rows) : i <= j /\ rows[j].day < rows[i].day}
<1>0. Len(rows) \in Nat /\ \A k \in 1..Len(rows) : rows[k].day \in Nat
  <2>1. \A k \in 1..Len(rows) : rows[k] \in Data!Row
    OBVIOUS
  <2> QED BY <2>1 DEF Data!Row
<1>1. PICK j \in late : \A k \in late : <<k, j>> \notin OpToRel(<, Nat)
  <2>1. late \in SUBSET Nat /\ late # {}
    OBVIOUS
  <2> HIDE DEF late
  <2> QED BY <2>1, NatLessThanWellFounded, WFMin
<1>2. i < j /\ j - 1 \in 1..Len(rows) /\ i <= j - 1
  BY <1>0
<1>3. j - 1 \notin late
  <2>1. j - 1 \in Nat /\ j \in Nat /\ j - 1 < j
    BY <1>2
  <2>2. <<j - 1, j>> \in OpToRel(<, Nat)
    BY <2>1 DEF OpToRel
  <2> QED BY <1>1, <2>2
<1>4. rows[j].day < rows[j - 1].day
  BY <1>0, <1>2, <1>3
<1>5. j \in Data!Backwards(rows)
  BY <1>2, <1>4 DEF Data!Backwards
<1> QED BY <1>5


\* The least of a set of numbers that is not empty is one of them.
LEMMA LeastIs ==
  ASSUME NEW S \in SUBSET Nat, S # {}
  PROVE  Data!Min(S) \in S /\ \A i \in S : Data!Min(S) <= i
<1>1. PICK l \in S : \A i \in S : <<i, l>> \notin OpToRel(<, Nat)
  BY NatLessThanWellFounded, WFMin
<1>2. \A i \in S : l <= i
  <2> SUFFICES ASSUME NEW i \in S
               PROVE  l <= i
    OBVIOUS
  <2>1. i \in Nat /\ l \in Nat
    OBVIOUS
  <2>2. ~(i < l)
    BY <1>1, <2>1 DEF OpToRel
  <2> QED BY <2>1, <2>2
<1> QED BY <1>2 DEF Data!Min

\* A front of rows of which none goes back or occurs twice is as good.
LEMMA FrontIs ==
  ASSUME NEW rows \in Seq(Data!Row), NEW m \in 0..Len(rows), ~Data!Disordered(rows),
         \A i \in 1..m : rows[i].good
  PROVE  Data!Valid(SubSeq(rows, 1, m))
<1> DEFINE front == SubSeq(rows, 1, m)
<1>1. Len(front) = m /\ \A i \in 1..m : front[i] = rows[i]
  OBVIOUS
<1>2. m \in Nat /\ Len(rows) \in Nat /\ m <= Len(rows)
  OBVIOUS
<1> HIDE DEF front
<1>3. Data!Bad(front) = {}
  BY <1>1 DEF Data!Bad
<1>4. Data!Backwards(rows) = {} /\ Data!Twice(rows) = {}
  BY DEF Data!Disordered
<1>5. Data!Backwards(front) = {}
  <2> SUFFICES ASSUME NEW i \in 2..m, front[i].day < front[i - 1].day
               PROVE  FALSE
    BY <1>1 DEF Data!Backwards
  <2>1. i \in 2..Len(rows) /\ i \in 1..m /\ i - 1 \in 1..m
    BY <1>2
  <2>2. rows[i].day < rows[i - 1].day
    BY <1>1, <2>1
  <2> QED BY <1>4, <2>1, <2>2 DEF Data!Backwards
<1>6. Data!Twice(front) = {}
  <2> SUFFICES ASSUME NEW i \in 1..m, NEW j \in 1..m, j # i, front[j].day = front[i].day
               PROVE  FALSE
    BY <1>1 DEF Data!Twice
  <2>1. i \in 1..Len(rows) /\ j \in 1..Len(rows)
    BY <1>2
  <2>2. rows[j].day = rows[i].day
    BY <1>1
  <2> QED BY <1>4, <2>1, <2>2 DEF Data!Twice
<1>7. Data!Valid(front)
  BY <1>3, <1>5, <1>6 DEF Data!Valid, Data!Invalid
<1> QED BY <1>7 DEF front

(***************************************************************************)
(* What is accepted of a source that is eligible at the cutoff is sound    *)
(* and keeps every row known then, whatever its later rows are.            *)
(***************************************************************************)
LEMMA AcceptedIs ==
  ASSUME Data!DataAssumption, NEW rows \in Seq(Data!Row), Data!Eligible(rows)
  PROVE  /\ Data!Valid(Data!AcceptedRows(rows))
         /\ Data!Selection(Data!AcceptedRows(rows)) = Data!Selection(rows)
<1>1. Data!Valid(Data!Selection(rows))
  BY DEF Data!Eligible
<1>2. CASE Data!Disordered(rows)
  BY <1>1, <1>2, SelectionTwice DEF Data!AcceptedRows
<1>3. CASE ~Data!Disordered(rows) /\ Data!Valid(rows)
  BY <1>3 DEF Data!AcceptedRows, Data!PrefixAccepted
<1>4. CASE ~Data!Disordered(rows) /\ ~Data!Valid(rows)
  <2> DEFINE k == Data!Min(Data!Bad(rows))
             m == k - 1
  <2>1. Data!Backwards(rows) = {} /\ Data!Invalid(rows) = Data!Bad(rows) /\ Data!Bad(rows) # {}
    BY <1>4 DEF Data!Disordered, Data!Invalid, Data!Valid
  <2>2. Len(rows) \in Nat /\ Data!Bad(rows) \in SUBSET (1..Len(rows))
    BY DEF Data!Bad
  <2>3. k \in Data!Bad(rows) /\ \A i \in Data!Bad(rows) : k <= i
    <3>1. Data!Bad(rows) \in SUBSET Nat
      BY <2>2
    <3> QED BY <2>1, <3>1, LeastIs
  <2>4. Data!AcceptedRows(rows) = SubSeq(rows, 1, m)
    BY <1>4, <2>1 DEF Data!AcceptedRows, Data!PrefixAccepted
  <2> HIDE DEF k
  <2>5. k \in 1..Len(rows) /\ m \in 0..Len(rows) /\ ~rows[k].good
    BY <2>2, <2>3 DEF Data!Bad
  <2>6. \A i \in 1..m : rows[i].good
    <3> SUFFICES ASSUME NEW i \in 1..m, ~rows[i].good
                 PROVE  FALSE
      OBVIOUS
    <3>1. i \in 1..Len(rows) /\ i < k
      BY <2>2, <2>5
    <3>2. i \in Data!Bad(rows)
      BY <3>1 DEF Data!Bad
    <3> QED BY <2>3, <2>5, <3>1, <3>2
  <2>7. ~(rows[k].day <= Cutoff)
    <3> SUFFICES ASSUME rows[k].day <= Cutoff
                 PROVE  FALSE
      OBVIOUS
    <3>1. k \in Data!KnownRows(rows)
      BY <2>5 DEF Data!KnownRows
    <3>2. PICK n \in 1..Len(Data!Selection(rows)) : Data!Selection(rows)[n] = rows[k]
      BY <3>1, SelectionIs
    <3>3. n \in Data!Bad(Data!Selection(rows))
      BY <2>5, <3>2 DEF Data!Bad
    <3> QED BY <1>1, <3>3 DEF Data!Valid, Data!Invalid
  <2>8. \A i \in (m + 1)..Len(rows) : ~(rows[i].day <= Cutoff)
    <3> SUFFICES ASSUME NEW i \in (m + 1)..Len(rows)
                 PROVE  ~(rows[i].day <= Cutoff)
      OBVIOUS
    <3>1. i \in 1..Len(rows) /\ k <= i
      BY <2>2, <2>5
    <3>2. rows[k].day <= rows[i].day
      BY <2>1, <2>5, <3>1, InOrder
    <3>3. rows[k] \in Data!Row /\ rows[i] \in Data!Row
      BY <2>5, <3>1
    <3>4. rows[k].day \in Nat /\ rows[i].day \in Nat /\ Cutoff \in Nat
      BY <3>3 DEF Data!Row, Data!DataAssumption
    <3> QED BY <2>7, <3>2, <3>4
  <2> HIDE DEF m
  <2> QED BY <1>4, <2>4, <2>5, <2>6, <2>8, FrontIs, SelectionOfPrefix
<1> QED BY <1>2, <1>3, <1>4


\* Of the eligible sources of a symbol one is preferred: the order is total.
LEMMA PreferredIs ==
  ASSUME Data!DataAssumption, NEW rows \in [Files -> Seq(Data!Row)], NEW s \in Data!EligibleSymbols(rows)
  PROVE  /\ Data!Preferred(rows, s) \in Files
         /\ SymbolOf[Data!Preferred(rows, s)] = s
         /\ Data!Eligible(rows[Data!Preferred(rows, s)])
         /\ \A g \in Files : SymbolOf[g] = s /\ Data!Eligible(rows[g]) =>
              \/ Len(Data!Selection(rows[Data!Preferred(rows, s)])) > Len(Data!Selection(rows[g]))
              \/ /\ Len(Data!Selection(rows[Data!Preferred(rows, s)])) = Len(Data!Selection(rows[g]))
                 /\ Data!Preferred(rows, s) <= g
<1> DEFINE candidates == {f \in Files : SymbolOf[f] = s /\ Data!Eligible(rows[f])}
           known == [f \in Files |-> Len(Data!Selection(rows[f]))]
           Better(f) == {g \in candidates : known[g] > known[f] \/ (known[g] = known[f] /\ g < f)}
           counts == {Cardinality(Better(f)) : f \in candidates}
<1>1. \A f \in Files : known[f] \in Nat /\ f \in Nat
  <2>1. \A f \in Files : Data!Selection(rows[f]) \in Seq(Data!Row)
    BY SelectionIs
  <2> QED BY <2>1 DEF Data!DataAssumption
<1>2. candidates # {}
  BY DEF Data!EligibleSymbols
<1>3. \A f \in candidates : IsFiniteSet(Better(f))
  <2>1. IsFiniteSet(Files) /\ \A f \in candidates : Better(f) \in SUBSET Files
    BY FiniteFiles
  <2> HIDE DEF Better, candidates
  <2> QED BY <2>1, FS_Subset
<1>4. counts \in SUBSET Nat /\ counts # {}
  <2>1. \A f \in candidates : Cardinality(Better(f)) \in Nat
    BY <1>3, FS_CardinalityType
  <2> HIDE DEF Better, candidates
  <2> QED BY <1>2, <2>1
<1>5. PICK f \in candidates : \A g \in candidates : Cardinality(Better(f)) <= Cardinality(Better(g))
  <2>1. Data!Min(counts) \in counts /\ \A c \in counts : Data!Min(counts) <= c
    <3> HIDE DEF counts
    <3> QED BY <1>4, LeastIs
  <2> HIDE DEF Better, candidates
  <2> QED BY <2>1
<1>6. Better(f) = {}
  <2> SUFFICES ASSUME NEW g \in Better(f)
               PROVE  FALSE
    OBVIOUS
  <2>1. g \in candidates /\ f \in Files /\ g \in Files
    OBVIOUS
  <2>2. Better(g) \cup {g} \in SUBSET Better(f)
    <3>1. ASSUME NEW h \in Better(g)
          PROVE  h \in Better(f)
      <4>1. h \in candidates /\ h \in Files
        OBVIOUS
      <4>2. known[h] \in Nat /\ known[g] \in Nat /\ known[f] \in Nat /\ h \in Nat /\ g \in Nat /\ f \in Nat
        BY <1>1, <2>1, <4>1
      <4>3. known[g] > known[f] \/ (known[g] = known[f] /\ g < f)
        OBVIOUS
      <4>4. known[h] > known[g] \/ (known[h] = known[g] /\ h < g)
        OBVIOUS
      <4> HIDE DEF known
      <4>5. known[h] > known[f] \/ (known[h] = known[f] /\ h < f)
        BY <4>2, <4>3, <4>4
      <4> QED BY <4>1, <4>5
    <3> QED BY <3>1
  <2>3. g \notin Better(g)
    <3>1. known[g] \in Nat /\ g \in Nat
      BY <1>1, <2>1
    <3> HIDE DEF known
    <3>2. ~(known[g] > known[g]) /\ ~(g < g)
      BY <3>1
    <3> QED BY <3>2
  <2> HIDE DEF Better, candidates
  <2>4. Cardinality(Better(g) \cup {g}) = Cardinality(Better(g)) + 1
    BY <1>3, <2>1, <2>3, FS_AddElement, Zenon
  <2>5. Cardinality(Better(g) \cup {g}) <= Cardinality(Better(f))
    BY <1>3, <2>2, FS_Subset
  <2>6. Cardinality(Better(g)) \in Nat /\ Cardinality(Better(f)) \in Nat
    BY <1>3, <2>1, FS_CardinalityType
  <2>7. Cardinality(Better(f)) <= Cardinality(Better(g))
    BY <1>5, <2>1
  <2> QED BY <2>4, <2>5, <2>6, <2>7
<1>7. \A g \in candidates : known[f] > known[g] \/ (known[f] = known[g] /\ f <= g)
  <2> SUFFICES ASSUME NEW g \in candidates
               PROVE  known[f] > known[g] \/ (known[f] = known[g] /\ f <= g)
    OBVIOUS
  <2>1. ~(known[g] > known[f] \/ (known[g] = known[f] /\ g < f))
    BY <1>6
  <2>2. known[g] \in Nat /\ known[f] \in Nat /\ g \in Nat /\ f \in Nat
    BY <1>1
  <2> HIDE DEF known
  <2> QED BY <2>1, <2>2
<1>8. Data!Preferred(rows, s) =
        CHOOSE h \in candidates :
          \A g \in candidates : known[h] > known[g] \/ (known[h] = known[g] /\ h <= g)
  BY DEF Data!Preferred
<1>9. PICK p : p = Data!Preferred(rows, s)
  OBVIOUS
<1>10. /\ p \in candidates
       /\ \A g \in candidates : known[p] > known[g] \/ (known[p] = known[g] /\ p <= g)
  <2> HIDE DEF candidates, known
  <2> QED BY <1>7, <1>8, <1>9
<1> QED BY <1>9, <1>10

\* The universe is made of what was known at the cutoff.
LEMMA UniverseLooksBack ==
  ASSUME Data!DataAssumption, NEW rows \in [Files -> Seq(Data!Row)], NEW known,
         known = [f \in Files |-> Data!Selection(rows[f])]
  PROVE  Data!Universe(known) = Data!Universe(rows)
         /\ Data!TrainingSymbols(known) = Data!TrainingSymbols(rows)
<1>1. \A f \in Files : Data!Selection(known[f]) = Data!Selection(rows[f])
  BY SelectionTwice
<1>2. \A f \in Files : Data!Eligible(known[f]) <=> Data!Eligible(rows[f])
  BY <1>1 DEF Data!Eligible
<1>3. Data!EligibleSymbols(known) = Data!EligibleSymbols(rows)
  BY <1>2 DEF Data!EligibleSymbols
<1>4. Data!SelectedSymbols(known) = Data!SelectedSymbols(rows)
  BY <1>3 DEF Data!SelectedSymbols
<1>5. ASSUME NEW s \in Data!EligibleSymbols(rows)
      PROVE  Data!Preferred(known, s) = Data!Preferred(rows, s)
  <2>1. known \in [Files -> Seq(Data!Row)]
    BY SelectionIs
  <2>2. PICK p, q : p = Data!Preferred(known, s) /\ q = Data!Preferred(rows, s)
    OBVIOUS
  <2>3. /\ p \in Files /\ SymbolOf[p] = s /\ Data!Eligible(known[p])
        /\ \A g \in Files : SymbolOf[g] = s /\ Data!Eligible(known[g]) =>
             \/ Len(Data!Selection(known[p])) > Len(Data!Selection(known[g]))
             \/ Len(Data!Selection(known[p])) = Len(Data!Selection(known[g])) /\ p <= g
    <3>1. s \in Data!EligibleSymbols(known)
      BY <1>3
    <3>2. /\ Data!Preferred(known, s) \in Files /\ SymbolOf[Data!Preferred(known, s)] = s
          /\ Data!Eligible(known[Data!Preferred(known, s)])
          /\ \A g \in Files : SymbolOf[g] = s /\ Data!Eligible(known[g]) =>
               \/ Len(Data!Selection(known[Data!Preferred(known, s)])) > Len(Data!Selection(known[g]))
               \/ /\ Len(Data!Selection(known[Data!Preferred(known, s)])) = Len(Data!Selection(known[g]))
                  /\ Data!Preferred(known, s) <= g
      BY <2>1, <3>1, PreferredIs
    <3> QED BY <2>2, <3>2
  <2>4. /\ q \in Files /\ SymbolOf[q] = s /\ Data!Eligible(rows[q])
        /\ \A g \in Files : SymbolOf[g] = s /\ Data!Eligible(rows[g]) =>
             \/ Len(Data!Selection(rows[q])) > Len(Data!Selection(rows[g]))
             \/ Len(Data!Selection(rows[q])) = Len(Data!Selection(rows[g])) /\ q <= g
    BY <2>2, PreferredIs
  <2>5. PICK a, b : a = Len(Data!Selection(rows[p])) /\ b = Len(Data!Selection(rows[q]))
    OBVIOUS
  <2>6. a > b \/ (a = b /\ p <= q)
    BY <1>1, <1>2, <2>3, <2>4, <2>5
  <2>7. b > a \/ (b = a /\ q <= p)
    BY <1>1, <1>2, <2>3, <2>4, <2>5
  <2>8. a \in Nat /\ b \in Nat /\ p \in Nat /\ q \in Nat
    <3>1. Data!Selection(rows[p]) \in Seq(Data!Row) /\ Data!Selection(rows[q]) \in Seq(Data!Row)
      BY <2>3, <2>4, SelectionIs
    <3> QED BY <2>3, <2>4, <2>5, <3>1 DEF Data!DataAssumption
  <2>9. p = q
    BY <2>6, <2>7, <2>8
  <2> QED BY <2>2, <2>9
<1>6. Data!SelectedSymbols(rows) \subseteq Data!EligibleSymbols(rows)
  BY DEF Data!SelectedSymbols, Data!FirstOf
<1> QED BY <1>4, <1>5, <1>6 DEF Data!Universe, Data!TrainingSymbols


(***************************************************************************)
(* The invariant.  An inventory is what its files came to; whatever a      *)
(* builder has copied is what was accepted, of the chosen sources it no    *)
(* longer has to copy; and the snapshot is all of it.                      *)
(***************************************************************************)
Copying(x) ==
  /\ DOMAIN x.copied \cup x.left = inventory.chosen
  /\ x.copied = [f \in DOMAIN x.copied |-> inventory.accepted[f]]

InventoryIs ==
  /\ inventory.digest \in [Files -> Seq(Data!Row)]
  /\ inventory.chosen = Data!Universe(inventory.digest)
  /\ inventory.accepted = [f \in Files |-> Data!AcceptedRows(inventory.digest[f])]
  /\ inventory.training = Data!TrainingSymbols(inventory.digest)
  /\ inventory.heldOut = Data!SelectedSymbols(inventory.digest) \ inventory.training

DataInv ==
  /\ files \in [Files -> Seq(Data!Row)] /\ replaced \in 0..MaxReplaced
  /\ inventory.exists => InventoryIs
  /\ ~inventory.exists => inventory = Data!NoInventory /\ ~snapshot.exists
  /\ snapshot.exists => snapshot.rows = [f \in inventory.chosen |-> inventory.accepted[f]]
  /\ DOMAIN copier = Builders
  /\ \A b \in Builders :
       /\ copier[b] = [pc |-> copier[b].pc, left |-> copier[b].left, copied |-> copier[b].copied]
       /\ copier[b].pc = "idle" => copier[b] = Data!Idle
       /\ copier[b].pc = "copying" => inventory.exists /\ Copying(copier[b])
       /\ copier[b].left \subseteq inventory.chosen

\* It holds to begin with.
LEMMA DataInit ==
  ASSUME Data!DataAssumption, Data!Init
  PROVE  DataInv
<1>1. files \in [Files -> Seq(Data!Row)] /\ replaced \in 0..MaxReplaced
  BY DEF Data!Init, Data!DataAssumption
<1>2. /\ inventory = Data!NoInventory /\ ~inventory.exists /\ inventory.chosen = {}
      /\ snapshot.exists = FALSE
  BY DEF Data!Init, Data!NoInventory
<1>3. /\ Data!Idle.pc = "idle" /\ Data!Idle.left = {}
      /\ Data!Idle = [pc |-> Data!Idle.pc, left |-> Data!Idle.left, copied |-> Data!Idle.copied]
  BY DEF Data!Idle
<1>4. copier = [b \in Builders |-> Data!Idle]
  BY DEF Data!Init
<1> QED BY <1>1, <1>2, <1>3, <1>4 DEF DataInv

\* The sources chosen are files, and each is eligible.
LEMMA ChosenIs ==
  ASSUME Data!DataAssumption, NEW rows \in [Files -> Seq(Data!Row)], NEW f \in Data!Universe(rows)
  PROVE  f \in Files /\ Data!Eligible(rows[f])
<1>1. PICK s \in Data!SelectedSymbols(rows) : f = Data!Preferred(rows, s)
  BY DEF Data!Universe
<1>2. s \in Data!EligibleSymbols(rows)
  BY DEF Data!SelectedSymbols, Data!FirstOf
<1> QED BY <1>1, <1>2, PreferredIs

\* The inventory.
LEMMA InventoryKeeps ==
  ASSUME Data!DataAssumption, DataInv, Data!BuildSourceInventory
  PROVE  DataInv'
<1>1. /\ ~inventory.exists /\ UNCHANGED <<files, snapshot, copier, replaced>>
      /\ inventory' = [exists   |-> TRUE,
                       digest   |-> files,
                       chosen   |-> Data!Universe(files),
                       accepted |-> [f \in Files |-> Data!AcceptedRows(files[f])],
                       training |-> Data!TrainingSymbols(files),
                       heldOut  |-> Data!SelectedSymbols(files) \ Data!TrainingSymbols(files)]
  BY DEF Data!BuildSourceInventory
<1>2. inventory'.exists /\ InventoryIs'
  <2>1. files \in [Files -> Seq(Data!Row)]
    BY DEF DataInv
  <2> QED BY <1>1, <2>1 DEF InventoryIs
<1>3. inventory.chosen = {} /\ ~snapshot.exists
  BY <1>1 DEF DataInv, Data!NoInventory
<1>4. ASSUME NEW b \in Builders
      PROVE  /\ copier[b] = [pc |-> copier[b].pc, left |-> copier[b].left, copied |-> copier[b].copied]
             /\ copier[b].pc = "idle" => copier[b] = Data!Idle
             /\ copier[b].pc # "copying" /\ copier[b].left \subseteq inventory'.chosen
  BY <1>1, <1>3 DEF DataInv
<1> QED BY <1>1, <1>2, <1>3, <1>4 DEF DataInv

\* A source that changes after it.
LEMMA SourceChangeKeeps ==
  ASSUME Data!DataAssumption, DataInv, Data!ChangeSource
  PROVE  DataInv'
<1>1. /\ replaced < MaxReplaced /\ replaced' = replaced + 1
      /\ UNCHANGED <<inventory, snapshot, copier>>
  BY DEF Data!ChangeSource
<1>2. PICK f \in Files : files[f] # <<>> /\ files' = [files EXCEPT ![f] = Tail(@)]
  BY DEF Data!ChangeSource
<1>3. files' \in [Files -> Seq(Data!Row)]
  <2>1. files \in [Files -> Seq(Data!Row)]
    BY DEF DataInv
  <2>2. Tail(files[f]) \in Seq(Data!Row)
    BY <1>2, <2>1
  <2> QED BY <1>2, <2>1, <2>2
<1>4. replaced' \in 0..MaxReplaced
  BY <1>1 DEF DataInv, Data!DataAssumption
<1> QED BY <1>1, <1>3, <1>4 DEF DataInv, Copying, InventoryIs

\* A builder that does not touch the snapshot.
LEMMA BuilderSteps ==
  ASSUME DataInv, NEW b \in Builders, NEW x,
         copier' = [copier EXCEPT ![b] = x],
         x = [pc |-> x.pc, left |-> x.left, copied |-> x.copied],
         x.pc # "idle", x.pc = "copying" => inventory.exists /\ Copying(x),
         x.left \subseteq inventory.chosen,
         UNCHANGED <<files, inventory, replaced>>,
         UNCHANGED snapshot \/
           (inventory.exists /\ snapshot'.rows = [f \in inventory.chosen |-> inventory.accepted[f]])
  PROVE  DataInv'
<1>1. DOMAIN copier' = Builders /\ \A c \in Builders : copier'[c] = IF c = b THEN x ELSE copier[c]
  BY DEF DataInv
<1>2. ASSUME NEW c \in Builders
      PROVE  /\ copier'[c] = [pc |-> copier'[c].pc, left |-> copier'[c].left, copied |-> copier'[c].copied]
             /\ copier'[c].pc = "idle" => copier'[c] = Data!Idle
             /\ copier'[c].pc = "copying" => inventory.exists /\ Copying(copier'[c])
             /\ copier'[c].left \subseteq inventory.chosen
  <2>1. CASE c = b
    BY <1>1, <2>1
  <2>2. CASE c # b
    BY <1>1, <2>2 DEF DataInv
  <2> QED BY <2>1, <2>2
<1>3. \A c \in Builders : Copying(copier'[c]) => Copying(copier[c])'
  BY DEF Copying
<1>4. InventoryIs => InventoryIs'
  BY DEF InventoryIs
<1> QED BY <1>1, <1>2, <1>3, <1>4 DEF DataInv


\* A build of the snapshot, step by step.
LEMMA SnapshotKeeps ==
  ASSUME Data!DataAssumption, DataInv, NEW b \in Builders,
         \/ Data!BeginSnapshot(b) \/ (\E f \in Files : Data!CopySource(b, f))
         \/ Data!Publish(b) \/ Data!Abort(b)
  PROVE  DataInv'
<1>1. /\ DOMAIN copier = Builders
      /\ copier[b] = [pc |-> copier[b].pc, left |-> copier[b].left, copied |-> copier[b].copied]
      /\ copier[b].pc = "idle" => copier[b] = Data!Idle
      /\ copier[b].pc = "copying" => inventory.exists /\ Copying(copier[b])
      /\ copier[b].left \subseteq inventory.chosen
  BY DEF DataInv
<1>2. CASE Data!BeginSnapshot(b)
  <2>1. PICK x : x = [copier[b] EXCEPT !.pc = "copying", !.left = inventory.chosen]
    OBVIOUS
  <2>2. /\ copier[b] = Data!Idle /\ inventory.exists
        /\ UNCHANGED <<files, inventory, snapshot, replaced>>
    BY <1>1, <1>2 DEF Data!BeginSnapshot
  <2>3. copier' = [copier EXCEPT ![b] = x]
    BY <1>1, <1>2, <2>1 DEF Data!BeginSnapshot
  <2>4. x = [pc |-> "copying", left |-> inventory.chosen, copied |-> [f \in {} |-> <<>>]]
    <3>1. PICK k : k = [f \in {} |-> <<>>]
      OBVIOUS
    <3>2. copier[b] = [pc |-> "idle", left |-> {}, copied |-> k]
      BY <2>2, <3>1 DEF Data!Idle
    <3>3. x = [pc |-> "copying", left |-> inventory.chosen, copied |-> k]
      <4>1. PICK y : y = [copier[b] EXCEPT !.pc = "copying"]
        OBVIOUS
      <4>2. y = [pc |-> "copying", left |-> {}, copied |-> k]
        BY <3>2, <4>1
      <4>3. x = [y EXCEPT !.left = inventory.chosen]
        BY <2>1, <4>1, Zenon
      <4> QED BY <4>2, <4>3
    <3> QED BY <3>1, <3>3
  <2>5. Copying(x)
    <3>1. DOMAIN x.copied = {} /\ x.left = inventory.chosen
      BY <2>4
    <3>2. x.copied = [f \in {} |-> inventory.accepted[f]]
      BY <2>4
    <3> QED BY <3>1, <3>2 DEF Copying
  <2>6. /\ x = [pc |-> x.pc, left |-> x.left, copied |-> x.copied] /\ x.pc = "copying"
        /\ x.left \subseteq inventory.chosen
    BY <2>4
  <2> QED BY <2>2, <2>3, <2>5, <2>6, BuilderSteps
<1>3. ASSUME NEW f \in Files, Data!CopySource(b, f)
      PROVE  DataInv'
  <2>1. PICK c : c = [g \in DOMAIN copier[b].copied \cup {f} |->
                        IF g = f THEN inventory.accepted[f] ELSE copier[b].copied[g]]
    OBVIOUS
  <2>2. PICK x : x = [pc |-> "copying", left |-> copier[b].left \ {f}, copied |-> c]
    OBVIOUS
  <2>3. /\ copier[b].pc = "copying" /\ f \in copier[b].left /\ inventory.exists /\ Copying(copier[b])
        /\ UNCHANGED <<files, inventory, snapshot, replaced>>
    BY <1>1, <1>3 DEF Data!CopySource
  <2>4. copier' = [copier EXCEPT ![b].left = @ \ {f}, ![b].copied = c]
    BY <1>3, <2>1 DEF Data!CopySource
  <2>5. copier' = [copier EXCEPT ![b] = x]
    <3>1. PICK y : y = copier[b]
      OBVIOUS
    <3>2. y = [pc |-> "copying", left |-> y.left, copied |-> y.copied]
      BY <1>1, <2>3, <3>1
    <3>3. [[y EXCEPT !.left = @ \ {f}] EXCEPT !.copied = c] = x
      <4>1. PICK z : z = [y EXCEPT !.left = @ \ {f}]
        OBVIOUS
      <4>2. z = [pc |-> "copying", left |-> y.left \ {f}, copied |-> y.copied]
        BY <3>2, <4>1
      <4>3. [z EXCEPT !.copied = c] = x
        BY <2>2, <3>1, <4>2
      <4> QED BY <4>1, <4>3
    <3> QED BY <1>1, <2>4, <3>1, <3>3
  <2>6. Copying(x)
    <3>1. DOMAIN c = DOMAIN copier[b].copied \cup {f}
      BY <2>1
    <3>2. DOMAIN c \cup x.left = inventory.chosen
      BY <2>2, <2>3, <3>1 DEF Copying
    <3>3. \A g \in DOMAIN copier[b].copied : copier[b].copied[g] = inventory.accepted[g]
      BY <2>3 DEF Copying
    <3>4. c = [g \in DOMAIN c |-> inventory.accepted[g]]
      BY <2>1, <3>1, <3>3
    <3> QED BY <2>2, <3>2, <3>4 DEF Copying
  <2>7. x.pc = "copying" /\ x = [pc |-> x.pc, left |-> x.left, copied |-> x.copied]
        /\ x.left \subseteq inventory.chosen
    BY <1>1, <2>2
  <2> QED BY <2>3, <2>5, <2>6, <2>7, BuilderSteps
<1>4. CASE Data!Publish(b)
  <2>1. PICK x : x = [copier[b] EXCEPT !.pc = "published"]
    OBVIOUS
  <2>2. /\ copier[b].pc = "copying" /\ copier[b].left = {} /\ inventory.exists /\ Copying(copier[b])
        /\ snapshot' = [exists |-> TRUE, rows |-> copier[b].copied]
        /\ UNCHANGED <<files, inventory, replaced>>
    BY <1>1, <1>4 DEF Data!Publish
  <2>3. copier' = [copier EXCEPT ![b] = x]
    BY <1>1, <1>4, <2>1 DEF Data!Publish
  <2>4. x = [pc |-> "published", left |-> {}, copied |-> copier[b].copied]
    BY <1>1, <2>1, <2>2
  <2>5. snapshot'.rows = [f \in inventory.chosen |-> inventory.accepted[f]]
    BY <2>2 DEF Copying
  <2>6. /\ x = [pc |-> x.pc, left |-> x.left, copied |-> x.copied] /\ x.pc = "published"
        /\ x.left \subseteq inventory.chosen
    BY <2>4
  <2>7. x.pc # "idle" /\ ~(x.pc = "copying")
    BY <2>6
  <2> QED BY <2>2, <2>3, <2>5, <2>6, <2>7, BuilderSteps
<1>5. CASE Data!Abort(b)
  <2>1. PICK x : x = [Data!Idle EXCEPT !.pc = "raised"]
    OBVIOUS
  <2>2. copier' = [copier EXCEPT ![b] = x] /\ UNCHANGED <<files, inventory, snapshot, replaced>>
    BY <1>5, <2>1 DEF Data!Abort
  <2>3. x = [pc |-> "raised", left |-> {}, copied |-> x.copied]
    BY <2>1 DEF Data!Idle
  <2>4. /\ x = [pc |-> x.pc, left |-> x.left, copied |-> x.copied] /\ x.pc = "raised"
        /\ x.left \subseteq inventory.chosen
    BY <2>3
  <2>5. x.pc # "idle" /\ ~(x.pc = "copying")
    BY <2>4
  <2> QED BY <2>2, <2>4, <2>5, BuilderSteps
<1> QED BY <1>2, <1>3, <1>4, <1>5

\* Every step keeps it.
LEMMA DataStep ==
  ASSUME Data!DataAssumption, DataInv, [Data!Next]_(Data!universeVars)
  PROVE  DataInv'
<1>1. CASE Data!BuildSourceInventory
  BY <1>1, InventoryKeeps
<1>2. CASE Data!ChangeSource
  BY <1>2, SourceChangeKeeps
<1>3. ASSUME NEW b \in Builders,
             \/ Data!BeginSnapshot(b) \/ (\E f \in Files : Data!CopySource(b, f))
             \/ Data!Publish(b) \/ Data!Abort(b)
      PROVE  DataInv'
  BY <1>3, SnapshotKeeps
<1>4. CASE UNCHANGED Data!universeVars
  BY <1>4 DEF Data!universeVars, DataInv, Copying, InventoryIs
<1> QED BY <1>1, <1>2, <1>3, <1>4 DEF Data!Next

\* What it says of the properties.
LEMMA DataInvImplies ==
  ASSUME Data!DataAssumption, DataInv
  PROVE  Data!TypeOK /\ Data!UniverseSound
<1> DEFINE d == inventory.digest
<1>1. ASSUME inventory.exists
      PROVE  /\ d \in [Files -> Seq(Data!Row)] /\ InventoryIs
             /\ inventory.chosen = Data!Universe(Data!Known)
             /\ inventory.training = Data!TrainingSymbols(Data!Known)
             /\ inventory.training \cap inventory.heldOut = {}
             /\ inventory.training \subseteq Data!Symbols /\ inventory.heldOut \subseteq Data!Symbols
             /\ \A f \in inventory.chosen :
                  /\ f \in Files /\ Data!Valid(inventory.accepted[f])
                  /\ Data!Selection(inventory.accepted[f]) = Data!Known[f]
  <2>1. d \in [Files -> Seq(Data!Row)] /\ InventoryIs
    BY <1>1 DEF DataInv, InventoryIs
  <2>2. Data!Known = [f \in Files |-> Data!Selection(d[f])]
    BY DEF Data!Known
  <2>3. Data!Universe(Data!Known) = Data!Universe(d) /\ Data!TrainingSymbols(Data!Known) = Data!TrainingSymbols(d)
    BY <2>1, <2>2, UniverseLooksBack
  <2>4. ASSUME NEW f \in inventory.chosen
        PROVE  /\ f \in Files /\ Data!Valid(inventory.accepted[f])
               /\ Data!Selection(inventory.accepted[f]) = Data!Known[f]
    <3>1. f \in Files /\ Data!Eligible(d[f])
      BY <2>1, ChosenIs DEF InventoryIs
    <3>2. d[f] \in Seq(Data!Row) /\ inventory.accepted[f] = Data!AcceptedRows(d[f])
      BY <2>1, <3>1 DEF InventoryIs
    <3>3. Data!Valid(Data!AcceptedRows(d[f])) /\ Data!Selection(Data!AcceptedRows(d[f])) = Data!Selection(d[f])
      BY <3>1, <3>2, AcceptedIs
    <3> QED BY <2>2, <3>1, <3>2, <3>3
  <2>5. Data!SelectedSymbols(d) \subseteq Data!Symbols /\ Data!TrainingSymbols(d) \subseteq Data!Symbols
    BY DEF Data!TrainingSymbols, Data!SelectedSymbols, Data!FirstOf, Data!EligibleSymbols, Data!Symbols
  <2> QED BY <2>1, <2>3, <2>4, <2>5 DEF InventoryIs
<1>2. Data!UniverseSound
  BY <1>1 DEF Data!UniverseSound, DataInv
<1>3. Data!TypeOK
  <2>1. \A f \in Files : files[f] \in Seq([day : Nat, good : BOOLEAN])
    BY DEF DataInv, Data!Row
  <2>2. replaced \in 0..MaxReplaced
    BY DEF DataInv
  <2>3. inventory.training \subseteq Data!Symbols /\ inventory.heldOut \subseteq Data!Symbols
    BY <1>1 DEF DataInv, Data!NoInventory
  <2>4. inventory.chosen \subseteq Files
    BY <1>1 DEF DataInv, Data!NoInventory
  <2>5. \A b \in Builders : copier[b].left \subseteq Files
    BY <2>4 DEF DataInv
  <2> QED BY <2>1, <2>2, <2>3, <2>5 DEF Data!TypeOK
<1> QED BY <1>2, <1>3

(***************************************************************************)
(* Whatever the sources hold, however often they change after it and       *)
(* whoever builds the snapshot (build_source_inventory,                    *)
(* build_dataset_snapshot): the universe is the one of the rows known at   *)
(* the cutoff, what is accepted of it is sound and holds all of those, no  *)
(* symbol kept unseen is trained on, and the snapshot is of that universe. *)
(***************************************************************************)
THEOREM UniverseStaysSound ==
  ASSUME Data!DataAssumption
  PROVE  Data!Spec => [](Data!TypeOK /\ Data!UniverseSound)
<1>1. Data!Init => DataInv
  BY DataInit
<1>2. DataInv /\ [Data!Next]_(Data!universeVars) => DataInv'
  BY DataStep
<1>3. DataInv => Data!TypeOK /\ Data!UniverseSound
  BY DataInvImplies
<1> QED BY <1>1, <1>2, <1>3, PTL DEF Data!Spec



-----------------------------------------------------------------------------
(***************************************************************************)
(* All of it together.  The parts work on directories of their own, so     *)
(* that whatever each of them does leaves the others as they are.          *)
(***************************************************************************)

\* A step of the whole is a step of a part, or none, for each of them.
LEMMA PartsKept ==
  ASSUME [EvidenceNext]_evidenceVars
  PROVE  /\ [Formal!Next]_(Formal!formalVars) /\ [Data!Next]_(Data!universeVars)
         /\ [Bench!Next]_(Bench!benchmarkVars) /\ [Replay!Next]_(Replay!reproductionVars)
         /\ [Report!Next]_(Report!reportVars) /\ [Release!Next]_(Release!releaseVars)
<1>1. UNCHANGED runVars \/ Formal!Next
  BY Zenon DEF EvidenceNext, evidenceVars, experimentVars
<1>2. UNCHANGED dataVars \/ Data!Next
  BY Zenon DEF EvidenceNext, evidenceVars, experimentVars
<1>3. UNCHANGED benchVars \/ Bench!Next
  BY Zenon DEF EvidenceNext, evidenceVars, experimentVars
<1>4. UNCHANGED replayVars \/ Replay!Next
  BY Zenon DEF EvidenceNext, evidenceVars, publishedVars
<1>5. UNCHANGED reportVars \/ Report!Next
  BY Zenon DEF EvidenceNext, evidenceVars, publishedVars
<1>6. UNCHANGED releaseVars \/ Release!Next
  BY Zenon DEF EvidenceNext, evidenceVars, publishedVars
<1>7. [Formal!Next]_(Formal!formalVars)
  BY <1>1 DEF runVars, Formal!formalVars
<1>8. [Data!Next]_(Data!universeVars)
  BY <1>2 DEF dataVars, Data!universeVars
<1>9. [Bench!Next]_(Bench!benchmarkVars)
  BY <1>3 DEF benchVars, Bench!benchmarkVars
<1>10. [Replay!Next]_(Replay!reproductionVars)
  BY <1>4 DEF replayVars, Replay!reproductionVars
<1>11. [Report!Next]_(Report!reportVars)
  BY <1>5 DEF reportVars, Report!reportVars
<1>12. [Release!Next]_(Release!releaseVars)
  BY <1>6 DEF releaseVars, Release!releaseVars
<1> QED BY <1>7, <1>8, <1>9, <1>10, <1>11, <1>12

\* So every part goes on as it would on its own.
LEMMA PartsGo ==
  EvidenceSpec => Formal!Spec /\ Data!Spec /\ Bench!Spec /\ Replay!Spec /\ Report!Spec /\ Release!Spec
<1>1. EvidenceInit =>
        Formal!Init /\ Data!Init /\ Bench!Init /\ Replay!Init /\ Report!Init /\ Release!Init
  BY DEF EvidenceInit
<1>2. [EvidenceNext]_evidenceVars =>
        /\ [Formal!Next]_(Formal!formalVars) /\ [Data!Next]_(Data!universeVars)
        /\ [Bench!Next]_(Bench!benchmarkVars) /\ [Replay!Next]_(Replay!reproductionVars)
        /\ [Report!Next]_(Report!reportVars) /\ [Release!Next]_(Release!releaseVars)
  BY PartsKept
<1> QED BY <1>1, <1>2, PTL DEF EvidenceSpec, Formal!Spec, Data!Spec, Bench!Spec, Replay!Spec,
                               Report!Spec, Release!Spec

\* What each part promises holds beside the others.
LEMMA EvidenceAll ==
  ASSUME EvidenceAssumption
  PROVE  EvidenceSpec =>
           [](/\ Formal!TypeOK /\ Formal!FormalRunsHonest /\ Data!TypeOK /\ Data!UniverseSound
              /\ Bench!TypeOK /\ Bench!BenchmarkSound /\ Replay!TypeOK /\ Replay!ReplaysJustified
              /\ Report!TypeOK /\ Report!ReportSound /\ Release!TypeOK /\ Release!ReleaseSound)
<1>1. Formal!Spec => [](Formal!TypeOK /\ Formal!FormalRunsHonest)
  BY FormalRunsStayHonest DEF EvidenceAssumption
<1>2. Bench!Spec => [](Bench!TypeOK /\ Bench!BenchmarkSound)
  BY BenchmarkStaysSound DEF EvidenceAssumption
<1>3. Report!Spec => [](Report!TypeOK /\ Report!ReportSound)
  BY ReportStaysSound DEF EvidenceAssumption
<1>4. Release!Spec => [](Release!TypeOK /\ Release!ReleaseSound)
  BY ReleaseStaysSound DEF EvidenceAssumption
<1>5. Replay!Spec => [](Replay!TypeOK /\ Replay!ReplaysJustified)
  BY ReplaysStayJustified DEF EvidenceAssumption
<1>6. Data!Spec => [](Data!TypeOK /\ Data!UniverseSound)
  BY UniverseStaysSound DEF EvidenceAssumption
<1> QED BY <1>1, <1>2, <1>3, <1>4, <1>5, <1>6, PartsGo, PTL

\* Every part stays well typed, whatever the others do.
THEOREM EvidenceTypeCorrect ==
  ASSUME EvidenceAssumption
  PROVE  EvidenceSpec => []EvidenceTypes
<1>1. Formal!TypeOK /\ Data!TypeOK /\ Bench!TypeOK /\ Replay!TypeOK /\ Report!TypeOK /\ Release!TypeOK
        => EvidenceTypes
  BY Zenon DEF EvidenceTypes
<1> QED BY <1>1, EvidenceAll, PTL

(***************************************************************************)
(* However executors race for a task and wherever they are killed          *)
(* (experiments/runner.py): the locked test is made once, after its lock   *)
(* and behind the gate, by the one who claimed the run, and counted.       *)
(***************************************************************************)
THEOREM FormalRunsAlwaysHonest ==
  ASSUME EvidenceAssumption
  PROVE  EvidenceSpec => []FormalRunsHonest
<1>1. Formal!FormalRunsHonest => FormalRunsHonest
  BY DEF FormalRunsHonest
<1> QED BY <1>1, EvidenceAll, PTL

(***************************************************************************)
(* Whatever the sources hold after the cutoff and however they change      *)
(* (experiments/source_inventory.py, dataset_snapshot.py): the universe    *)
(* and its snapshot are those of the rows known at the cutoff.             *)
(***************************************************************************)
THEOREM UniverseAlwaysSound ==
  ASSUME EvidenceAssumption
  PROVE  EvidenceSpec => []UniverseSound
<1>1. Data!UniverseSound => UniverseSound
  BY DEF UniverseSound
<1> QED BY <1>1, EvidenceAll, PTL

(***************************************************************************)
(* Whatever replays run at once and wherever they fail                     *)
(* (release/reproduction.py): they share no directory, and the verdicts    *)
(* of those that returned are justified and on disk.                       *)
(***************************************************************************)
THEOREM ReplaysAlwaysJustified ==
  ASSUME EvidenceAssumption
  PROVE  EvidenceSpec => []ReplaysJustified
<1>1. Replay!ReplaysJustified => ReplaysJustified
  BY DEF ReplaysJustified
<1> QED BY <1>1, EvidenceAll, PTL

(***************************************************************************)
(* Whoever builds, edits, exports or writes at once                        *)
(* (benchmarking/core.py, reporting/workflow.py, release/freeze.py), a     *)
(* benchmark, a report or a release that verifies is of one build and is   *)
(* what it says.                                                           *)
(***************************************************************************)
THEOREM PublicationsStaySound ==
  ASSUME EvidenceAssumption
  PROVE  EvidenceSpec => []PublicationsSound
<1>1. Bench!BenchmarkSound /\ Report!ReportSound /\ Release!ReleaseSound => PublicationsSound
  BY DEF PublicationsSound
<1> QED BY <1>1, EvidenceAll, PTL
=============================================================================
