------------------------- MODULE RunDirectoryProofs -------------------------
(***************************************************************************)
(* Theorems about RunDirectory for every set of commands, any number of    *)
(* them at work at a time and any number of crashes: its types, and every  *)
(* safety property of the directory under the overlap that keeps it.  The  *)
(* code locks nothing, so what may not overlap is a hypothesis about the   *)
(* behaviour, part of each theorem.                                        *)
(*                                                                         *)
(* The argument: the files of a training are written in one order, so that *)
(* each file that exists vouches for those before it (TrainedInv); the     *)
(* check that a command makes before it starts still holds when it writes  *)
(* (TrainerInv, ReaderInv, TesterInv), because nobody who could disturb it *)
(* is at work in between.                                                  *)
(***************************************************************************)
EXTENDS RunDirectory, FiniteSetTheorems, SequenceTheorems, TLAPS

\* The three files of the locked test, by name.
Results == {"test_metrics", "test_trades", "test_weights"}

\* What a command that is writing has still to write, and what it has seen.
WritingInv(p) ==
    /\ proc[p].step = "writing" => proc[p].todo # <<>>
    /\ proc[p].seen = {} \/ \E f \in [Names -> Content] : proc[p].seen = {f}

TypeInv ==
    /\ TypeOK
    /\ manifest = {} \/ \E f \in [Names -> Content] : manifest = {f}
    /\ \A p \in Procs : WritingInv(p)

-----------------------------------------------------------------------------
Trains(p) == p \in Trainers \cup Retrainers

(***************************************************************************)
(* What may not overlap.                                                   *)
(***************************************************************************)
TrainingsSerial == \A p, q \in AtWork : Trains(p) /\ Trains(q) => p = q
TestsSerial == \A p, q \in AtWork : p \in Testers /\ q \in Testers => p = q
Serial == \A p, q \in AtWork : p = q

\* What is left to write is the end of what was planned.
Remains(todo, out) ==
    /\ Len(todo) \in 1..Len(out)
    /\ \A i \in 1..Len(todo) : todo[i] = out[Len(out) - Len(todo) + i]

PlanInv ==
    \A p \in Procs :
        /\ proc[p].step = "writing" => Remains(proc[p].todo, Output(p))
        /\ proc[p].step # "writing" => ~proc[p].open

(***************************************************************************)
(* Trainings that follow each other: a file that exists vouches for those  *)
(* written before it, and what a training at work found missing is missing *)
(* until it writes it.                                                     *)
(***************************************************************************)
\* A file that training p finished.
MadeBy(f, p) == Whole(f) /\ files[f].by = p

TrainedInv ==
    /\ Exists("artifact") => MadeBy("model", files["artifact"].by)
    /\ Exists("config") => MadeBy("artifact", files["config"].by)
    /\ Exists("summary") => MadeBy("config", files["summary"].by)
    /\ locked => Whole("summary")

TrainerInv(p) ==
    LET n == Len(proc[p].todo)
        open == proc[p].open
    IN  /\ proc[p].step = "checked" => ~Exists("artifact")
        /\ proc[p].step = "writing" =>
              /\ n = 7 \/ (n = 6 /\ ~open) => ~Exists("artifact")
              /\ n > 2 \/ (n = 2 /\ ~open) => ~Exists("config")
              /\ n > 1 \/ ~open => ~Exists("summary")
              /\ n < 7 => MadeBy("model", p)
              /\ n < 6 => MadeBy("artifact", p)
              /\ n < 2 => MadeBy("config", p)
        /\ proc[p].step \in {"hashing", "manifest", "manifest_open"} => Whole("summary")

TrainingInv ==
    /\ TypeInv /\ PlanInv /\ TrainedInv
    /\ \A p \in Procs : Trains(p) => TrainerInv(p)

(***************************************************************************)
(* Evaluations beside them: one at work reads the run it checked, and      *)
(* results are about it.                                                   *)
(***************************************************************************)
ResultsInv ==
    \A f \in Results :
        Exists(f) => Whole("config") /\ files[f].model = files["model"].by

ReaderInv(p) ==
    /\ proc[p].step \in {"checked", "writing"} => Whole("config")
    /\ proc[p].step = "writing" => proc[p].model = files["model"].by

FinalInv ==
    /\ TrainingInv /\ ResultsInv
    /\ \A p \in Procs : ~Trains(p) => ReaderInv(p)

(***************************************************************************)
(* Tests that follow each other: one finds no result of an earlier one.    *)
(***************************************************************************)
TestOrder == Exists("test_trades") \/ Exists("test_weights") => Exists("test_metrics")

TesterInv(p) ==
    LET n == Len(proc[p].todo)
    IN  /\ proc[p].step = "checked" => ~Exists("test_metrics")
        /\ proc[p].step = "writing" =>
              /\ n = 3 => ~Whole("test_metrics")
              /\ n < 3 => Exists("test_metrics")
              /\ n > 1 => ~Whole("test_trades")
              /\ ~Whole("test_weights")

TestInv ==
    /\ TypeInv /\ PlanInv /\ TestOrder
    /\ \A p \in Testers : TesterInv(p)

\* Without a crash the manifest, or what will become it, is the directory.
ManifestInv ==
    crashes = 0 =>
        /\ \A p \in Procs :
              proc[p].step \in {"manifest", "manifest_open"} => proc[p].seen = {files}
        /\ \/ manifest = {} \/ manifest = {files}
           \/ \E p \in Procs : proc[p].step \in {"writing", "hashing", "manifest"}

-----------------------------------------------------------------------------
\* The files and their order, position by position.
LEMMA Orders ==
  /\ Len(TrainingFiles) = 7 /\ Len(TestFiles) = 3 /\ Len(ValidationFiles) = 3
  /\ TrainingFiles[1] = "model" /\ TrainingFiles[2] = "artifact"
  /\ TrainingFiles[3] = "val_metrics" /\ TrainingFiles[4] = "val_trades"
  /\ TrainingFiles[5] = "val_weights" /\ TrainingFiles[6] = "config"
  /\ TrainingFiles[7] = "summary"
  /\ TestFiles[1] = "test_metrics" /\ TestFiles[2] = "test_trades"
  /\ TestFiles[3] = "test_weights"
  /\ ValidationFiles[1] = "val_metrics" /\ ValidationFiles[2] = "val_trades"
  /\ ValidationFiles[3] = "val_weights"
BY DEF TrainingFiles, TestFiles, ValidationFiles

\* The files of a run.
LEMMA NamesAre ==
  Names = {"model", "artifact", "val_metrics", "val_trades", "val_weights",
           "config", "summary", "test_metrics", "test_trades", "test_weights"}
<1>1. DOMAIN TrainingFiles = 1..7 /\ DOMAIN TestFiles = 1..3
  BY DEF TrainingFiles, TestFiles, ValidationFiles
<1> QED BY <1>1, Orders DEF Names

\* What a command is going to write is a sequence of names.
LEMMA OutputType ==
  ASSUME NEW p \in Procs
  PROVE  /\ Output(p) \in Seq(Names) /\ Output(p) # <<>>
         /\ p \in Trainers \cup Retrainers => Output(p) = TrainingFiles
         /\ p \in Testers => Output(p) = TestFiles
         /\ p \in Validators => Output(p) = ValidationFiles
<1>1. /\ TrainingFiles \in Seq(Names) /\ TestFiles \in Seq(Names)
      /\ ValidationFiles \in Seq(Names)
  BY NamesAre DEF TrainingFiles, TestFiles, ValidationFiles
<1>2. /\ TrainingFiles # <<>> /\ TestFiles # <<>> /\ ValidationFiles # <<>>
  BY Orders
<1> QED BY <1>1, <1>2, RunAssumption DEF Output, TrainingOrder, Procs

-----------------------------------------------------------------------------
\* The entry of a process after each of the changes the actions make to it.
LEMMA Entries ==
  ASSUME TypeOK, NEW p \in Procs
  PROVE  /\ proc[p] \in Process
         /\ \A s \in {"idle", "raised", "over"} \cup Working :
               [proc[p] EXCEPT !.step = s] \in Process
         /\ \A t \in Seq(Names), m \in Procs \cup {Nobody} :
               [proc[p] EXCEPT !.step = "writing", !.todo = t, !.model = m] \in Process
         /\ [proc[p] EXCEPT !.open = TRUE] \in Process
         /\ \A t \in Seq(Names), s \in Working :
               [proc[p] EXCEPT !.open = FALSE, !.todo = t, !.step = s] \in Process
         /\ \A f \in [Names -> Content] :
               [proc[p] EXCEPT !.step = "manifest", !.seen = {f}] \in Process
         /\ [proc[p] EXCEPT !.step = "over", !.seen = {}, !.model = Nobody] \in Process
         /\ [proc[p] EXCEPT !.step = "over", !.todo = <<>>, !.open = FALSE,
                            !.model = Nobody, !.seen = {}] \in Process
<1> DEFINE T == Seq(Names)
           F == [Names -> Content]
           S == {"idle", "raised", "over"} \cup Working
<1>1. proc[p] \in [step : S, todo : T, open : BOOLEAN, model : Procs \cup {Nobody},
                   seen : SUBSET F]
  BY DEF TypeOK, Process
<1>2. Process = [step : S, todo : T, open : BOOLEAN, model : Procs \cup {Nobody},
                 seen : SUBSET F]
  BY DEF Process
<1>3. <<>> \in T
  OBVIOUS
<1>4. {"writing", "manifest", "over"} \subseteq S /\ Working \subseteq S
  BY DEF Working
<1> HIDE DEF T, F, S
<1> QED BY <1>1, <1>2, <1>3, <1>4 DEF T, F, S

\* A step that changes the entry of one process keeps the types of them all.
LEMMA ProcTypes ==
  ASSUME TypeInv, NEW p \in Procs, NEW r \in Process,
         proc' = [proc EXCEPT ![p] = r],
         r.step = "writing" => r.todo # <<>>,
         r.seen = {} \/ \E f \in [Names -> Content] : r.seen = {f}
  PROVE  proc' \in [Procs -> Process] /\ \A q \in Procs : WritingInv(q)'
<1>1. proc \in [Procs -> Process] /\ \A q \in Procs : WritingInv(q)
  BY DEF TypeInv, TypeOK
<1>2. proc' \in [Procs -> Process]
  BY <1>1
<1>3. ASSUME NEW q \in Procs PROVE proc'[q] = proc[q] \/ proc'[q] = r
  BY <1>1
<1> QED BY <1>1, <1>2, <1>3 DEF WritingInv

\* A file that is opened or closed keeps the types.
LEMMA FileTypes ==
  ASSUME TypeInv, NEW p \in Procs, NEW w \in BOOLEAN, proc[p].step = "writing",
         files' = [files EXCEPT ![Head(proc[p].todo)] =
                      [by |-> p, model |-> proc[p].model, whole |-> w]]
  PROVE  /\ files' \in [Names -> Content]
         /\ Head(proc[p].todo) \in Names /\ Tail(proc[p].todo) \in Seq(Names)
<1>1. proc[p].todo \in Seq(Names) /\ proc[p].todo # <<>>
  BY DEF TypeInv, TypeOK, Process, WritingInv
<1>2. Head(proc[p].todo) \in Names /\ Tail(proc[p].todo) \in Seq(Names)
  BY <1>1
<1>3. [by |-> p, model |-> proc[p].model, whole |-> w] \in Content
  BY DEF Content, TypeInv, TypeOK, Process
<1> QED BY <1>2, <1>3 DEF TypeInv, TypeOK

\* Every step keeps the types.
LEMMA TypeStep == TypeInv /\ [Next]_vars => TypeInv'
<1> SUFFICES ASSUME TypeInv, [Next]_vars PROVE TypeInv'
  OBVIOUS
<1>0. TypeOK /\ \A q \in Procs : WritingInv(q)
  BY DEF TypeInv
<1>a. \A q \in Procs : /\ proc[q] \in Process /\ proc[q].todo \in Seq(Names)
                       /\ proc[q].model \in Procs \cup {Nobody}
  BY <1>0 DEF TypeOK, Process
<1>1. ASSUME NEW p \in Procs, Start(p) PROVE TypeInv'
  <2>1. PICK s \in {"over", "raised", "checked"} :
                proc' = [proc EXCEPT ![p] = [proc[p] EXCEPT !.step = s]]
    BY <1>1 DEF Start
  <2> DEFINE r == [proc[p] EXCEPT !.step = s]
  <2>2. r \in Process /\ r.step = s /\ r.seen = proc[p].seen
    <3>1. s \in {"idle", "raised", "over"} \cup Working
      BY DEF Working
    <3>2. r \in Process
      BY <1>0, <3>1, Entries
    <3> QED BY <3>2, <1>a DEF Process
  <2>3. proc' \in [Procs -> Process] /\ \A q \in Procs : WritingInv(q)'
    BY <1>0, <2>1, <2>2, ProcTypes DEF WritingInv
  <2>4. locked' \in BOOLEAN /\ UNCHANGED <<files, manifest, crashes>>
    BY <1>0, <1>1 DEF Start, TypeOK, SummaryUsable
  <2> QED BY <2>3, <2>4 DEF TypeInv, TypeOK
<1>2. ASSUME NEW p \in Procs, Repeat(p) PROVE TypeInv'
  <2> DEFINE r == [proc[p] EXCEPT !.step = "idle"]
  <2>1. r \in Process /\ r.step = "idle" /\ r.seen = proc[p].seen
    <3>1. r \in Process
      BY <1>0, Entries
    <3> QED BY <3>1, <1>a DEF Process
  <2>2. proc' \in [Procs -> Process] /\ \A q \in Procs : WritingInv(q)'
    BY <1>0, <1>2, <2>1, ProcTypes DEF Repeat, WritingInv
  <2> QED BY <1>2, <2>2 DEF Repeat, TypeInv, TypeOK
<1>3. ASSUME NEW p \in Procs, Compute(p) PROVE TypeInv'
  <2>1. CASE proc' = [proc EXCEPT ![p].step = "raised"]
    <3> DEFINE r == [proc[p] EXCEPT !.step = "raised"]
    <3>1. r \in Process /\ r.step = "raised" /\ r.seen = proc[p].seen
      <4>1. r \in Process
        BY <1>0, Entries
      <4> QED BY <4>1, <1>a DEF Process
    <3>2. proc' \in [Procs -> Process] /\ \A q \in Procs : WritingInv(q)'
      BY <1>0, <2>1, <3>1, ProcTypes DEF WritingInv
    <3> QED BY <1>3, <3>2 DEF Compute, TypeInv, TypeOK
  <2>2. CASE proc' # [proc EXCEPT ![p].step = "raised"]
    <3>1. PICK m \in Procs \cup {Nobody} :
              proc' = [proc EXCEPT ![p].step = "writing", ![p].todo = Output(p),
                                   ![p].model = m]
      <4>1. files["model"].by \in Procs \cup {Nobody}
        BY <1>0, NamesAre DEF Content, TypeOK
      <4> QED BY <1>3, <2>2, <4>1 DEF Compute
    <3> DEFINE r == [proc[p] EXCEPT !.step = "writing", !.todo = Output(p), !.model = m]
    <3>2. Output(p) \in Seq(Names) /\ Output(p) # <<>>
      BY OutputType
    <3>3. r \in Process /\ r.todo = Output(p) /\ r.seen = proc[p].seen
      <4>1. r \in Process
        BY <1>0, <3>2, Entries
      <4> QED BY <4>1, <1>a DEF Process
    <3>4. proc' = [proc EXCEPT ![p] = r]
      BY <3>1
    <3>5. proc' \in [Procs -> Process] /\ \A q \in Procs : WritingInv(q)'
      BY <1>0, <3>2, <3>3, <3>4, ProcTypes DEF WritingInv
    <3> QED BY <1>3, <3>5 DEF Compute, TypeInv, TypeOK
  <2> QED BY <2>1, <2>2
<1>4. ASSUME NEW p \in Procs, OpenFile(p) PROVE TypeInv'
  <2> DEFINE r == [proc[p] EXCEPT !.open = TRUE]
  <2>1. r \in Process /\ r.step = proc[p].step /\ r.todo = proc[p].todo
        /\ r.seen = proc[p].seen
    <3>1. r \in Process
      BY <1>0, Entries
    <3> QED BY <3>1, <1>a DEF Process
  <2>2. proc' \in [Procs -> Process] /\ \A q \in Procs : WritingInv(q)'
    BY <1>0, <1>4, <2>1, ProcTypes DEF OpenFile, WritingInv
  <2>3. files' \in [Names -> Content]
    BY <1>4, FileTypes DEF OpenFile
  <2> QED BY <1>4, <2>2, <2>3 DEF OpenFile, TypeInv, TypeOK
<1>5. ASSUME NEW p \in Procs, CloseFile(p) PROVE TypeInv'
  <2> DEFINE rest == Tail(proc[p].todo)
             s == IF rest = <<>> THEN "hashing" ELSE "writing"
             r == [proc[p] EXCEPT !.open = FALSE, !.todo = rest, !.step = s]
  <2>1. rest \in Seq(Names) /\ files' \in [Names -> Content]
    BY <1>5, FileTypes DEF CloseFile
  <2>2. s \in Working /\ (s = "writing" => rest # <<>>)
    BY DEF Working
  <2>3. r \in Process /\ r.step = s /\ r.todo = rest /\ r.seen = proc[p].seen
    <3> HIDE DEF rest, s
    <3>1. r \in Process
      BY <1>0, <2>1, <2>2, Entries
    <3> QED BY <3>1, <1>a DEF Process
  <2>4. proc' = [proc EXCEPT ![p] = r]
    BY <1>5 DEF CloseFile
  <2>5. proc' \in [Procs -> Process] /\ \A q \in Procs : WritingInv(q)'
    <3> HIDE DEF r, rest, s
    <3> QED BY <1>0, <2>2, <2>3, <2>4, ProcTypes DEF WritingInv
  <2> QED BY <1>5, <2>1, <2>5 DEF CloseFile, TypeInv, TypeOK
<1>6. ASSUME NEW p \in Procs, HashFiles(p) PROVE TypeInv'
  <2> DEFINE r == [proc[p] EXCEPT !.step = "manifest", !.seen = {files}]
  <2>1. files \in [Names -> Content]
    BY <1>0 DEF TypeOK
  <2>2. r \in Process /\ r.step = "manifest" /\ r.seen = {files}
    <3>1. r \in Process
      BY <1>0, <2>1, Entries
    <3> QED BY <3>1, <1>a DEF Process
  <2>3. proc' = [proc EXCEPT ![p] = r]
    BY <1>6 DEF HashFiles, Hashed
  <2>4. proc' \in [Procs -> Process] /\ \A q \in Procs : WritingInv(q)'
    <3> HIDE DEF r
    <3> QED BY <2>1, <2>2, <2>3, ProcTypes
  <2> QED BY <1>6, <2>4 DEF HashFiles, TypeInv, TypeOK
<1>7. ASSUME NEW p \in Procs, OpenManifest(p) PROVE TypeInv'
  <2> DEFINE r == [proc[p] EXCEPT !.step = "manifest_open"]
  <2>1. r \in Process /\ r.step = "manifest_open" /\ r.seen = proc[p].seen
    <3>1. r \in Process
      BY <1>0, Entries DEF Working
    <3> QED BY <3>1, <1>a DEF Process
  <2>2. proc' \in [Procs -> Process] /\ \A q \in Procs : WritingInv(q)'
    BY <1>0, <1>7, <2>1, ProcTypes DEF OpenManifest, WritingInv
  <2> QED BY <1>7, <2>2, FS_EmptySet DEF OpenManifest, TypeInv, TypeOK
<1>8. ASSUME NEW p \in Procs, CloseManifest(p) PROVE TypeInv'
  <2> DEFINE r == [proc[p] EXCEPT !.step = "over", !.seen = {}, !.model = Nobody]
  <2>1. r \in Process /\ r.step = "over" /\ r.seen = {}
    <3>1. r \in Process
      BY <1>0, Entries
    <3> QED BY <3>1, <1>a DEF Process
  <2>2. proc' \in [Procs -> Process] /\ \A q \in Procs : WritingInv(q)'
    <3>1. proc' = [proc EXCEPT ![p] = r]
      BY <1>8 DEF CloseManifest
    <3> HIDE DEF r
    <3> QED BY <2>1, <3>1, ProcTypes
  <2>3. proc[p].seen \subseteq [Names -> Content] /\ Cardinality(proc[p].seen) <= 1
    <3>1. CASE proc[p].seen = {}
      BY <3>1, FS_EmptySet
    <3>2. CASE \E f \in [Names -> Content] : proc[p].seen = {f}
      <4>1. PICK f \in [Names -> Content] : proc[p].seen = {f}
        BY <3>2
      <4>2. Cardinality(proc[p].seen) = 1
        BY <4>1, FS_Singleton
      <4> QED BY <4>1, <4>2
    <3> QED BY <1>0, <3>1, <3>2 DEF WritingInv
  <2>4. locked' \in BOOLEAN
    BY <1>0, <1>8 DEF CloseManifest, TypeOK
  <2> QED BY <1>0, <1>8, <2>2, <2>3, <2>4 DEF CloseManifest, TypeInv, TypeOK, WritingInv
<1>9. ASSUME NEW p \in Procs, Crash(p) PROVE TypeInv'
  <2> DEFINE r == [proc[p] EXCEPT !.step = "over", !.todo = <<>>, !.open = FALSE,
                                  !.model = Nobody, !.seen = {}]
  <2>1. r \in Process /\ r.step = "over" /\ r.seen = {}
    <3>1. r \in Process
      BY <1>0, Entries
    <3> QED BY <3>1, <1>a DEF Process
  <2>2. proc' \in [Procs -> Process] /\ \A q \in Procs : WritingInv(q)'
    <3>1. proc' = [proc EXCEPT ![p] = r]
      BY <1>9 DEF Crash
    <3> HIDE DEF r
    <3> QED BY <2>1, <3>1, ProcTypes
  <2>3. crashes' \in 0..MaxCrashes
    BY <1>0, <1>9, RunAssumption DEF Crash, TypeOK
  <2> QED BY <1>9, <2>2, <2>3 DEF Crash, TypeInv, TypeOK
<1>10. CASE UNCHANGED vars
  BY <1>10 DEF vars, TypeInv, TypeOK, WritingInv
<1> QED
  BY <1>1, <1>2, <1>3, <1>4, <1>5, <1>6, <1>7, <1>8, <1>9, <1>10 DEF Next, Work

\* The initial state is well typed.
LEMMA TypeInit == Init => TypeInv
<1>1. Missing \in Content
  BY DEF Missing, Content
<1> SUFFICES ASSUME Init PROVE TypeInv
  OBVIOUS
<1>2. files \in [Names -> Content] /\ manifest = {} /\ Cardinality(manifest) = 0
  BY <1>1, FS_EmptySet DEF Init
<1>3. proc \in [Procs -> Process]
  <2>1. [step |-> "idle", todo |-> <<>>, open |-> FALSE, model |-> Nobody, seen |-> {}]
           \in Process
    BY DEF Process
  <2> QED BY <2>1 DEF Init
<1>4. \A p \in Procs : WritingInv(p)
  BY DEF Init, WritingInv
<1>5. locked \in BOOLEAN /\ crashes \in 0..MaxCrashes
  <2>1. MaxCrashes \in Nat
    BY RunAssumption
  <2>2. crashes \in 0..MaxCrashes
    BY <2>1 DEF Init
  <2>3. locked \in BOOLEAN
    BY Zenon DEF Init
  <2> QED BY <2>2, <2>3
<1> QED BY <1>2, <1>3, <1>4, <1>5 DEF TypeInv, TypeOK

\* For any number of commands, overlapping or not, every variable keeps its
\* type; the manifest is one statement about the directory, or none.
THEOREM TypeCorrect == Spec => []TypeOK
<1>1. TypeInv => TypeOK
  BY DEF TypeInv
<1> QED BY <1>1, TypeInit, TypeStep, PTL DEF Spec

-----------------------------------------------------------------------------
(***************************************************************************)
(* Plans, and what the steps of each kind of command write.                *)
(***************************************************************************)

\* A command changes its own entry only.
LEMMA OthersRest ==
  ASSUME TypeOK, NEW p \in Procs, Work(p) \/ Crash(p)
  PROVE  \A q \in Procs : q # p => proc'[q] = proc[q]
BY DEF TypeOK, Work, Start, Repeat, Compute, OpenFile, CloseFile, HashFiles,
       OpenManifest, CloseManifest, Crash

\* What opening or closing a file does to the directory.
Writes(p, f, w) ==
    /\ f \in Names
    /\ \A g \in Names : g # f => files'[g] = files[g]
    /\ files'[f].by = p /\ files'[f].model = proc[p].model
    /\ files'[f].whole = w /\ files'[f] # Missing

\* A file written is that of the process that writes it.
LEMMA FileWritten ==
  ASSUME TypeInv, NEW p \in Procs, NEW w \in BOOLEAN, proc[p].step = "writing",
         files' = [files EXCEPT ![Head(proc[p].todo)] =
                      [by |-> p, model |-> proc[p].model, whole |-> w]]
  PROVE  Writes(p, proc[p].todo[1], w)
<1>1. proc[p].todo \in Seq(Names) /\ proc[p].todo # <<>>
  BY DEF TypeInv, TypeOK, Process, WritingInv
<1>2. Head(proc[p].todo) \in Names /\ Head(proc[p].todo) = proc[p].todo[1]
  BY <1>1
<1>3. [by |-> p, model |-> proc[p].model, whole |-> w] # Missing
  BY RunAssumption DEF Missing
<1> QED BY <1>2, <1>3 DEF Writes, TypeInv, TypeOK

\* What is left after the first file, and which file that is.
LEMMA RemainsNext ==
  ASSUME NEW todo \in Seq(Names), NEW out, Len(out) \in Nat, Remains(todo, out)
  PROVE  /\ todo[1] = out[Len(out) - Len(todo) + 1]
         /\ Len(todo) \in 1..Len(out)
         /\ Len(Tail(todo)) = Len(todo) - 1
         /\ Tail(todo) = <<>> <=> Len(todo) = 1
         /\ Len(todo) # 1 => Remains(Tail(todo), out)
<1> DEFINE rest == Tail(todo)
           n == Len(todo)
<1>1. n \in 1..Len(out) /\ \A i \in 1..n : todo[i] = out[Len(out) - n + i]
  BY DEF Remains
<1>2. /\ rest \in Seq(Names) /\ Len(rest) = n - 1
      /\ \A i \in 1..n - 1 : rest[i] = todo[i + 1]
  BY <1>1
<1>3. rest = <<>> <=> n = 1
  <2> HIDE DEF rest
  <2>1. CASE rest = <<>>
    BY <1>1, <1>2, <2>1
  <2>2. CASE rest # <<>>
    <3>1. Len(rest) \in Nat \ {0}
      BY <1>2, <2>2, EmptySeq
    <3> QED BY <1>1, <1>2, <2>2, <3>1
  <2> QED BY <2>1, <2>2
<1>4. ASSUME n # 1 PROVE Remains(rest, out)
  <2>1. Len(rest) \in 1..Len(out)
    BY <1>1, <1>2, <1>4
  <2>2. ASSUME NEW i \in 1..Len(rest) PROVE rest[i] = out[Len(out) - Len(rest) + i]
    <3>1. i + 1 \in 1..n /\ Len(out) - n + (i + 1) = Len(out) - Len(rest) + i
      BY <1>1, <1>2
    <3>2. rest[i] = todo[i + 1] /\ todo[i + 1] = out[Len(out) - n + (i + 1)]
      BY <1>1, <1>2, <3>1
    <3> QED BY <3>1, <3>2
  <2> QED BY <2>1, <2>2 DEF Remains
<1> QED BY <1>1, <1>2, <1>3, <1>4

\* What a step of writing does to the entry of the process and to the file.
LEMMA EntryAfterWrite ==
  ASSUME TypeInv, NEW p \in Procs, proc[p].step = "writing",
         OpenFile(p) \/ CloseFile(p),
         Remains(proc[p].todo, Output(p))
  PROVE  LET n == Len(proc[p].todo)
             f == Output(p)[Len(Output(p)) - n + 1]
         IN  /\ n \in 1..Len(Output(p))
             /\ proc'[p].model = proc[p].model
             /\ OpenFile(p) =>
                  /\ proc'[p].todo = proc[p].todo /\ proc'[p].step = "writing"
                  /\ ~proc[p].open /\ proc'[p].open
                  /\ Writes(p, f, FALSE)
             /\ CloseFile(p) =>
                  /\ Len(proc'[p].todo) = n - 1
                  /\ (n = 1 => proc'[p].step = "hashing")
                  /\ (n # 1 => proc'[p].step = "writing" /\ Remains(proc'[p].todo, Output(p)))
                  /\ proc[p].open /\ ~proc'[p].open
                  /\ Writes(p, f, TRUE)
<1> DEFINE todo == proc[p].todo
           out == Output(p)
           f == out[Len(out) - Len(todo) + 1]
<1>0. /\ Len(out) \in Nat /\ todo \in Seq(Names)
      /\ proc[p] \in Process /\ proc \in [Procs -> Process]
  BY OutputType DEF TypeInv, TypeOK, Process
<1>1. /\ todo[1] = f /\ Len(todo) \in 1..Len(out) /\ Len(Tail(todo)) = Len(todo) - 1
      /\ Tail(todo) = <<>> <=> Len(todo) = 1
      /\ Len(todo) # 1 => Remains(Tail(todo), out)
  BY <1>0, RemainsNext
<1>2. CASE OpenFile(p)
  <2>1. Writes(p, f, FALSE)
    BY <1>1, <1>2, FileWritten DEF OpenFile
  <2>2. ~CloseFile(p) /\ ~proc[p].open
    BY <1>2 DEF OpenFile, CloseFile
  <2>3. proc'[p] = [proc[p] EXCEPT !.open = TRUE]
    BY <1>0, <1>2 DEF OpenFile
  <2>4. /\ proc'[p].open /\ proc'[p].todo = todo /\ proc'[p].step = proc[p].step
        /\ proc'[p].model = proc[p].model
    BY <1>0, <2>3 DEF Process
  <2> QED BY <1>1, <1>2, <2>1, <2>2, <2>4
<1>3. CASE CloseFile(p)
  <2>1. Writes(p, f, TRUE)
    BY <1>1, <1>3, FileWritten DEF CloseFile
  <2>2. ~OpenFile(p) /\ proc[p].open
    BY <1>3 DEF OpenFile, CloseFile
  <2>3. proc'[p] = [proc[p] EXCEPT !.open = FALSE, !.todo = Tail(todo),
                       !.step = IF Tail(todo) = <<>> THEN "hashing" ELSE "writing"]
    BY <1>0, <1>3 DEF CloseFile
  <2>4. /\ ~proc'[p].open /\ proc'[p].todo = Tail(todo)
        /\ proc'[p].model = proc[p].model
        /\ proc'[p].step = IF Tail(todo) = <<>> THEN "hashing" ELSE "writing"
    BY <1>0, <2>3 DEF Process
  <2> QED BY <1>1, <1>3, <2>1, <2>2, <2>4
<1> QED BY <1>2, <1>3

\* What each action leaves in the entry of its process.
LEMMA EntryAfter ==
  ASSUME TypeInv, NEW p \in Procs
  PROVE  /\ Start(p) => /\ proc'[p].step \in {"over", "raised", "checked"}
                        /\ proc'[p].open = proc[p].open
         /\ Repeat(p) => /\ proc'[p].step = "idle"
                         /\ proc'[p].open = proc[p].open
         /\ Compute(p) => /\ proc'[p].open = proc[p].open
                          /\ \/ proc'[p].step = "raised"
                             \/ /\ proc'[p].step = "writing"
                                /\ proc'[p].todo = Output(p)
                                /\ ~Trains(p) => proc'[p].model = files["model"].by
         /\ HashFiles(p) => /\ proc'[p].step = "manifest"
                            /\ proc'[p].seen = {files}
                            /\ proc'[p].open = proc[p].open
         /\ OpenManifest(p) => /\ proc'[p].step = "manifest_open"
                               /\ proc'[p].seen = proc[p].seen
                               /\ proc'[p].open = proc[p].open
         /\ CloseManifest(p) => /\ proc'[p].step = "over"
                                /\ proc'[p].open = proc[p].open
         /\ Crash(p) => proc'[p].step = "over" /\ ~proc'[p].open
<1>0. proc[p] \in Process /\ proc \in [Procs -> Process]
  BY DEF TypeInv, TypeOK
<1>1. ASSUME Start(p)
      PROVE  /\ proc'[p].step \in {"over", "raised", "checked"}
             /\ proc'[p].open = proc[p].open
  <2>1. PICK s \in {"over", "raised", "checked"} :
                proc'[p] = [proc[p] EXCEPT !.step = s]
    BY <1>0, <1>1 DEF Start
  <2> QED BY <1>0, <2>1 DEF Process
<1>2. ASSUME Repeat(p)
      PROVE  proc'[p].step = "idle" /\ proc'[p].open = proc[p].open
  BY <1>0, <1>2 DEF Repeat, Process
<1>3. ASSUME Compute(p)
      PROVE  /\ proc'[p].open = proc[p].open
             /\ \/ proc'[p].step = "raised"
                \/ /\ proc'[p].step = "writing" /\ proc'[p].todo = Output(p)
                   /\ ~Trains(p) => proc'[p].model = files["model"].by
  <2>1. \/ proc'[p] = [proc[p] EXCEPT !.step = "raised"]
        \/ proc'[p] = [proc[p] EXCEPT !.step = "writing", !.todo = Output(p),
                          !.model = IF Trains(p) THEN p ELSE files["model"].by]
    BY <1>0, <1>3 DEF Compute, Trains
  <2> QED BY <1>0, <2>1 DEF Process
<1>4. ASSUME HashFiles(p)
      PROVE  /\ proc'[p].step = "manifest" /\ proc'[p].seen = {files}
             /\ proc'[p].open = proc[p].open
  BY <1>0, <1>4 DEF HashFiles, Hashed, Process
<1>5. ASSUME OpenManifest(p)
      PROVE  /\ proc'[p].step = "manifest_open" /\ proc'[p].seen = proc[p].seen
             /\ proc'[p].open = proc[p].open
  BY <1>0, <1>5 DEF OpenManifest, Process
<1>6. ASSUME CloseManifest(p)
      PROVE  proc'[p].step = "over" /\ proc'[p].open = proc[p].open
  BY <1>0, <1>6 DEF CloseManifest, Process
<1>7. ASSUME Crash(p)
      PROVE  proc'[p].step = "over" /\ ~proc'[p].open
  BY <1>0, <1>7 DEF Crash, Process
<1> QED BY <1>1, <1>2, <1>3, <1>4, <1>5, <1>6, <1>7

\* A whole plan remains to be written.
LEMMA PlanRemains ==
  ASSUME NEW p \in Procs
  PROVE  /\ Remains(Output(p), Output(p))
         /\ Trains(p) => Len(Output(p)) = 7
         /\ p \in Testers => Len(Output(p)) = 3
<1>1. /\ Output(p) = TrainingFiles \/ Output(p) = TestFiles \/ Output(p) = ValidationFiles
      /\ Trains(p) => Output(p) = TrainingFiles
      /\ p \in Testers => Output(p) = TestFiles
  BY OutputType DEF Trains, Procs
<1>2. Len(Output(p)) \in {3, 7}
  BY <1>1, Orders
<1>3. Remains(Output(p), Output(p))
  <2> DEFINE n == Len(Output(p))
  <2>1. n \in {3, 7}
    BY <1>2
  <2> HIDE DEF n
  <2>2. n \in 1..n /\ \A i \in 1..n : n - n + i = i
    BY <2>1
  <2> QED BY <2>2 DEF Remains, n
<1> QED BY <1>1, <1>3, Orders


\* A step keeps every command to its plan.
LEMMA PlanStep ==
  ASSUME TypeInv, PlanInv, NEW p \in Procs, Work(p) \/ Crash(p)
  PROVE  PlanInv'
<1>0. TypeOK /\ \A q \in Procs : q # p => proc'[q] = proc[q]
  BY OthersRest DEF TypeInv
<1>1. /\ proc'[p].step = "writing" => Remains(proc'[p].todo, Output(p))
      /\ proc'[p].step # "writing" => ~proc'[p].open
  <2>1. CASE OpenFile(p) \/ CloseFile(p)
    <3>1. proc[p].step = "writing" /\ Remains(proc[p].todo, Output(p))
      BY <2>1 DEF PlanInv, OpenFile, CloseFile
    <3> QED BY <2>1, <3>1, EntryAfterWrite
  <2>2. CASE Crash(p)
    BY <2>2, EntryAfter
  <2>3. CASE Compute(p)
    <3>1. ~proc[p].open
      BY <2>3 DEF PlanInv, Compute
    <3> QED BY <2>3, <3>1, EntryAfter, PlanRemains
  <2>4. CASE ~OpenFile(p) /\ ~CloseFile(p) /\ ~Crash(p) /\ ~Compute(p)
    <3>1. /\ proc[p].step # "writing" /\ proc'[p].open = proc[p].open
          /\ proc'[p].step # "writing"
      BY <2>4, EntryAfter DEF Work, Start, Repeat, HashFiles, OpenManifest, CloseManifest
    <3> QED BY <3>1 DEF PlanInv
  <2> QED BY <2>1, <2>2, <2>3, <2>4
<1>2. \A q \in Procs : Output(q)' = Output(q)
  BY DEF Output, TrainingOrder
<1> QED BY <1>0, <1>1, <1>2 DEF PlanInv

\* The file that a training writes next.
LEMMA TrainingFile ==
  ASSUME TypeInv, PlanInv, NEW p \in Procs, Trains(p), OpenFile(p) \/ CloseFile(p)
  PROVE  LET n == Len(proc[p].todo)
             f == Output(p)[Len(Output(p)) - n + 1]
         IN  /\ n \in 1..7 /\ Remains(proc[p].todo, Output(p)) /\ proc[p].step = "writing"
             /\ n = 7 => f = "model"
             /\ n = 6 => f = "artifact"
             /\ n \in 3..5 => f \in {"val_metrics", "val_trades", "val_weights"}
             /\ n = 2 => f = "config"
             /\ n = 1 => f = "summary"
             /\ f \notin Results
<1> DEFINE n == Len(proc[p].todo)
           f == Output(p)[Len(Output(p)) - n + 1]
<1>0. /\ proc[p].step = "writing" /\ Output(p) = TrainingFiles
      /\ Remains(proc[p].todo, Output(p))
  BY OutputType DEF Trains, PlanInv, OpenFile, CloseFile
<1>1. n \in 1..7
  BY <1>0, Orders DEF Remains
<1>2. /\ n = 7 => f = "model"
      /\ n = 6 => f = "artifact"
      /\ n \in 3..5 => f \in {"val_metrics", "val_trades", "val_weights"}
      /\ n = 2 => f = "config"
      /\ n = 1 => f = "summary"
  <2>1. CASE n = 7
    BY <1>0, <2>1, Orders
  <2>2. CASE n = 6
    BY <1>0, <2>2, Orders
  <2>3. CASE n = 5
    BY <1>0, <2>3, Orders
  <2>4. CASE n = 4
    BY <1>0, <2>4, Orders
  <2>5. CASE n = 3
    BY <1>0, <2>5, Orders
  <2>6. CASE n = 2
    BY <1>0, <2>6, Orders
  <2>7. CASE n = 1
    BY <1>0, <2>7, Orders
  <2> HIDE DEF f
  <2> QED BY <1>1, <2>1, <2>2, <2>3, <2>4, <2>5, <2>6, <2>7
<1>3. f \notin Results
  <2> HIDE DEF f, n
  <2>1. n \in {1, 2, 6, 7} \/ n \in 3..5
    BY <1>1
  <2> QED BY <1>2, <2>1 DEF Results
<1> QED BY <1>0, <1>1, <1>2, <1>3

\* The file that an evaluation writes next, and what it leaves alone.
LEMMA EvaluationFile ==
  ASSUME TypeInv, PlanInv, NEW p \in Procs, ~Trains(p), OpenFile(p) \/ CloseFile(p)
  PROVE  LET n == Len(proc[p].todo)
             f == Output(p)[Len(Output(p)) - n + 1]
         IN  /\ n \in 1..3 /\ Remains(proc[p].todo, Output(p)) /\ proc[p].step = "writing"
             /\ files'["model"] = files["model"] /\ files'["artifact"] = files["artifact"]
             /\ files'["config"] = files["config"] /\ files'["summary"] = files["summary"]
             /\ p \notin Testers => \A g \in Results : files'[g] = files[g]
             /\ p \in Testers => /\ f \in Results
                                 /\ n = 3 => f = "test_metrics"
                                 /\ n = 2 => f = "test_trades"
                                 /\ n = 1 => f = "test_weights"
<1> DEFINE n == Len(proc[p].todo)
           f == Output(p)[Len(Output(p)) - n + 1]
<1>0. /\ proc[p].step = "writing" /\ Remains(proc[p].todo, Output(p))
      /\ Output(p) = IF p \in Testers THEN TestFiles ELSE ValidationFiles
  BY OutputType DEF Trains, Procs, PlanInv, OpenFile, CloseFile
<1>1. n \in 1..3
  BY <1>0, Orders DEF Remains
<1>2. \E w \in BOOLEAN : Writes(p, f, w)
  BY <1>0, EntryAfterWrite
<1>3. CASE p \notin Testers
  <2>0. Output(p) = ValidationFiles
    BY <1>0, <1>3
  <2>1. f \in {"val_metrics", "val_trades", "val_weights"}
    <3>1. CASE n = 1
      BY <2>0, <3>1, Orders
    <3>2. CASE n = 2
      BY <2>0, <3>2, Orders
    <3>3. CASE n = 3
      BY <2>0, <3>3, Orders
    <3> HIDE DEF f
    <3> QED BY <1>1, <3>1, <3>2, <3>3
  <2> HIDE DEF f
  <2>2. /\ files'["model"] = files["model"] /\ files'["artifact"] = files["artifact"]
        /\ files'["config"] = files["config"] /\ files'["summary"] = files["summary"]
        /\ \A g \in Results : files'[g] = files[g]
    BY <1>2, <2>1, NamesAre DEF Writes, Results
  <2> QED BY <1>0, <1>1, <1>3, <2>2 DEF f
<1>4. CASE p \in Testers
  <2>0. Output(p) = TestFiles
    BY <1>0, <1>4
  <2>1. /\ n = 3 => f = "test_metrics"
        /\ n = 2 => f = "test_trades"
        /\ n = 1 => f = "test_weights"
    <3>1. CASE n = 1
      BY <2>0, <3>1, Orders
    <3>2. CASE n = 2
      BY <2>0, <3>2, Orders
    <3>3. CASE n = 3
      BY <2>0, <3>3, Orders
    <3> HIDE DEF f
    <3> QED BY <1>1, <3>1, <3>2, <3>3
  <2> HIDE DEF f
  <2>2. f \in Results
    BY <1>1, <2>1 DEF Results
  <2>3. /\ files'["model"] = files["model"] /\ files'["artifact"] = files["artifact"]
        /\ files'["config"] = files["config"] /\ files'["summary"] = files["summary"]
    BY <1>2, <2>2, NamesAre DEF Writes, Results
  <2> QED BY <1>0, <1>1, <1>4, <2>1, <2>2, <2>3 DEF f
<1> QED BY <1>3, <1>4

\* A step that neither opens nor closes a file leaves them all.
LEMMA OnlyWritesWrite ==
  ASSUME NEW p \in Procs, Work(p) \/ Crash(p), ~OpenFile(p), ~CloseFile(p)
  PROVE  files' = files
BY DEF Work, Start, Repeat, Compute, HashFiles, OpenManifest, CloseManifest, Crash

-----------------------------------------------------------------------------
(***************************************************************************)
(* Trainings that follow each other.                                       *)
(***************************************************************************)

\* A training that does nothing over files that stay.
LEMMA TrainerFrame ==
  ASSUME NEW q \in Procs, TrainerInv(q), proc'[q] = proc[q],
         files'["model"] = files["model"], files'["artifact"] = files["artifact"],
         files'["config"] = files["config"], files'["summary"] = files["summary"]
  PROVE  TrainerInv(q)'
BY DEF TrainerInv, Exists, MadeBy, Whole

\* A training that writes keeps the order of the directory.
LEMMA TrainerWrites ==
  ASSUME TrainingInv, NEW p \in Procs, Trains(p), OpenFile(p) \/ CloseFile(p)
  PROVE  TrainedInv' /\ TrainerInv(p)'
<1> DEFINE n == Len(proc[p].todo)
           f == Output(p)[Len(Output(p)) - n + 1]
           Kept == /\ files'["model"] = files["model"]
                   /\ files'["artifact"] = files["artifact"]
                   /\ files'["config"] = files["config"]
                   /\ files'["summary"] = files["summary"]
<1>0. /\ TypeInv /\ PlanInv /\ TrainedInv /\ TrainerInv(p) /\ proc[p].step = "writing"
      /\ locked' = locked
  BY DEF TrainingInv, OpenFile, CloseFile
<1>1. n \in 1..7 /\ Remains(proc[p].todo, Output(p))
  BY <1>0, TrainingFile
<1>2. /\ n = 7 => f = "model"
      /\ n = 6 => f = "artifact"
      /\ n \in 3..5 => f \in {"val_metrics", "val_trades", "val_weights"}
      /\ n = 2 => f = "config"
      /\ n = 1 => f = "summary"
  BY <1>0, TrainingFile
<1>3. \A g \in Names : Whole(g) => Exists(g)
  BY DEF Whole, Exists, Missing
<1>4. ASSUME n \in 3..5, NEW w, Writes(p, f, w) PROVE Kept
  BY <1>2, <1>4, NamesAre DEF Writes
<1> USE DEF MadeBy, Exists, Whole
<1>5. CASE OpenFile(p)
  <2>1. /\ proc'[p].todo = proc[p].todo /\ proc'[p].step = "writing"
        /\ ~proc[p].open /\ proc'[p].open /\ Writes(p, f, FALSE)
    BY <1>0, <1>1, <1>5, EntryAfterWrite
  <2>2. TrainedInv'
    <3>1. CASE n = 7
      BY <1>0, <1>2, <1>3, <2>1, <3>1, NamesAre DEF TrainedInv, TrainerInv, Writes
    <3>2. CASE n = 6
      BY <1>0, <1>2, <1>3, <2>1, <3>2, NamesAre DEF TrainedInv, TrainerInv, Writes
    <3>3. CASE n \in 3..5
      <4>1. Kept
        BY <1>4, <2>1, <3>3
      <4> QED BY <1>0, <4>1 DEF TrainedInv
    <3>4. CASE n = 2
      BY <1>0, <1>2, <1>3, <2>1, <3>4, NamesAre DEF TrainedInv, TrainerInv, Writes
    <3>5. CASE n = 1
      BY <1>0, <1>2, <1>3, <2>1, <3>5, NamesAre DEF TrainedInv, TrainerInv, Writes
    <3> QED BY <1>1, <3>1, <3>2, <3>3, <3>4, <3>5
  <2>3. TrainerInv(p)'
    <3>1. CASE n = 7
      BY <1>0, <1>1, <1>2, <2>1, <3>1, NamesAre DEF TrainerInv, Writes
    <3>2. CASE n = 6
      BY <1>0, <1>1, <1>2, <2>1, <3>2, NamesAre DEF TrainerInv, Writes
    <3>3. CASE n \in 3..5
      <4>1. Kept
        BY <1>4, <2>1, <3>3
      <4> QED BY <1>0, <1>1, <2>1, <3>3, <4>1 DEF TrainerInv
    <3>4. CASE n = 2
      BY <1>0, <1>1, <1>2, <2>1, <3>4, NamesAre DEF TrainerInv, Writes
    <3>5. CASE n = 1
      BY <1>0, <1>1, <1>2, <2>1, <3>5, NamesAre DEF TrainerInv, Writes
    <3> QED BY <1>1, <3>1, <3>2, <3>3, <3>4, <3>5
  <2> QED BY <2>2, <2>3
<1>6. CASE CloseFile(p)
  <2>1. /\ Len(proc'[p].todo) = n - 1
        /\ (n = 1 => proc'[p].step = "hashing")
        /\ (n # 1 => proc'[p].step = "writing" /\ Remains(proc'[p].todo, Output(p)))
        /\ proc[p].open /\ ~proc'[p].open /\ Writes(p, f, TRUE)
    BY <1>0, <1>1, <1>6, EntryAfterWrite
  <2>2. TrainedInv'
    <3>1. CASE n = 7
      BY <1>0, <1>2, <1>3, <2>1, <3>1, NamesAre DEF TrainedInv, TrainerInv, Writes
    <3>2. CASE n = 6
      BY <1>0, <1>2, <1>3, <2>1, <3>2, NamesAre DEF TrainedInv, TrainerInv, Writes
    <3>3. CASE n \in 3..5
      <4>1. Kept
        BY <1>4, <2>1, <3>3
      <4> QED BY <1>0, <4>1 DEF TrainedInv
    <3>4. CASE n = 2
      BY <1>0, <1>2, <1>3, <2>1, <3>4, NamesAre DEF TrainedInv, TrainerInv, Writes
    <3>5. CASE n = 1
      BY <1>0, <1>2, <1>3, <2>1, <3>5, NamesAre DEF TrainedInv, TrainerInv, Writes
    <3> QED BY <1>1, <3>1, <3>2, <3>3, <3>4, <3>5
  <2>3. TrainerInv(p)'
    <3>1. CASE n = 7
      BY <1>0, <1>1, <1>2, <2>1, <3>1, NamesAre DEF TrainerInv, Writes
    <3>2. CASE n = 6
      BY <1>0, <1>1, <1>2, <2>1, <3>2, NamesAre DEF TrainerInv, Writes
    <3>3. CASE n \in 3..5
      <4>1. Kept
        BY <1>4, <2>1, <3>3
      <4>2. CASE n = 3
        BY <1>0, <2>1, <4>1, <4>2 DEF TrainerInv
      <4>3. CASE n = 4
        BY <1>0, <2>1, <4>1, <4>3 DEF TrainerInv
      <4>4. CASE n = 5
        BY <1>0, <2>1, <4>1, <4>4 DEF TrainerInv
      <4> HIDE DEF n
      <4> QED BY <3>3, <4>2, <4>3, <4>4
    <3>4. CASE n = 2
      BY <1>0, <1>1, <1>2, <2>1, <3>4, NamesAre DEF TrainerInv, Writes
    <3>5. CASE n = 1
      BY <1>0, <1>1, <1>2, <2>1, <3>5, NamesAre DEF TrainerInv, Writes
    <3> QED BY <1>1, <3>1, <3>2, <3>3, <3>4, <3>5
  <2> QED BY <2>2, <2>3
<1> QED BY <1>5, <1>6


\* While trainings follow each other, a step keeps what they have written.
LEMMA TrainingStep ==
  ASSUME TrainingInv, TrainingsSerial, NEW p \in Procs, Work(p) \/ Crash(p)
  PROVE  TrainingInv'
<1>0. TypeOK /\ TypeInv /\ PlanInv /\ TrainedInv /\ (Trains(p) => TrainerInv(p))
  BY DEF TrainingInv, TypeInv
<1>1. TypeInv' /\ PlanInv' /\ \A q \in Procs : q # p => proc'[q] = proc[q]
  <2>1. [Next]_vars
    BY DEF Next
  <2> QED BY <1>0, <2>1, TypeStep, PlanStep, OthersRest
<1>2. CASE OpenFile(p) \/ CloseFile(p)
  <2>1. p \in AtWork /\ locked' = locked
    BY <1>2 DEF OpenFile, CloseFile, AtWork, Working
  <2>2. CASE Trains(p)
    <3>1. TrainedInv' /\ TrainerInv(p)'
      BY <1>2, <2>2, TrainerWrites
    <3>2. ASSUME NEW q \in Procs, q # p, Trains(q) PROVE TrainerInv(q)'
      <4>1. proc'[q] = proc[q] /\ proc[q].step \notin Working
        BY <1>1, <2>1, <2>2, <3>2 DEF TrainingsSerial, AtWork
      <4> QED BY <4>1 DEF TrainerInv, Working
    <3> QED BY <1>1, <3>1, <3>2 DEF TrainingInv
  <2>3. CASE ~Trains(p)
    <3>1. /\ files'["model"] = files["model"] /\ files'["artifact"] = files["artifact"]
          /\ files'["config"] = files["config"] /\ files'["summary"] = files["summary"]
      BY <1>0, <1>2, <2>3, EvaluationFile
    <3>2. TrainedInv'
      BY <1>0, <2>1, <3>1 DEF TrainedInv, Exists, MadeBy, Whole
    <3>3. ASSUME NEW q \in Procs, Trains(q) PROVE TrainerInv(q)'
      <4>1. q # p /\ TrainerInv(q)
        BY <2>3, <3>3 DEF TrainingInv
      <4> QED BY <1>1, <3>1, <4>1, TrainerFrame
    <3> QED BY <1>1, <3>2, <3>3 DEF TrainingInv
  <2> QED BY <2>2, <2>3
<1>3. CASE ~OpenFile(p) /\ ~CloseFile(p)
  <2>1. files' = files
    BY <1>3, OnlyWritesWrite
  <2>2. locked' => locked \/ Whole("summary")
    <3>1. CASE Start(p)
      BY <3>1 DEF Start, SummaryUsable
    <3>2. CASE CloseManifest(p)
      <4>1. locked' => locked \/ Trains(p)
        BY <3>2 DEF CloseManifest, Trains
      <4>2. Trains(p) => Whole("summary")
        BY <1>0, <3>2 DEF CloseManifest, TrainerInv
      <4> QED BY <4>1, <4>2
    <3> QED BY <1>3, <3>1, <3>2 DEF Work, Repeat, Compute, HashFiles, OpenManifest, Crash
  <2>3. TrainedInv'
    BY <1>0, <2>1, <2>2 DEF TrainedInv, Exists, MadeBy, Whole
  <2>4. ASSUME Trains(p) PROVE TrainerInv(p)'
    <3>1. CASE Start(p)
      <4>1. proc'[p].step \in {"over", "raised", "checked"}
        BY <1>0, <3>1, EntryAfter
      <4>2. proc'[p].step = "checked" => ~Exists("artifact")
        BY <1>0, <2>4, <3>1 DEF Start, TypeOK, Process, May, Trains, TrainedBefore
      <4> QED BY <2>1, <4>1, <4>2 DEF TrainerInv, Exists
    <3>2. CASE Repeat(p) \/ Crash(p)
      <4>1. proc'[p].step \in {"idle", "over"}
        BY <1>0, <3>2, EntryAfter
      <4> QED BY <4>1 DEF TrainerInv
    <3>3. CASE Compute(p)
      <4>1. ~Exists("artifact") /\ ~Exists("config") /\ ~Exists("summary")
        <5>1. \A g \in Names : Whole(g) => Exists(g)
          BY DEF Whole, Exists, Missing
        <5>2. ~Exists("artifact")
          BY <1>0, <2>4, <3>3 DEF Compute, TrainerInv
        <5> QED BY <1>0, <5>1, <5>2, NamesAre DEF TrainedInv, MadeBy
      <4>2. \/ proc'[p].step = "raised"
            \/ proc'[p].step = "writing" /\ proc'[p].todo = Output(p)
        BY <1>0, <3>3, EntryAfter
      <4>3. Len(Output(p)) = 7
        BY <2>4, PlanRemains
      <4>4. CASE proc'[p].step = "raised"
        BY <4>4 DEF TrainerInv
      <4>5. CASE proc'[p].step = "writing" /\ proc'[p].todo = Output(p)
        <5>1. proc'[p].step = "writing" /\ Len(proc'[p].todo) = 7
          BY <4>3, <4>5
        <5>2. ~Exists("artifact")' /\ ~Exists("config")' /\ ~Exists("summary")'
          BY <2>1, <4>1 DEF Exists
        <5> QED BY <5>1, <5>2 DEF TrainerInv
      <4> QED BY <4>2, <4>4, <4>5
    <3>4. CASE HashFiles(p) \/ OpenManifest(p) \/ CloseManifest(p)
      <4>1. Whole("summary")
        BY <1>0, <2>4, <3>4 DEF HashFiles, OpenManifest, CloseManifest, TrainerInv
      <4>2. proc'[p].step \in {"manifest", "manifest_open", "over"}
        BY <1>0, <3>4, EntryAfter
      <4> QED BY <2>1, <4>1, <4>2 DEF TrainerInv, Whole
    <3> QED BY <1>3, <3>1, <3>2, <3>3, <3>4 DEF Work
  <2>5. ASSUME NEW q \in Procs, Trains(q) PROVE TrainerInv(q)'
    <3>1. CASE q = p
      BY <2>4, <2>5, <3>1
    <3>2. CASE q # p
      <4>1. TrainerInv(q)
        BY <2>5 DEF TrainingInv
      <4> QED BY <1>1, <2>1, <3>2, <4>1, TrainerFrame
    <3> QED BY <3>1, <3>2
  <2> QED BY <1>1, <2>3, <2>5 DEF TrainingInv
<1> QED BY <1>2, <1>3

\* The empty directory.
LEMMA EmptyDirectory ==
  ASSUME Init
  PROVE  /\ TypeInv /\ PlanInv /\ ~locked /\ manifest = {}
         /\ \A f \in Names : ~Exists(f)
         /\ \A p \in Procs : proc[p].step = "idle"
<1>1. \A p \in Procs : proc[p].step = "idle" /\ ~proc[p].open
  BY DEF Init
<1>2. ~locked /\ manifest = {} /\ \A f \in Names : ~Exists(f)
  BY DEF Init, Exists
<1> QED BY <1>1, <1>2, TypeInit DEF PlanInv

\* However evaluations overlap with them, as long as trainings follow each other
\* the files they wrote vouch for one another, wherever one was killed
\* (rl/workflow.py:112-192).
THEOREM Vouching == Spec /\ []TrainingsSerial => []TrainingInv
<1>1. Init => TrainingInv
  <2> SUFFICES ASSUME Init PROVE TrainingInv
    OBVIOUS
  <2> QED BY EmptyDirectory, NamesAre DEF TrainingInv, TrainedInv, TrainerInv
<1>2. TrainingInv /\ TrainingsSerial /\ [Next]_vars => TrainingInv'
  <2> SUFFICES ASSUME TrainingInv, TrainingsSerial, [Next]_vars PROVE TrainingInv'
    OBVIOUS
  <2>1. CASE UNCHANGED vars
    <3>1. TypeInv'
      BY TypeStep DEF TrainingInv
    <3>2. PlanInv' /\ TrainedInv'
      BY <2>1 DEF vars, TrainingInv, PlanInv, TrainedInv, Exists, MadeBy, Whole, Output,
                  TrainingOrder
    <3>3. \A q \in Procs : Trains(q) => TrainerInv(q)'
      BY <2>1, TrainerFrame DEF vars, TrainingInv
    <3> QED BY <3>1, <3>2, <3>3 DEF TrainingInv
  <2> QED BY <2>1, TrainingStep DEF Next
<1> QED BY <1>1, <1>2, PTL DEF Spec

\* As long as no two trainings are at work together, a run that has a summary
\* has the model, record and configuration it describes, all from one training,
\* wherever a command was killed and whatever evaluations overlap.
THEOREM SummaryAlways == Spec /\ []TrainingsSerial => []SummaryDescribesRun
<1>1. TrainingInv => SummaryDescribesRun
  <2> SUFFICES ASSUME TrainingInv PROVE SummaryDescribesRun
    OBVIOUS
  <2>1. \A g \in Names : Whole(g) => Exists(g)
    BY DEF Whole, Exists, Missing
  <2> QED BY <2>1, NamesAre DEF TrainingInv, TrainedInv, MadeBy, SummaryDescribesRun
<1> QED BY <1>1, Vouching, PTL

\* Under the same hypothesis locked parameters name a checkpoint that a complete
\* training left.
THEOREM LockAlways == Spec /\ []TrainingsSerial => []LockedCheckpointComplete
<1>1. TrainingInv => LockedCheckpointComplete
  <2> SUFFICES ASSUME TrainingInv PROVE LockedCheckpointComplete
    OBVIOUS
  <2>1. \A g \in Names : Whole(g) => Exists(g)
    BY DEF Whole, Exists, Missing
  <2> QED BY <2>1, NamesAre DEF TrainingInv, TrainedInv, MadeBy, LockedCheckpointComplete
<1> QED BY <1>1, Vouching, PTL


-----------------------------------------------------------------------------
(***************************************************************************)
(* Evaluations beside trainings that follow each other.                    *)
(***************************************************************************)

\* A training writes no result of the test, touches the model only while there is
\* no configuration, and leaves a configuration that is finished so.
LEMMA TrainingKeepsRun ==
  ASSUME TrainingInv, NEW p \in Procs, Trains(p), OpenFile(p) \/ CloseFile(p)
  PROVE  /\ \A g \in Results : files'[g] = files[g]
         /\ files'["model"] = files["model"] \/ ~Exists("config")
         /\ Whole("config") => Whole("config")'
<1> DEFINE n == Len(proc[p].todo)
           f == Output(p)[Len(Output(p)) - n + 1]
<1>0. TypeInv /\ PlanInv /\ TrainerInv(p) /\ \A g \in Names : Whole(g) => Exists(g)
  BY DEF TrainingInv, Whole, Exists, Missing
<1>1. /\ n \in 1..7 /\ Remains(proc[p].todo, Output(p)) /\ proc[p].step = "writing"
      /\ n = 7 => f = "model"
      /\ n = 6 => f = "artifact"
      /\ n \in 3..5 => f \in {"val_metrics", "val_trades", "val_weights"}
      /\ n = 2 => f = "config"
      /\ n = 1 => f = "summary"
      /\ f \notin Results
  BY <1>0, TrainingFile
<1>2. /\ OpenFile(p) => ~proc[p].open /\ Writes(p, f, FALSE)
      /\ CloseFile(p) => Writes(p, f, TRUE)
  BY <1>0, <1>1, EntryAfterWrite
<1> HIDE DEF f
<1>3. \A g \in Results : files'[g] = files[g]
  BY <1>1, <1>2, NamesAre DEF Writes, Results
<1>4. CASE n \in {6, 7}
  <2>1. n > 2
    <3> HIDE DEF n
    <3> QED BY <1>4
  <2>2. ~Exists("config")
    BY <1>1, <2>1 DEF TrainerInv, TrainingInv
  <2> QED BY <1>0, <1>3, <2>2, NamesAre
<1>5. CASE n = 1 \/ n \in 3..5
  <2>1. files'["config"] = files["config"] /\ files'["model"] = files["model"]
    BY <1>1, <1>2, <1>5, NamesAre DEF Writes
  <2> QED BY <1>3, <2>1 DEF Whole
<1>6. CASE n = 2
  <2>1. files'["model"] = files["model"] /\ (CloseFile(p) => Whole("config")')
    BY <1>1, <1>2, <1>6, NamesAre DEF Writes, Whole
  <2>2. OpenFile(p) => ~Exists("config")
    <3>1. OpenFile(p) => n = 2 /\ ~proc[p].open
      BY <1>2, <1>6
    <3> QED BY <1>0, <1>1, <3>1 DEF TrainerInv
  <2> QED BY <1>0, <1>3, <2>1, <2>2, NamesAre
<1> HIDE DEF n
<1>7. n \in {6, 7} \/ n = 1 \/ n = 2 \/ n \in 3..5
  BY <1>1
<1> QED BY <1>4, <1>5, <1>6, <1>7

\* While trainings follow each other, a step keeps every result about the model
\* beside it, and every evaluation at work on the run it checked.
LEMMA FinalStep ==
  ASSUME FinalInv, TrainingsSerial, NEW p \in Procs, Work(p) \/ Crash(p)
  PROVE  FinalInv'
<1>0. /\ TrainingInv /\ TypeInv /\ TypeOK /\ PlanInv /\ ResultsInv
      /\ \A g \in Names : Whole(g) => Exists(g)
  BY DEF FinalInv, TrainingInv, TypeInv, Whole, Exists, Missing
<1>1. TrainingInv' /\ \A q \in Procs : q # p => proc'[q] = proc[q]
  BY <1>0, TrainingStep, OthersRest
<1>2. CASE OpenFile(p) \/ CloseFile(p)
  <2>0. p \in AtWork /\ proc[p].step = "writing"
    BY <1>2 DEF OpenFile, CloseFile, AtWork, Working
  <2>1. CASE Trains(p)
    <3>1. ResultsInv'
      <4>1. /\ \A g \in Results : files'[g] = files[g]
            /\ files'["model"] = files["model"] \/ ~Exists("config")
            /\ Whole("config") => Whole("config")'
        BY <1>0, <1>2, <2>1, TrainingKeepsRun
      <4>2. \A g \in Results : Exists(g)' => Exists(g)
        BY <4>1 DEF Exists
      <4>3. ASSUME NEW g \in Results, Exists(g)
            PROVE  Whole("config")' /\ files'[g].model = files'["model"].by
        BY <1>0, <4>1, <4>3, NamesAre DEF ResultsInv
      <4> QED BY <4>2, <4>3 DEF ResultsInv
    <3>2. /\ files'["model"] = files["model"] \/ ~Exists("config")
          /\ Whole("config") => Whole("config")'
      BY <1>0, <1>2, <2>1, TrainingKeepsRun DEF TrainingInv
    <3>3. ASSUME NEW q \in Procs, ~Trains(q) PROVE ReaderInv(q)'
      <4>1. q # p /\ proc'[q] = proc[q] /\ ReaderInv(q)
        BY <1>1, <2>1, <3>3 DEF FinalInv
      <4>2. CASE Whole("config")
        <5>1. files'["model"] = files["model"]
          BY <1>0, <3>2, <4>2, NamesAre
        <5> QED BY <3>2, <4>1, <4>2, <5>1 DEF ReaderInv
      <4>3. CASE ~Whole("config")
        BY <4>1, <4>3 DEF ReaderInv
      <4> QED BY <4>2, <4>3
    <3> QED BY <1>1, <3>1, <3>3 DEF FinalInv
  <2>2. CASE ~Trains(p)
    <3> DEFINE n == Len(proc[p].todo)
               f == Output(p)[Len(Output(p)) - n + 1]
    <3>1. /\ Remains(proc[p].todo, Output(p))
          /\ files'["model"] = files["model"] /\ files'["config"] = files["config"]
          /\ p \notin Testers => \A g \in Results : files'[g] = files[g]
      BY <1>0, <1>2, <2>2, EvaluationFile
    <3>2. Whole("config") /\ proc[p].model = files["model"].by
      BY <2>0, <2>2 DEF FinalInv, ReaderInv
    <3>3. /\ proc'[p].model = proc[p].model /\ \E w \in BOOLEAN : Writes(p, f, w)
          /\ proc'[p].step \in {"writing", "hashing"}
      <4>1. CASE OpenFile(p)
        BY <1>0, <2>0, <3>1, <4>1, EntryAfterWrite
      <4>2. CASE CloseFile(p)
        BY <1>0, <2>0, <3>1, <4>2, EntryAfterWrite
      <4> QED BY <1>2, <4>1, <4>2
    <3> HIDE DEF f, n
    <3>4. ResultsInv'
      <4>1. ASSUME NEW g \in Results
            PROVE  files'[g] = files[g] \/ files'[g].model = files["model"].by
        BY <3>2, <3>3, NamesAre DEF Writes, Results
      <4> QED BY <1>0, <3>1, <3>2, <4>1 DEF ResultsInv, Exists, Whole
    <3>5. ReaderInv(p)'
      BY <3>1, <3>2, <3>3 DEF ReaderInv, Whole
    <3>6. ASSUME NEW q \in Procs, q # p, ~Trains(q) PROVE ReaderInv(q)'
      BY <1>1, <3>1, <3>6 DEF FinalInv, ReaderInv, Whole
    <3> QED BY <1>1, <3>4, <3>5, <3>6 DEF FinalInv
  <2> QED BY <2>1, <2>2
<1>3. CASE ~OpenFile(p) /\ ~CloseFile(p)
  <2>1. files' = files
    BY <1>3, OnlyWritesWrite
  <2>2. ResultsInv'
    BY <1>0, <2>1 DEF ResultsInv, Exists, Whole
  <2>3. ASSUME ~Trains(p) PROVE ReaderInv(p)'
    <3>1. CASE Start(p)
      <4>1. proc'[p].step \in {"over", "raised", "checked"}
        BY <1>0, <3>1, EntryAfter
      <4>2. proc'[p].step = "checked" => Whole("config")
        BY <1>0, <2>3, <3>1 DEF Start, TypeOK, Process, May, Trains, MayEvaluate
      <4> QED BY <2>1, <4>1, <4>2 DEF ReaderInv, Whole
    <3>2. CASE Compute(p)
      <4>1. Whole("config")
        BY <2>3, <3>2 DEF FinalInv, ReaderInv, Compute
      <4>2. \/ proc'[p].step = "raised"
            \/ proc'[p].step = "writing" /\ proc'[p].model = files["model"].by
        BY <1>0, <2>3, <3>2, EntryAfter
      <4> QED BY <2>1, <4>1, <4>2 DEF ReaderInv, Whole
    <3>3. CASE ~Start(p) /\ ~Compute(p)
      <4>1. proc'[p].step \notin {"checked", "writing"}
        BY <1>0, <1>3, <3>3, EntryAfter DEF Work
      <4> QED BY <4>1 DEF ReaderInv
    <3> QED BY <3>1, <3>2, <3>3
  <2>4. ASSUME NEW q \in Procs, q # p, ~Trains(q) PROVE ReaderInv(q)'
    BY <1>1, <2>1, <2>4 DEF FinalInv, ReaderInv, Whole
  <2> QED BY <1>1, <2>2, <2>3, <2>4 DEF FinalInv
<1> QED BY <1>2, <1>3

\* As long as no two trainings are at work together, test results, even partial
\* ones, are about the model that lies beside them, and that model is one whose
\* training recorded its artifact and its configuration: however trainings and
\* evaluations overlap and wherever a command was killed (rl/workflow.py:217-243).
\* A repeated training that starts while an evaluation runs does not replace the
\* model the evaluation loaded.
THEOREM TestAlways == Spec /\ []TrainingsSerial => []TestOfFinalModel
<1>1. Init => FinalInv
  <2> SUFFICES ASSUME Init PROVE FinalInv
    OBVIOUS
  <2>1. TrainingInv
    BY EmptyDirectory, NamesAre DEF TrainingInv, TrainedInv, TrainerInv
  <2>2. ResultsInv /\ \A p \in Procs : ReaderInv(p)
    BY EmptyDirectory, NamesAre DEF ResultsInv, ReaderInv, Results
  <2> QED BY <2>1, <2>2 DEF FinalInv
<1>2. FinalInv /\ TrainingsSerial /\ [Next]_vars => FinalInv'
  <2> SUFFICES ASSUME FinalInv, TrainingsSerial, [Next]_vars PROVE FinalInv'
    OBVIOUS
  <2>1. CASE UNCHANGED vars
    <3>1. TypeInv'
      BY TypeStep DEF FinalInv, TrainingInv
    <3>2. PlanInv' /\ TrainedInv'
      BY <2>1 DEF vars, FinalInv, TrainingInv, PlanInv, TrainedInv, Exists, MadeBy, Whole,
                  Output, TrainingOrder
    <3>3. \A q \in Procs : Trains(q) => TrainerInv(q)'
      BY <2>1, TrainerFrame DEF vars, FinalInv, TrainingInv
    <3>4. ResultsInv' /\ \A q \in Procs : ~Trains(q) => ReaderInv(q)'
      BY <2>1 DEF vars, FinalInv, ResultsInv, ReaderInv, Exists, Whole
    <3> QED BY <3>1, <3>2, <3>3, <3>4 DEF FinalInv, TrainingInv
  <2> QED BY <2>1, FinalStep DEF Next
<1>3. FinalInv => TestOfFinalModel
  <2> SUFFICES ASSUME FinalInv PROVE TestOfFinalModel
    OBVIOUS
  <2>1. \A g \in Names : Whole(g) => Exists(g)
    BY DEF Whole, Exists, Missing
  <2> QED BY <2>1, NamesAre
         DEF FinalInv, TrainingInv, TrainedInv, ResultsInv, MadeBy, TestOfFinalModel, Results
<1> QED BY <1>1, <1>2, <1>3, PTL DEF Spec

-----------------------------------------------------------------------------
(***************************************************************************)
(* Tests that follow each other.                                           *)
(***************************************************************************)

\* A step that is not a test's leaves the results of the test.
LEMMA OthersLeaveResults ==
  ASSUME TypeInv, PlanInv, NEW p \in Procs, p \notin Testers, Work(p) \/ Crash(p)
  PROVE  \A g \in Results : files'[g] = files[g]
<1>1. CASE ~OpenFile(p) /\ ~CloseFile(p)
  BY <1>1, OnlyWritesWrite
<1>2. CASE (OpenFile(p) \/ CloseFile(p)) /\ ~Trains(p)
  BY <1>2, EvaluationFile
<1>3. CASE (OpenFile(p) \/ CloseFile(p)) /\ Trains(p)
  <2> DEFINE f == Output(p)[Len(Output(p)) - Len(proc[p].todo) + 1]
  <2>1. /\ Remains(proc[p].todo, Output(p)) /\ proc[p].step = "writing"
        /\ f \notin Results
    BY <1>3, TrainingFile
  <2>2. \E w \in BOOLEAN : Writes(p, f, w)
    BY <1>3, <2>1, EntryAfterWrite
  <2> HIDE DEF f
  <2> QED BY <2>1, <2>2, NamesAre DEF Writes, Results
<1> QED BY <1>1, <1>2, <1>3

\* A test writes results in their order, over nothing that is finished.
LEMMA TestWrites ==
  ASSUME TestInv, NEW p \in Testers, OpenFile(p) \/ CloseFile(p)
  PROVE  /\ TestOrder' /\ TesterInv(p)'
         /\ \A g \in Results : Whole(g) => files'[g] = files[g]
<1> DEFINE n == Len(proc[p].todo)
           f == Output(p)[Len(Output(p)) - n + 1]
<1>0. p \in Procs /\ ~Trains(p) /\ TypeInv /\ PlanInv /\ TestOrder /\ TesterInv(p)
  BY RunAssumption DEF TestInv, Procs, Trains
<1>1. /\ n \in 1..3 /\ Remains(proc[p].todo, Output(p)) /\ proc[p].step = "writing"
      /\ n = 3 => f = "test_metrics"
      /\ n = 2 => f = "test_trades"
      /\ n = 1 => f = "test_weights"
  BY <1>0, EvaluationFile
<1>2. /\ OpenFile(p) => /\ proc'[p].todo = proc[p].todo /\ proc'[p].step = "writing"
                        /\ Writes(p, f, FALSE)
      /\ CloseFile(p) => /\ Len(proc'[p].todo) = n - 1
                         /\ (n = 1 => proc'[p].step = "hashing")
                         /\ (n # 1 => proc'[p].step = "writing")
                         /\ Writes(p, f, TRUE)
  BY <1>0, <1>1, EntryAfterWrite
<1> HIDE DEF f
<1> USE DEF Exists, Whole, Results
<1>3. CASE n = 3
  <2>1. /\ files'["test_metrics"] # Missing
        /\ OpenFile(p) => ~files'["test_metrics"].whole
        /\ files'["test_trades"] = files["test_trades"]
        /\ files'["test_weights"] = files["test_weights"]
    BY <1>1, <1>2, <1>3, NamesAre DEF Writes
  <2>2. /\ ~Whole("test_metrics") /\ ~Whole("test_trades") /\ ~Whole("test_weights")
    BY <1>0, <1>1, <1>3 DEF TesterInv
  <2>3. TesterInv(p)'
    <3>1. CASE OpenFile(p)
      BY <1>2, <1>3, <2>1, <2>2, <3>1 DEF TesterInv
    <3>2. CASE CloseFile(p)
      <4>1. Len(proc'[p].todo) = 2 /\ proc'[p].step = "writing"
        BY <1>2, <1>3, <3>2
      <4> QED BY <4>1, <2>1, <2>2 DEF TesterInv
    <3> QED BY <3>1, <3>2
  <2> QED BY <2>1, <2>2, <2>3 DEF TestOrder
<1>4. CASE n = 2
  <2>1. /\ OpenFile(p) => ~files'["test_trades"].whole
        /\ files'["test_metrics"] = files["test_metrics"]
        /\ files'["test_weights"] = files["test_weights"]
    BY <1>1, <1>2, <1>4, NamesAre DEF Writes
  <2>2. Exists("test_metrics") /\ ~Whole("test_trades") /\ ~Whole("test_weights")
    BY <1>0, <1>1, <1>4 DEF TesterInv
  <2>3. TesterInv(p)'
    <3>1. CASE OpenFile(p)
      <4>1. Len(proc'[p].todo) = 2 /\ proc'[p].step = "writing"
        BY <1>2, <1>4, <3>1
      <4> QED BY <4>1, <2>1, <2>2, <3>1 DEF TesterInv
    <3>2. CASE CloseFile(p)
      <4>1. Len(proc'[p].todo) = 1 /\ proc'[p].step = "writing"
        BY <1>2, <1>4, <3>2
      <4> QED BY <4>1, <2>1, <2>2 DEF TesterInv
    <3> QED BY <3>1, <3>2
  <2> QED BY <2>1, <2>2, <2>3 DEF TestOrder
<1>5. CASE n = 1
  <2>1. /\ OpenFile(p) => ~files'["test_weights"].whole
        /\ files'["test_metrics"] = files["test_metrics"]
        /\ files'["test_trades"] = files["test_trades"]
    BY <1>1, <1>2, <1>5, NamesAre DEF Writes
  <2>2. Exists("test_metrics") /\ ~Whole("test_weights")
    BY <1>0, <1>1, <1>5 DEF TesterInv
  <2>3. TesterInv(p)'
    <3>1. CASE OpenFile(p)
      <4>1. Len(proc'[p].todo) = 1 /\ proc'[p].step = "writing"
        BY <1>2, <1>5, <3>1
      <4> QED BY <4>1, <2>1, <2>2, <3>1 DEF TesterInv
    <3>2. CASE CloseFile(p)
      BY <1>2, <1>5, <3>2 DEF TesterInv
    <3> QED BY <3>1, <3>2
  <2> QED BY <2>1, <2>2, <2>3 DEF TestOrder
<1> HIDE DEF n
<1>6. n = 1 \/ n = 2 \/ n = 3
  BY <1>1
<1> QED BY <1>3, <1>4, <1>5, <1>6

\* While tests follow each other, one that is at work found no result and has
\* finished none of those it has still to write.
LEMMA TestStep ==
  ASSUME TestInv, TestsSerial, NEW p \in Procs, Work(p) \/ Crash(p)
  PROVE  TestInv'
<1>0. TypeInv /\ TypeOK /\ PlanInv /\ TestOrder /\ Testers \subseteq Procs
  BY DEF TestInv, TypeInv, Procs
<1>1. TypeInv' /\ PlanInv' /\ \A q \in Procs : q # p => proc'[q] = proc[q]
  <2>1. [Next]_vars
    BY DEF Next
  <2> QED BY <1>0, <2>1, TypeStep, PlanStep, OthersRest
<1>2. ASSUME NEW q \in Testers, q # p, \A g \in Results : files'[g] = files[g]
      PROVE  TesterInv(q)'
  BY <1>0, <1>1, <1>2 DEF TestInv, TesterInv, Exists, Whole, Results
<1>3. CASE p \notin Testers
  <2>1. \A g \in Results : files'[g] = files[g]
    BY <1>0, <1>3, OthersLeaveResults
  <2>2. TestOrder'
    BY <1>0, <2>1 DEF TestOrder, Exists, Results
  <2> QED BY <1>1, <1>2, <1>3, <2>1, <2>2 DEF TestInv
<1>4. CASE p \in Testers /\ (OpenFile(p) \/ CloseFile(p))
  <2>1. TestOrder' /\ TesterInv(p)'
    BY <1>4, TestWrites
  <2>2. ASSUME NEW q \in Testers, q # p PROVE TesterInv(q)'
    <3>1. p \in AtWork
      BY <1>4 DEF OpenFile, CloseFile, AtWork, Working
    <3>2. q \notin AtWork
      BY <1>4, <2>2, <3>1 DEF TestsSerial
    <3>3. proc'[q].step \notin Working
      BY <1>0, <1>1, <2>2, <3>2 DEF AtWork
    <3> QED BY <3>3 DEF TesterInv, Working
  <2> QED BY <1>1, <2>1, <2>2 DEF TestInv
<1>5. CASE p \in Testers /\ ~OpenFile(p) /\ ~CloseFile(p)
  <2>1. files' = files /\ TesterInv(p) /\ ~Trains(p)
    BY <1>5, OnlyWritesWrite, RunAssumption DEF TestInv, Trains
  <2>2. TestOrder'
    BY <1>0, <2>1 DEF TestOrder, Exists
  <2>3. TesterInv(p)'
    <3>1. CASE Start(p)
      <4>1. proc'[p].step \in {"over", "raised", "checked"}
        BY <1>0, <3>1, EntryAfter
      <4>2. proc'[p].step = "checked" => ~Exists("test_metrics")
        BY <1>0, <1>5, <2>1, <3>1 DEF Start, TypeOK, Process, May, Trains, MayEvaluate
      <4> QED BY <2>1, <4>1, <4>2 DEF TesterInv, Exists
    <3>2. CASE Compute(p)
      <4>1. ~Exists("test_metrics") /\ ~Exists("test_trades") /\ ~Exists("test_weights")
        BY <1>0, <2>1, <3>2 DEF Compute, TesterInv, TestOrder
      <4>2. ~Whole("test_metrics") /\ ~Whole("test_trades") /\ ~Whole("test_weights")
        BY <4>1 DEF Exists, Whole, Missing
      <4>3. \/ proc'[p].step = "raised"
            \/ proc'[p].step = "writing" /\ proc'[p].todo = Output(p) /\ Len(Output(p)) = 3
        BY <1>0, <1>5, <3>2, EntryAfter, PlanRemains
      <4>4. CASE proc'[p].step = "raised"
        BY <4>4 DEF TesterInv
      <4>5. CASE proc'[p].step = "writing" /\ Len(proc'[p].todo) = 3
        BY <2>1, <4>2, <4>5 DEF TesterInv, Whole
      <4> QED BY <4>3, <4>4, <4>5
    <3>3. CASE ~Start(p) /\ ~Compute(p)
      <4>1. proc'[p].step \notin {"checked", "writing"}
        BY <1>0, <1>5, <3>3, EntryAfter DEF Work
      <4> QED BY <4>1 DEF TesterInv
    <3> QED BY <3>1, <3>2, <3>3
  <2> QED BY <1>1, <1>2, <2>1, <2>2, <2>3 DEF TestInv
<1> QED BY <1>3, <1>4, <1>5

\* No step replaces a finished result of the locked test: not a second test,
\* not a retrain, not a validation.
LEMMA ResultsKept ==
  ASSUME TestInv, [Next]_vars, NEW g \in Results, Whole(g)
  PROVE  files'[g] = files[g]
<1>0. TypeInv /\ PlanInv
  BY DEF TestInv
<1>1. ASSUME NEW p \in Procs, Work(p) \/ Crash(p) PROVE files'[g] = files[g]
  <2>1. CASE p \notin Testers
    BY <1>0, <1>1, <2>1, OthersLeaveResults
  <2>2. CASE p \in Testers /\ (OpenFile(p) \/ CloseFile(p))
    BY <2>2, TestWrites
  <2>3. CASE ~OpenFile(p) /\ ~CloseFile(p)
    BY <1>1, <2>3, OnlyWritesWrite
  <2> QED BY <2>1, <2>2, <2>3
<1> QED BY <1>1 DEF Next, vars

\* As long as no two tests are at work together, a finished file of the locked
\* test stays as it was written, whatever trainings, retrains and validations
\* overlap it and wherever a command was killed (rl/workflow.py:235).
THEOREM TestNeverReplaced == Spec /\ []TestsSerial => TestWrittenOnce
<1>1. Init => TestInv
  <2> SUFFICES ASSUME Init PROVE TestInv
    OBVIOUS
  <2> QED BY EmptyDirectory, NamesAre DEF TestInv, TestOrder, TesterInv, Procs
<1>2. TestInv /\ TestsSerial /\ [Next]_vars => TestInv'
  <2> SUFFICES ASSUME TestInv, TestsSerial, [Next]_vars PROVE TestInv'
    OBVIOUS
  <2>1. CASE UNCHANGED vars
    <3>1. TypeInv'
      BY TypeStep DEF TestInv
    <3>2. PlanInv' /\ TestOrder' /\ \A q \in Testers : TesterInv(q)'
      BY <2>1 DEF vars, TestInv, PlanInv, TestOrder, TesterInv, Exists, Whole, Output,
                  TrainingOrder
    <3> QED BY <3>1, <3>2 DEF TestInv
  <2> QED BY <2>1, TestStep DEF Next
<1>3. ASSUME TestInv, [Next]_vars
      PROVE  [\A f \in {"test_metrics", "test_trades", "test_weights"} :
                 Whole(f) => files'[f] = files[f]]_vars
  BY <1>3, ResultsKept DEF Results
<1> QED BY <1>1, <1>2, <1>3, PTL DEF Spec, TestWrittenOnce

-----------------------------------------------------------------------------
(***************************************************************************)
(* Commands that follow each other.                                        *)
(***************************************************************************)

\* While one command is at work, a step keeps the manifest, or what will become
\* it, the directory as it is.
LEMMA ManifestStep ==
  ASSUME TypeInv, ManifestInv, Serial, NEW p \in Procs, Work(p) \/ Crash(p)
  PROVE  ManifestInv'
<1>0. TypeOK /\ \A q \in Procs : q # p => proc'[q] = proc[q]
  BY OthersRest DEF TypeInv
<1>1. ASSUME p \in AtWork PROVE \A q \in Procs : q # p => proc[q].step \notin Working
  BY <1>1 DEF Serial, AtWork
<1>2. CASE Start(p) \/ Repeat(p)
  <2>1. /\ files' = files /\ manifest' = manifest /\ crashes' = crashes
        /\ proc[p].step \notin Working
    BY <1>2 DEF Start, Repeat, Working
  <2>2. proc'[p].step \in {"over", "raised", "checked", "idle"}
    BY <1>2, EntryAfter
  <2>3. ASSUME crashes = 0
        PROVE  \A q \in Procs :
                  proc'[q].step \in {"manifest", "manifest_open"} => proc'[q].seen = {files}
    BY <1>0, <2>2, <2>3 DEF ManifestInv
  <2>4. ASSUME NEW q \in Procs, proc[q].step \in {"writing", "hashing", "manifest"}
        PROVE  proc'[q].step \in {"writing", "hashing", "manifest"}
    BY <1>0, <2>1, <2>4 DEF Working
  <2> QED BY <2>1, <2>3, <2>4 DEF ManifestInv
<1>3. CASE Compute(p)
  <2>1. /\ files' = files /\ manifest' = manifest /\ crashes' = crashes
        /\ p \in AtWork /\ proc[p].step = "checked"
    BY <1>3 DEF Compute, AtWork, Working
  <2>2. proc'[p].step \in {"raised", "writing"}
    BY <1>3, EntryAfter
  <2> QED BY <1>0, <1>1, <2>1, <2>2 DEF ManifestInv, Working
<1>4. CASE OpenFile(p) \/ CloseFile(p)
  <2>1. p \in AtWork /\ crashes' = crashes
    BY <1>4 DEF OpenFile, CloseFile, AtWork, Working
  <2>2. proc'[p].step \in {"writing", "hashing"}
    BY <1>0, <1>4 DEF OpenFile, CloseFile, TypeOK, Process
  <2> QED BY <1>0, <1>1, <2>1, <2>2 DEF ManifestInv, Working
<1>5. CASE HashFiles(p)
  <2>1. /\ files' = files /\ p \in AtWork
        /\ proc'[p].step = "manifest" /\ proc'[p].seen = {files}
    BY <1>5, EntryAfter DEF HashFiles, AtWork, Working
  <2> QED BY <1>0, <1>1, <2>1 DEF ManifestInv, Working
<1>6. CASE OpenManifest(p)
  <2>1. /\ files' = files /\ crashes' = crashes /\ manifest' = {} /\ p \in AtWork
        /\ proc'[p].seen = proc[p].seen /\ proc[p].step = "manifest"
    BY <1>6, EntryAfter DEF OpenManifest, AtWork, Working
  <2> QED BY <1>0, <1>1, <2>1 DEF ManifestInv, Working
<1>7. CASE CloseManifest(p)
  <2>1. /\ files' = files /\ crashes' = crashes /\ manifest' = proc[p].seen /\ p \in AtWork
        /\ proc'[p].step = "over" /\ proc[p].step = "manifest_open"
    BY <1>7, EntryAfter DEF CloseManifest, AtWork, Working
  <2> QED BY <1>0, <1>1, <2>1 DEF ManifestInv, Working
<1>8. CASE Crash(p)
  <2>1. crashes' # 0
    BY <1>0, <1>8, RunAssumption DEF Crash, TypeOK
  <2> QED BY <2>1 DEF ManifestInv
<1> QED BY <1>2, <1>3, <1>4, <1>5, <1>6, <1>7, <1>8 DEF Work

\* As long as commands follow each other and none was killed, a manifest that is
\* there when nobody is at work names every file with the content the file has
\* (audit/run_manifest.py:113-192): what a command wrote before it hashed, and
\* nothing written since.
THEOREM ManifestAlways == Spec /\ []Serial => []ManifestVerifies
<1>1. Init => TypeInv /\ ManifestInv
  <2> SUFFICES ASSUME Init PROVE TypeInv /\ ManifestInv
    OBVIOUS
  <2> QED BY EmptyDirectory DEF ManifestInv
<1>2. TypeInv /\ ManifestInv /\ Serial /\ [Next]_vars => TypeInv' /\ ManifestInv'
  <2> SUFFICES ASSUME TypeInv, ManifestInv, Serial, [Next]_vars
               PROVE  TypeInv' /\ ManifestInv'
    OBVIOUS
  <2>1. CASE UNCHANGED vars
    BY <2>1, TypeStep DEF vars, ManifestInv
  <2> QED BY <2>1, TypeStep, ManifestStep DEF Next
<1>3. ManifestInv => ManifestVerifies
  BY DEF ManifestInv, ManifestVerifies, AtWork, Working
<1> QED BY <1>1, <1>2, <1>3, PTL DEF Spec

\* A launcher that starts a command only when none is at work, as the model does
\* when Concurrent is 1, meets each hypothesis above.
THEOREM OneAtATime ==
  ASSUME Concurrent = 1
  PROVE  Spec => [](Serial /\ TrainingsSerial /\ TestsSerial)
<1>1. Init => Serial
  <2> SUFFICES ASSUME Init PROVE Serial
    OBVIOUS
  <2> QED BY EmptyDirectory DEF Serial, AtWork, Working
<1>2. TypeInv /\ Serial /\ [Next]_vars => Serial'
  <2> SUFFICES ASSUME TypeInv, Serial, [Next]_vars PROVE Serial'
    OBVIOUS
  <2>1. ASSUME NEW p \in Procs, Work(p) \/ Crash(p) PROVE Serial'
    <3>0. TypeInv /\ \A q \in Procs : q # p => proc'[q] = proc[q]
      BY <2>1, OthersRest DEF TypeInv
    <3>1. CASE Start(p)
      <4>1. IsFiniteSet(AtWork) /\ Cardinality(AtWork) < 1
        BY <3>1, RunAssumption, FS_Subset DEF AtWork, Start
      <4>2. AtWork = {}
        BY <4>1, FS_CardinalityType, FS_EmptySet
      <4> QED BY <3>0, <4>2 DEF Serial, AtWork
    <3>2. CASE Repeat(p)
      <4>1. proc'[p].step = "idle"
        BY <3>2, EntryAfter
      <4> QED BY <3>0, <4>1 DEF Serial, AtWork, Working
    <3>3. CASE ~Start(p) /\ ~Repeat(p)
      <4>1. p \in AtWork
        BY <2>1, <3>3 DEF Work, Compute, OpenFile, CloseFile, HashFiles, OpenManifest,
                          CloseManifest, Crash, AtWork, Working
      <4> QED BY <3>0, <4>1 DEF Serial, AtWork
    <3> QED BY <3>1, <3>2, <3>3
  <2>2. CASE UNCHANGED vars
    BY <2>2 DEF vars, Serial, AtWork
  <2> QED BY <2>1, <2>2 DEF Next
<1>3. Serial => TrainingsSerial /\ TestsSerial
  BY DEF Serial, TrainingsSerial, TestsSerial
<1> QED BY <1>1, <1>2, <1>3, TypeInit, TypeStep, PTL DEF Spec
=============================================================================
