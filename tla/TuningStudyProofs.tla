-------------------------- MODULE TuningStudyProofs --------------------------
(***************************************************************************)
(* Theorems about TuningStudy, for every kind of searcher, every budget    *)
(* and batch size and any number of crashes.                               *)
(*                                                                         *)
(* The argument: the rows of the study are 0, 1, ... without a gap, and    *)
(* every searcher that can be resumed has counted only rows that are there *)
(* (RowsInv, CommitInv, MemoryInv).  A batch therefore starts at a row     *)
(* that exists or at the next one, and is evaluated to its end before      *)
(* another is drawn (BatchInv).  What a crash can repeat are the rows      *)
(* beyond the last checkpoint, at most one batch (WorkInv); without a      *)
(* crash there are none (ExactInv).                                        *)
(***************************************************************************)
EXTENDS TuningStudy, Integers, FiniteSetTheorems, SequenceTheorems, TLAPS

-----------------------------------------------------------------------------
(***************************************************************************)
(* Counting: the members of a finite set of numbers in their order, drawn  *)
(* from the pigeonhole principle.                                          *)
(***************************************************************************)

\* The numbers of a set below one of its members.
Below(S, x) == {y \in S : y < x}

\* Two members of a finite set have different numbers of members below them.
LEMMA BelowDiffers ==
  ASSUME NEW S \in SUBSET Nat, IsFiniteSet(S), NEW x \in S, NEW y \in S, x < y
  PROVE  Cardinality(Below(S, x)) < Cardinality(Below(S, y))
<1>1. Below(S, x) \cup {x} \in SUBSET Below(S, y) /\ x \notin Below(S, x)
  <2>1. \A z \in S : z \in Nat
    OBVIOUS
  <2>2. \A z \in S : z < x => z < y
    BY <2>1
  <2>3. ~(x < x)
    BY <2>1
  <2> QED BY <2>2, <2>3 DEF Below
<1>2. IsFiniteSet(Below(S, x)) /\ IsFiniteSet(Below(S, y))
  BY FS_Subset DEF Below
<1>3. Cardinality(Below(S, x) \cup {x}) = Cardinality(Below(S, x)) + 1
  BY <1>1, <1>2, FS_AddElement, Zenon
<1>4. Cardinality(Below(S, x) \cup {x}) <= Cardinality(Below(S, y))
  BY <1>1, <1>2, FS_Subset
<1> QED BY <1>2, <1>3, <1>4, FS_CardinalityType

\* Fewer members are below one than there are.
LEMMA BelowCount ==
  ASSUME NEW S \in SUBSET Nat, IsFiniteSet(S), NEW x \in S
  PROVE  Cardinality(Below(S, x)) \in 0..(Cardinality(S) - 1)
<1>1. Below(S, x) \in SUBSET (S \ {x})
  BY DEF Below
<1>2. IsFiniteSet(S \ {x}) /\ Cardinality(S \ {x}) = Cardinality(S) - 1
  BY FS_RemoveElement, Zenon
<1>3. IsFiniteSet(Below(S, x)) /\ Cardinality(Below(S, x)) <= Cardinality(S \ {x})
  BY <1>1, <1>2, FS_Subset
<1> QED BY <1>2, <1>3, FS_CardinalityType

\* The position of a member.
Rank(S) == [x \in S |-> Cardinality(Below(S, x)) + 1]

\* The members of a finite set have the positions 1, 2, ..., each one of them.
LEMMA RankIs ==
  ASSUME NEW S \in SUBSET Nat, IsFiniteSet(S)
  PROVE  /\ Rank(S) \in Surjection(S, 1..Cardinality(S))
         /\ \A x, y \in S : Rank(S)[x] = Rank(S)[y] => x = y
         /\ \A x \in S : Cardinality(Below(S, x)) = Rank(S)[x] - 1
<1> DEFINE n == Cardinality(S)
           rank == Rank(S)
<1>0. n \in Nat
  BY FS_CardinalityType
<1>1. rank \in [S -> 1..n]
  <2>1. \A x \in S : Cardinality(Below(S, x)) \in 0..(n - 1)
    BY BelowCount
  <2>2. \A x \in S : Cardinality(Below(S, x)) + 1 \in 1..n
    BY <1>0, <2>1
  <2> QED BY <2>2 DEF Rank
<1>2. \A x, y \in S : rank[x] = rank[y] => x = y
  <2> SUFFICES ASSUME NEW x \in S, NEW y \in S, x < y
               PROVE  rank[x] # rank[y]
    OBVIOUS
  <2>1. Cardinality(Below(S, x)) < Cardinality(Below(S, y))
    BY BelowDiffers
  <2>2. Cardinality(Below(S, x)) \in Nat /\ Cardinality(Below(S, y)) \in Nat
    BY <1>0, BelowCount
  <2> QED BY <2>1, <2>2 DEF Rank
<1>3. \A x \in S : Cardinality(Below(S, x)) = rank[x] - 1
  <2> SUFFICES ASSUME NEW x \in S PROVE Cardinality(Below(S, x)) = rank[x] - 1
    OBVIOUS
  <2>1. Cardinality(Below(S, x)) \in Nat
    BY <1>0, BelowCount
  <2> QED BY <2>1 DEF Rank
<1>4. rank \in Injection(S, 1..n)
  <2> HIDE DEF rank
  <2> QED BY <1>1, <1>2 DEF Injection, IsInjective
<1>5. rank \in Surjection(S, 1..n)
  <2>1. IsFiniteSet(1..n) /\ Cardinality(1..n) = n
    BY <1>0, FS_Interval
  <2> QED BY <1>4, <2>1, FS_Injection
<1> QED BY <1>2, <1>3, <1>5

\* A finite set of numbers has a largest member.
LEMMA LargestIs ==
  ASSUME NEW S \in SUBSET Nat, IsFiniteSet(S), S # {}
  PROVE  \E t \in S : \A u \in S : u <= t
<1> DEFINE n == Cardinality(S)
<1>1. n \in Nat \ {0}
  BY FS_CardinalityType, FS_EmptySet
<1>2. PICK t \in S : Cardinality(Below(S, t)) = n - 1
  <2>1. PICK t \in S : Rank(S)[t] = n
    BY <1>1, RankIs DEF Surjection
  <2> QED BY <2>1, RankIs
<1>3. IsFiniteSet(S \ {t}) /\ Cardinality(S \ {t}) = n - 1
  BY FS_RemoveElement, Zenon
<1>4. Below(S, t) \in SUBSET (S \ {t})
  <2>1. t \in Nat /\ ~(t < t)
    OBVIOUS
  <2> QED BY <2>1 DEF Below
<1>5. Below(S, t) = S \ {t}
  BY <1>2, <1>3, <1>4, FS_Subset
<1>6. \A u \in S : u < t \/ u = t
  BY <1>5 DEF Below
<1> QED BY <1>6

\* Nth names the members of a finite set, each once, in their order.
LEMMA NthIs ==
  ASSUME NEW S \in SUBSET Nat, IsFiniteSet(S)
  PROVE  /\ \A i \in 1..Cardinality(S) :
               Nth(S, i) \in S /\ Cardinality(Below(S, Nth(S, i))) = i - 1
         /\ \A x \in S : \E i \in 1..Cardinality(S) : Nth(S, i) = x
<1> DEFINE n == Cardinality(S)
<1>0. n \in Nat
  BY FS_CardinalityType
<1>1. /\ Rank(S) \in [S -> 1..n] /\ Rank(S) \in Surjection(S, 1..n)
      /\ \A x, y \in S : Rank(S)[x] = Rank(S)[y] => x = y
      /\ \A x \in S : Cardinality(Below(S, x)) = Rank(S)[x] - 1
  BY RankIs DEF Surjection
<1>2. ASSUME NEW i \in 1..n
      PROVE  Nth(S, i) \in S /\ Cardinality(Below(S, Nth(S, i))) = i - 1
  <2>1. PICK x \in S : Rank(S)[x] = i
    BY <1>1 DEF Surjection
  <2>2. Cardinality(Below(S, x)) = i - 1
    BY <1>1, <2>1
  <2> QED BY <2>2 DEF Nth, Below
<1>3. ASSUME NEW x \in S PROVE \E i \in 1..n : Nth(S, i) = x
  <2>1. Rank(S)[x] \in 1..n
    BY <1>1
  <2> DEFINE i == Rank(S)[x]
             y == Nth(S, i)
  <2>2. y \in S /\ Cardinality(Below(S, y)) = i - 1
    BY <1>2, <2>1
  <2>3. i - 1 = Rank(S)[y] - 1
    BY <1>1, <2>2
  <2>4. i \in 1..n /\ Rank(S)[y] \in 1..n
    BY <1>1, <2>1, <2>2
  <2> HIDE DEF y
  <2>5. Rank(S)[x] = Rank(S)[y]
    BY <1>0, <2>3, <2>4
  <2>6. x = y
    BY <1>1, <2>2, <2>5
  <2> QED BY <2>4, <2>6 DEF y
<1> QED BY <1>2, <1>3

\* The bounds of the identifiers.
LEMMA Bounds ==
  /\ {MaxTrials, BatchSize, Population} \subseteq Nat \ {0}
  /\ {GridSize, Startup, MaxCrashes, MaxRecorded} \subseteq Nat
  /\ MaxCrashes * BatchSize \in Nat
  /\ TrialIds \subseteq Nat /\ 0..MaxTrials \subseteq TrialIds
  /\ IsFiniteSet(TrialIds)
<1>1. /\ {MaxTrials, BatchSize, Population} \subseteq Nat \ {0}
      /\ {GridSize, Startup, MaxCrashes, MaxRecorded} \subseteq Nat
  BY StudyAssumption
<1>2. MaxCrashes * BatchSize \in Nat
  BY <1>1
<1>3. MaxTrials + MaxCrashes * BatchSize \in Nat
      /\ MaxTrials <= MaxTrials + MaxCrashes * BatchSize
  BY <1>1, <1>2
<1>4. /\ TrialIds \subseteq Nat /\ 0..MaxTrials \subseteq TrialIds
      /\ IsFiniteSet(TrialIds)
  <2> DEFINE top == MaxTrials + MaxCrashes * BatchSize
  <2>1. top \in Nat /\ MaxTrials <= top /\ TrialIds = 0..top /\ MaxTrials \in Nat
    BY <1>1, <1>3 DEF TrialIds
  <2> HIDE DEF top
  <2> QED BY <2>1, FS_Interval
<1> QED BY <1>1, <1>2, <1>4

\* The counter of a fresh searcher is one more than its newest result.
LEMMA NewestIs ==
  ASSUME NEW T \in SUBSET TrialIds, NEW c,
         c = IF T = {} THEN 0
             ELSE 1 + CHOOSE t \in T : \A u \in T : u <= t
  PROVE  /\ c \in Nat
         /\ T = {} => c = 0
         /\ T # {} => c - 1 \in T /\ \A t \in T : t < c
<1>1. T \in SUBSET Nat /\ IsFiniteSet(T)
  BY Bounds, FS_Subset
<1>2. CASE T = {}
  BY <1>2
<1>3. CASE T # {}
  <2> DEFINE m == CHOOSE t \in T : \A u \in T : u <= t
  <2>1. m \in T /\ \A u \in T : u <= m
    BY <1>1, <1>3, LargestIs
  <2>2. c = 1 + m
    BY <1>3
  <2> HIDE DEF m
  <2>3. m \in Nat /\ \A t \in T : t \in Nat /\ t <= m
    BY <1>1, <2>1
  <2>4. \A t \in T : t < c
    BY <2>2, <2>3
  <2>5. c \in Nat /\ c - 1 = m
    BY <2>2, <2>3
  <2> QED BY <1>3, <2>1, <2>4, <2>5
<1> QED BY <1>2, <1>3

-----------------------------------------------------------------------------
(***************************************************************************)
(* The inductive invariant.                                                *)
(***************************************************************************)
Running == WithStatus("running")
Rows == Cardinality({t \in TrialIds : Stored(t)})

\* The first identifier a process draws that is started on the database.
Resumed == LoadedSearcher.counter

\* The rows have no gap and do not exceed the budget.
RowsInv ==
    /\ Rows \in 0..MaxTrials
    /\ \A t \in TrialIds : Stored(t) <=> t < Rows

\* A searcher that has learned from results, and issued particles for trials,
\* it has counted.
Covered(s) ==
    /\ s.learned \subseteq TerminalTrials
    /\ \A p \in s.pending : p[1] < s.counter

CommitInv ==
    /\ \A s \in saved.searcher : Covered(s) /\ s.counter <= Rows
    /\ \A s \in saved.scheduler : s.completed \subseteq TerminalTrials

MemoryInv ==
    /\ Covered(searcher)
    /\ scheduler.completed \subseteq TerminalTrials
    /\ step \notin {"suggestions", "failed"} => searcher.counter <= Rows
    /\ step \in {"last_ckpt", "top"} => searcher.counter = Resumed

\* The steps between the drawing of a batch and its last result, and those
\* before and after the batch is stored.
Drawing == {"suggestions", "searcher_ckpt", "scheduler_ckpt", "evaluate"}
HasBatch == Drawing \cup {"results", "observe"}
Settled == {"observe", "observed_ckpt", "last_ckpt", "top", "finished",
            "stopped", "failed"}

DistinctIds == \A i, j \in DOMAIN batch : batch[i].id = batch[j].id => i = j

\* The batch that is being stored continues the rows, or repeats the last.
DrawnInv ==
    /\ \A i \in DOMAIN batch : batch[i].id = Resumed + i - 1
                               /\ batch[i].id < MaxTrials
    /\ Len(batch) <= BatchSize
    /\ searcher.counter = Resumed + Len(batch)
    /\ Resumed + done <= Rows
    /\ Running # {} => Rows = Resumed + done
    /\ \A t \in Running : Resumed <= t

\* While its results come in, what is still running is still to come.
ResultsInv ==
    /\ \A t \in Running : \E i \in DOMAIN batch : done < i /\ batch[i].id = t
    /\ \A i \in DOMAIN batch : i <= done => batch[i].id \in TerminalTrials

BatchInv ==
    /\ step \in HasBatch => batch # <<>> /\ DistinctIds
    /\ step \in {"suggestions", "results"} => done < Len(batch)
    /\ step = "suggestions" => DrawnInv
    /\ step \in HasBatch \ {"suggestions"} =>
          \A i \in DOMAIN batch : Stored(batch[i].id)
    /\ step \in Drawing \ {"suggestions"} => Running \subseteq Ids(batch)
    /\ step = "results" => ResultsInv
    /\ step = "observe" => Ids(batch) \subseteq TerminalTrials
    /\ step \in Settled => Running = {}

StudyInv ==
    /\ TypeOK
    /\ RowsInv
    /\ CommitInv
    /\ MemoryInv
    /\ BatchInv

-----------------------------------------------------------------------------
(***************************************************************************)
(* What the operators return.                                              *)
(***************************************************************************)
LEMMA StatusSets ==
  ASSUME TypeOK
  PROVE  /\ TerminalTrials \in SUBSET TrialIds /\ Running \in SUBSET TrialIds
         /\ IsFiniteSet(TerminalTrials) /\ IsFiniteSet(Running)
         /\ \A t \in TrialIds : Stored(t) <=> t \in TerminalTrials \/ t \in Running
         /\ \A t \in TrialIds : ~(t \in TerminalTrials /\ t \in Running)
<1>1. TerminalTrials \in SUBSET TrialIds /\ Running \in SUBSET TrialIds
  BY DEF TerminalTrials, Running, WithStatus
<1>2. \A t \in TrialIds : trials[t].status \in {"absent", "running", "terminal"}
  BY DEF TypeOK, Trial
<1>3. \A t \in TrialIds :
         /\ Stored(t) <=> t \in TerminalTrials \/ t \in Running
         /\ ~(t \in TerminalTrials /\ t \in Running)
  BY <1>2 DEF Stored, TerminalTrials, Running, WithStatus
<1> QED BY <1>1, <1>3, Bounds, FS_Subset

\* What a searcher starts with when nothing was stored.
LEMMA FreshIs ==
  ASSUME TypeOK
  PROVE  /\ FreshSearcher \in SearcherState /\ FreshScheduler \in SchedulerState
         /\ FreshSearcher.learned \subseteq TerminalTrials
         /\ FreshSearcher.pending = {} /\ FreshSearcher.counter \in Nat
         /\ TerminalTrials = {} => FreshSearcher.counter = 0
         /\ TerminalTrials # {} => FreshSearcher.counter - 1 \in TerminalTrials
                                   /\ \A t \in TerminalTrials : t < FreshSearcher.counter
         /\ kind = "history" => FreshSearcher.learned = TerminalTrials
<1> DEFINE c == FreshSearcher.counter
<1>1. TerminalTrials \in SUBSET TrialIds /\ Cardinality(TerminalTrials) \in Nat
  BY StatusSets, FS_CardinalityType
<1>2. c = IF TerminalTrials = {} THEN 0
          ELSE 1 + CHOOSE t \in TerminalTrials : \A u \in TerminalTrials : u <= t
  BY DEF FreshSearcher
<1>3. /\ c \in Nat
      /\ TerminalTrials = {} => c = 0
      /\ TerminalTrials # {} => c - 1 \in TerminalTrials
                                /\ \A t \in TerminalTrials : t < c
  <2> HIDE DEF c
  <2> QED BY <1>1, <1>2, NewestIs
<1>4. /\ FreshSearcher.learned \subseteq TerminalTrials /\ FreshSearcher.pending = {}
      /\ kind = "history" => FreshSearcher.learned = TerminalTrials
      /\ FreshSearcher.draws \in Nat
  BY <1>1 DEF FreshSearcher
<1>5. FreshSearcher =
        [counter |-> c, draws |-> FreshSearcher.draws, learned |-> FreshSearcher.learned,
         issued |-> {}, pending |-> {}, scored |-> {}, generation |-> 0]
  BY DEF FreshSearcher
<1>6. FreshSearcher \in SearcherState
  <2> DEFINE d == FreshSearcher.draws
             l == FreshSearcher.learned
  <2>1. d \in Nat /\ l \in SUBSET TrialIds /\ c \in Nat
    BY <1>1, <1>3, <1>4
  <2>2. FreshSearcher = [counter |-> c, draws |-> d, learned |-> l, issued |-> {},
                         pending |-> {}, scored |-> {}, generation |-> 0]
    BY <1>5
  <2> HIDE DEF c, d, l
  <2> QED BY <2>1, <2>2 DEF SearcherState
<1>7. FreshScheduler \in SchedulerState
  BY DEF FreshScheduler, SchedulerState
<1> QED BY <1>3, <1>4, <1>6, <1>7

\* What a process that is started gets back.
LEMMA LoadedIs ==
  ASSUME TypeOK
  PROVE  /\ LoadedSearcher \in SearcherState /\ LoadedScheduler \in SchedulerState
         /\ Resumed \in Nat
         /\ saved.searcher = {} => LoadedSearcher = FreshSearcher
         /\ \A s : saved.searcher = {s} =>
               /\ Resumed = s.counter /\ LoadedSearcher.pending = s.pending
               /\ LoadedSearcher.learned =
                     IF kind = "history" THEN TerminalTrials ELSE s.learned
         /\ saved.searcher = {} \/ \E s \in SearcherState : saved.searcher = {s}
         /\ LoadedScheduler = FreshScheduler \/ LoadedScheduler \in saved.scheduler
         /\ saved.scheduler = {} => LoadedScheduler = FreshScheduler
         /\ \A s : saved.scheduler = {s} => LoadedScheduler = s
<1>0. /\ saved.searcher \in SUBSET SearcherState
      /\ \A s, r \in saved.searcher : s = r
      /\ saved.scheduler \in SUBSET SchedulerState
      /\ TerminalTrials \in SUBSET TrialIds
  BY StatusSets DEF TypeOK
<1>1. /\ LoadedScheduler \in SchedulerState
      /\ LoadedScheduler = FreshScheduler \/ LoadedScheduler \in saved.scheduler
      /\ saved.scheduler = {} => LoadedScheduler = FreshScheduler
      /\ \A s : saved.scheduler = {s} => LoadedScheduler = s
  BY <1>0, FreshIs DEF LoadedScheduler
<1>2. saved.searcher = {} => LoadedSearcher = FreshSearcher
  BY DEF LoadedSearcher
<1>3. ASSUME NEW s, saved.searcher = {s}
      PROVE  /\ s \in SearcherState
             /\ LoadedSearcher = IF kind = "history"
                                 THEN [s EXCEPT !.learned = TerminalTrials] ELSE s
  BY <1>0, <1>3 DEF LoadedSearcher
<1>4. ASSUME NEW s \in SearcherState
      PROVE  /\ [s EXCEPT !.learned = TerminalTrials] \in SearcherState
             /\ [s EXCEPT !.learned = TerminalTrials].counter = s.counter
             /\ [s EXCEPT !.learned = TerminalTrials].pending = s.pending
             /\ [s EXCEPT !.learned = TerminalTrials].learned = TerminalTrials
             /\ s.counter \in Nat
  BY <1>0 DEF SearcherState
<1>5. saved.searcher = {} \/ \E s \in SearcherState : saved.searcher = {s}
  BY <1>0
<1>6. ASSUME saved.searcher # {}
      PROVE  LoadedSearcher \in SearcherState /\ Resumed \in Nat
  <2>1. PICK s \in SearcherState : saved.searcher = {s}
    BY <1>5, <1>6
  <2> QED BY <1>3, <1>4, <2>1 DEF Resumed
<1>7. ASSUME saved.searcher = {}
      PROVE  LoadedSearcher \in SearcherState /\ Resumed \in Nat
  BY <1>2, <1>7, FreshIs DEF Resumed
<1>8. ASSUME NEW s, saved.searcher = {s}
      PROVE  /\ Resumed = s.counter /\ LoadedSearcher.pending = s.pending
             /\ LoadedSearcher.learned =
                   IF kind = "history" THEN TerminalTrials ELSE s.learned
  BY <1>3, <1>4, <1>8 DEF Resumed
<1> QED BY <1>1, <1>2, <1>5, <1>6, <1>7, <1>8

-----------------------------------------------------------------------------
(***************************************************************************)
(* Every step keeps the invariant.                                         *)
(***************************************************************************)

\* A step that does not touch the trials keeps what is said of them alone.
LEMMA TrialsKept ==
  ASSUME trials' = trials
  PROVE  /\ Rows' = Rows /\ TerminalTrials' = TerminalTrials /\ Running' = Running
         /\ \A t : Stored(t)' <=> Stored(t)
         /\ RowsInv => RowsInv'
BY DEF Rows, TerminalTrials, Running, WithStatus, Stored, RowsInv

\* A step that touches neither results nor checkpoints changes nothing for a
\* process that is started after it.
LEMMA ResumedKept ==
  ASSUME TerminalTrials' = TerminalTrials, kind' = kind,
         saved'.searcher = saved.searcher
  PROVE  /\ FreshSearcher' = FreshSearcher
         /\ LoadedSearcher' = LoadedSearcher /\ Resumed' = Resumed
<1>1. FreshSearcher' = FreshSearcher
  BY DEF FreshSearcher
<1> QED BY <1>1 DEF LoadedSearcher, Resumed

\* What was committed stays so while the table does.
LEMMA CommitKept ==
  ASSUME CommitInv, trials' = trials, saved' = saved
  PROVE  CommitInv'
BY TrialsKept DEF CommitInv, Covered

\* What is restored knows no more than the table holds.
LEMMA LoadedCovered ==
  ASSUME StudyInv
  PROVE  /\ Covered(LoadedSearcher) /\ Resumed <= Rows
         /\ LoadedScheduler.completed \subseteq TerminalTrials
         /\ Covered(FreshSearcher) /\ FreshSearcher.counter <= Rows
         /\ FreshScheduler.completed \subseteq TerminalTrials
<1>0. TypeOK /\ CommitInv /\ Rows \in Nat /\ \A t \in TrialIds : Stored(t) <=> t < Rows
  BY Bounds DEF StudyInv, RowsInv
<1>1. FreshSearcher.counter <= Rows
  <2>1. CASE TerminalTrials = {}
    BY <1>0, <2>1, FreshIs
  <2>2. CASE TerminalTrials # {}
    <3> DEFINE c == FreshSearcher.counter
    <3>1. c \in Nat /\ c - 1 \in TrialIds /\ Stored(c - 1)
      BY <1>0, <2>2, FreshIs, StatusSets
    <3>2. c - 1 < Rows
      BY <1>0, <3>1
    <3> HIDE DEF c
    <3>3. c <= Rows
      BY <1>0, <3>1, <3>2
    <3> QED BY <3>3 DEF c
  <2> QED BY <2>1, <2>2
<1>2. Covered(FreshSearcher)
  BY <1>0, FreshIs DEF Covered
<1>3. FreshScheduler.completed = {}
  BY DEF FreshScheduler
<1>4. LoadedScheduler.completed \subseteq TerminalTrials
  BY <1>0, <1>3, LoadedIs DEF CommitInv
<1>5. CASE saved.searcher = {}
  BY <1>0, <1>1, <1>2, <1>3, <1>4, <1>5, LoadedIs DEF Resumed
<1>6. CASE saved.searcher # {}
  <2>1. PICK s \in SearcherState : saved.searcher = {s}
    BY <1>0, <1>6, LoadedIs
  <2>2. Covered(s) /\ s.counter <= Rows
    BY <1>0, <2>1 DEF CommitInv
  <2>3. /\ LoadedSearcher.counter = s.counter /\ LoadedSearcher.pending = s.pending
        /\ LoadedSearcher.learned = TerminalTrials \/ LoadedSearcher.learned = s.learned
    BY <1>0, <2>1, LoadedIs DEF Resumed
  <2> QED BY <1>1, <1>2, <1>3, <1>4, <2>2, <2>3 DEF Covered, Resumed
<1> QED BY <1>5, <1>6

\* A function on 1..n is a sequence of length n.
LEMMA BuiltSeq ==
  ASSUME NEW S, NEW n \in Nat, NEW b \in [1..n -> S]
  PROVE  b \in Seq(S) /\ Len(b) = n /\ DOMAIN b = 1..n
<1>1. b \in Seq(S)
  BY SeqDef
<1>2. Len(b) \in Nat /\ 1..Len(b) = 1..n
  BY <1>1, LenProperties
<1>3. \A m \in Nat : 1..m = 1..n => m = n
  <2> SUFFICES ASSUME NEW m \in Nat, 1..m = 1..n, m # n PROVE FALSE
    OBVIOUS
  <2>1. m \in 1..m <=> m >= 1
    OBVIOUS
  <2>2. n \in 1..n <=> n >= 1
    OBVIOUS
  <2>3. m \in 1..n => m <= n
    OBVIOUS
  <2>4. n \in 1..m => n <= m
    OBVIOUS
  <2> QED BY <2>1, <2>2, <2>3, <2>4
<1> QED BY <1>1, <1>2, <1>3

\* The suggestions that were left running are recovered, each once.
LEMMA RecoveredIs ==
  ASSUME TypeOK, NEW b,
         b = [i \in 1..Cardinality(Running) |->
                 [id |-> Nth(Running, i), params |-> trials[Nth(Running, i)].params,
                  particle |-> 0]]
  PROVE  /\ b \in Seq(Suggestion) /\ Len(b) = Cardinality(Running)
         /\ DOMAIN b = 1..Cardinality(Running)
         /\ {b[i].id : i \in DOMAIN b} = Running
         /\ \A i, j \in DOMAIN b : b[i].id = b[j].id => i = j
<1> DEFINE n == Cardinality(Running)
<1>1. /\ Running \in SUBSET TrialIds /\ Running \in SUBSET Nat /\ IsFiniteSet(Running)
      /\ n \in Nat
  BY StatusSets, Bounds, FS_CardinalityType
<1>2. /\ \A i \in 1..n : Nth(Running, i) \in Running
                         /\ Cardinality(Below(Running, Nth(Running, i))) = i - 1
      /\ \A x \in Running : \E i \in 1..n : Nth(Running, i) = x
  BY <1>1, NthIs
<1>3. \A i \in 1..n : b[i] \in Suggestion /\ b[i].id = Nth(Running, i)
  <2>1. 0 \in Particles
    BY Bounds DEF Particles
  <2>2. \A t \in TrialIds : trials[t].params \in Params
    BY DEF TypeOK, Trial
  <2> QED BY <1>1, <1>2, <2>1, <2>2 DEF Suggestion
<1>4. b \in [1..n -> Suggestion]
  BY <1>3
<1>5. b \in Seq(Suggestion) /\ Len(b) = n /\ DOMAIN b = 1..n
  BY <1>1, <1>4, BuiltSeq
<1>6. {b[i].id : i \in DOMAIN b} = Running
  <2>1. \A x \in Running : \E i \in DOMAIN b : b[i].id = x
    BY <1>2, <1>3, <1>5
  <2>2. \A i \in DOMAIN b : b[i].id \in Running
    BY <1>2, <1>3, <1>5
  <2>3. Running \subseteq {b[i].id : i \in DOMAIN b}
    BY <2>1
  <2>4. {b[i].id : i \in DOMAIN b} \subseteq Running
    BY <2>2
  <2> QED BY <2>3, <2>4
<1>7. ASSUME NEW i \in DOMAIN b, NEW j \in DOMAIN b, b[i].id = b[j].id PROVE i = j
  <2>1. i \in 1..n /\ j \in 1..n /\ Nth(Running, i) = Nth(Running, j)
    BY <1>3, <1>5, <1>7
  <2>2. i - 1 = j - 1
    BY <1>2, <2>1
  <2> QED BY <1>1, <2>1, <2>2
<1> QED BY <1>5, <1>6, <1>7

\* Starting on a stored study.
LEMMA StartKeeps ==
  ASSUME StudyInv, Start
  PROVE  StudyInv'
<1>0. /\ TypeOK /\ RowsInv /\ CommitInv
      /\ trials' = trials /\ saved' = saved /\ kind' = kind /\ crashes' = crashes
      /\ searcher' = LoadedSearcher /\ scheduler' = LoadedScheduler /\ done' = 0
      /\ PendingTrials = Running
  BY DEF StudyInv, Start, tables, PendingTrials, Running
<1>1. /\ batch' = [i \in 1..Cardinality(Running) |->
                     [id |-> Nth(Running, i), params |-> trials[Nth(Running, i)].params,
                      particle |-> 0]]
      /\ step' = IF Running = {} THEN "top" ELSE "evaluate"
  BY <1>0 DEF Start
<1>2. /\ batch' \in Seq(Suggestion) /\ Len(batch') = Cardinality(Running)
      /\ Ids(batch') = Running /\ DistinctIds'
      /\ DOMAIN batch' = 1..Cardinality(Running)
  <2> DEFINE b == [i \in 1..Cardinality(Running) |->
                     [id |-> Nth(Running, i), params |-> trials[Nth(Running, i)].params,
                      particle |-> 0]]
  <2>1. /\ b \in Seq(Suggestion) /\ Len(b) = Cardinality(Running)
        /\ DOMAIN b = 1..Cardinality(Running)
        /\ {b[i].id : i \in DOMAIN b} = Running
        /\ \A i, j \in DOMAIN b : b[i].id = b[j].id => i = j
    BY <1>0, RecoveredIs
  <2>2. batch' = b
    BY <1>1
  <2> HIDE DEF b
  <2> QED BY <2>1, <2>2 DEF Ids, DistinctIds
<1>3. TypeOK'
  <2>1. LoadedSearcher \in SearcherState /\ LoadedScheduler \in SchedulerState
    BY <1>0, LoadedIs
  <2>2. done' \in 0..Len(batch') /\ step' \in Steps
    BY <1>0, <1>1, <1>2, StatusSets, FS_CardinalityType DEF Steps
  <2> QED BY <1>0, <1>2, <2>1, <2>2 DEF TypeOK
<1>4. RowsInv' /\ CommitInv' /\ Rows' = Rows /\ Running' = Running
      /\ TerminalTrials' = TerminalTrials /\ Resumed' = Resumed
      /\ \A t : Stored(t)' <=> Stored(t)
  BY <1>0, TrialsKept, CommitKept, ResumedKept
<1>5. MemoryInv'
  BY <1>0, <1>4, LoadedCovered DEF MemoryInv, Covered, Resumed
<1>6. BatchInv'
  <2>1. CASE Running = {}
    BY <1>1, <1>4, <2>1 DEF BatchInv, HasBatch, Drawing, Settled
  <2>2. CASE Running # {}
    <3>1. step' = "evaluate" /\ batch' # <<>>
      <4>1. Cardinality(Running) # 0
        BY <1>0, <2>2, StatusSets, FS_EmptySet
      <4> QED BY <1>1, <1>2, <2>2, <4>1
    <3>2. (\A i \in DOMAIN batch : Stored(batch[i].id))'
      <4>1. \A i \in DOMAIN batch' : batch'[i].id \in Running
        BY <1>2 DEF Ids
      <4>2. \A t \in Running : Stored(t)'
        BY <1>0, <1>4, StatusSets
      <4> QED BY <4>1, <4>2, <1>0 DEF Stored
    <3>3. Ids(batch)' = Running
      BY <1>2 DEF Ids
    <3> QED BY <1>2, <1>4, <3>1, <3>2, <3>3 DEF BatchInv, HasBatch, Drawing, Settled
  <2> QED BY <2>1, <2>2
<1> QED BY <1>3, <1>4, <1>5, <1>6 DEF StudyInv


\* What each kind of searcher draws.
LEMMA DrawnIs ==
  ASSUME TypeOK
  PROVE  /\ Available \in Nat
         /\ \A i \in 1..Available : searcher.counter + i - 1 \in TrialIds =>
               Drawn(i) \in Suggestion /\ Drawn(i).id = searcher.counter + i - 1
<1>1. /\ Particles \in SUBSET Nat /\ IsFiniteSet(Particles) /\ 0 \in Particles
  <2>1. Population \in Nat \ {0}
    BY Bounds
  <2>2. 0 \in Int /\ Population - 1 \in Int
    BY <2>1
  <2>3. IsFiniteSet(Particles)
    BY <2>2, FS_Interval DEF Particles
  <2> QED BY <2>1, <2>3 DEF Particles
<1>2. FreeParticles \in SUBSET Particles /\ FreeParticles \in SUBSET Nat
      /\ IsFiniteSet(FreeParticles)
  BY <1>1, FS_Subset DEF FreeParticles
<1>3. /\ searcher.counter \in Nat /\ searcher.draws \in Nat /\ searcher.generation \in Nat
      /\ searcher.learned \in SUBSET Nat
  BY Bounds DEF TypeOK, SearcherState
<1>4. Available \in Nat
  <2>1. Cardinality(FreeParticles) \in Nat /\ BatchSize \in Nat /\ GridSize \in Nat
    BY <1>2, Bounds, FS_CardinalityType
  <2> QED BY <1>3, <2>1 DEF Available
<1>5. ASSUME NEW i \in 1..Available, searcher.counter + i - 1 \in TrialIds
      PROVE  Drawn(i) \in Suggestion /\ Drawn(i).id = searcher.counter + i - 1
  <2> DEFINE d == searcher.counter + i - 1
  <2>1. CASE kind = "swarm"
    <3>1. Nth(FreeParticles, i) \in FreeParticles
      BY <1>2, <2>1, NthIs DEF Available
    <3> DEFINE p == Nth(FreeParticles, i)
    <3>2. p \in Particles /\ p \in Nat
      BY <1>2, <3>1
    <3>3. Drawn(i) = [id |-> d, particle |-> p,
                      params |-> [draw |-> p, basis |-> {searcher.generation}]]
      BY <2>1 DEF Drawn
    <3> HIDE DEF p, d
    <3>4. [draw |-> p, basis |-> {searcher.generation}] \in Params
      BY <1>3, <3>2 DEF Params
    <3>5. d \in TrialIds
      BY <1>5 DEF d
    <3> QED BY <3>2, <3>3, <3>4, <3>5 DEF Suggestion, d
  <2>2. CASE kind # "swarm"
    <3> DEFINE w == searcher.draws + i - 1
    <3>1. w \in Nat /\ Basis \in SUBSET Nat
      BY <1>3, <1>4 DEF Basis
    <3>2. Drawn(i) = [id |-> d, particle |-> 0, params |-> [draw |-> w, basis |-> Basis]]
      BY <2>2 DEF Drawn
    <3> HIDE DEF w, d
    <3>3. [draw |-> w, basis |-> Basis] \in Params
      BY <3>1 DEF Params
    <3>4. d \in TrialIds
      BY <1>5 DEF d
    <3> QED BY <1>1, <3>2, <3>3, <3>4 DEF Suggestion, d
  <2> QED BY <2>1, <2>2
<1> QED BY <1>4, <1>5

\* The searcher after it drew a batch.
LEMMA AfterDrawingIs ==
  ASSUME TypeOK, NEW b \in Seq(Suggestion)
  PROVE  LET s == AfterDrawing(b)
         IN  /\ s \in SearcherState
             /\ s.counter = searcher.counter + Len(b) /\ s.learned = searcher.learned
             /\ s.pending \subseteq
                   searcher.pending \cup {<<b[i].id, b[i].particle>> : i \in DOMAIN b}
             /\ kind = "swarm" =>
                   \A i \in DOMAIN b : <<b[i].id, b[i].particle>> \in s.pending
<1> DEFINE n == Len(b)
           new == {<<b[i].id, b[i].particle>> : i \in DOMAIN b}
           particles == {b[i].particle : i \in DOMAIN b}
<1>1. n \in Nat /\ \A i \in DOMAIN b : b[i] \in Suggestion
  BY ElementOfSeq, LenProperties
<1>2. \A i \in DOMAIN b : b[i].id \in TrialIds /\ b[i].particle \in Particles
  BY <1>1 DEF Suggestion
<1>3. new \in SUBSET (TrialIds \X Particles) /\ particles \in SUBSET Particles
  BY <1>2
<1>4. searcher \in SearcherState
  BY DEF TypeOK
<1>5. PICK i \in SUBSET Particles, p \in SUBSET (TrialIds \X Particles) :
         /\ AfterDrawing(b) = [searcher EXCEPT !.counter = searcher.counter + n,
                                               !.draws = searcher.draws + n,
                                               !.issued = i, !.pending = p]
         /\ p \subseteq searcher.pending \cup new
         /\ kind = "swarm" => new \subseteq p
  <2> DEFINE iss == IF kind = "swarm" THEN searcher.issued \cup particles
                    ELSE searcher.issued
             pen == IF kind = "swarm" THEN searcher.pending \cup new
                    ELSE searcher.pending
  <2>1. AfterDrawing(b) = [searcher EXCEPT !.counter = searcher.counter + n,
                                           !.draws = searcher.draws + n,
                                           !.issued = iss, !.pending = pen]
    BY <1>4 DEF AfterDrawing, SearcherState
  <2>2. iss \in SUBSET Particles /\ pen \in SUBSET (TrialIds \X Particles)
    <3> HIDE DEF new, particles
    <3> QED BY <1>3, <1>4 DEF SearcherState
  <2>3. pen \subseteq searcher.pending \cup new /\ (kind = "swarm" => new \subseteq pen)
    <3> HIDE DEF new
    <3> QED OBVIOUS
  <2> HIDE DEF iss, pen, new
  <2> QED BY <2>1, <2>2, <2>3
<1> DEFINE s == AfterDrawing(b)
<1>6. /\ s \in SearcherState /\ s.counter = searcher.counter + n
      /\ s.learned = searcher.learned /\ s.pending = p
  <2> DEFINE c == searcher.counter + n
             d == searcher.draws + n
  <2>1. c \in Nat /\ d \in Nat
    BY <1>1, <1>4 DEF SearcherState
  <2>2. s = [searcher EXCEPT !.counter = c, !.draws = d, !.issued = i, !.pending = p]
    BY <1>5
  <2> HIDE DEF c, d, s
  <2>3. /\ s \in SearcherState /\ s.counter = c
        /\ s.learned = searcher.learned /\ s.pending = p
    BY <1>4, <2>1, <2>2 DEF SearcherState
  <2> QED BY <2>3 DEF c
<1>7. kind = "swarm" => \A j \in DOMAIN b : <<b[j].id, b[j].particle>> \in p
  BY <1>5
<1> HIDE DEF s, new
<1> QED BY <1>5, <1>6, <1>7 DEF s, new


\* When nothing runs, the rows are the results.
LEMMA SettledRows ==
  ASSUME TypeOK, Running = {}
  PROVE  /\ Rows = Cardinality(TerminalTrials)
         /\ \A t \in TrialIds : Stored(t) <=> t \in TerminalTrials
<1>1. \A t \in TrialIds : Stored(t) <=> t \in TerminalTrials
  BY StatusSets
<1>2. {t \in TrialIds : Stored(t)} = TerminalTrials
  BY <1>1, StatusSets
<1> QED BY <1>1, <1>2 DEF Rows

\* The head of the loop: a batch continues the rows and stays in the budget.
LEMMA SuggestKeeps ==
  ASSUME StudyInv, Suggest
  PROVE  StudyInv'
<1>0. /\ TypeOK /\ RowsInv /\ CommitInv /\ MemoryInv /\ BatchInv /\ step = "top"
      /\ trials' = trials /\ saved' = saved /\ kind' = kind /\ crashes' = crashes
      /\ scheduler' = scheduler
  BY DEF StudyInv, Suggest, tables
<1>1. Running = {} /\ searcher.counter = Resumed /\ searcher.counter <= Rows
  BY <1>0 DEF BatchInv, Settled, MemoryInv
<1>2. RowsInv' /\ CommitInv' /\ Rows' = Rows /\ Running' = Running
      /\ TerminalTrials' = TerminalTrials /\ Resumed' = Resumed
      /\ \A t : Stored(t)' <=> Stored(t)
  BY <1>0, TrialsKept, CommitKept, ResumedKept
<1>3. CASE step' \in {"finished", "stopped"} /\ searcher' = searcher
           /\ batch' = batch /\ done' = done
  <2>1. TypeOK'
    BY <1>0, <1>3 DEF TypeOK, Steps
  <2>2. MemoryInv'
    BY <1>0, <1>2, <1>3 DEF MemoryInv, Covered
  <2>3. BatchInv'
    BY <1>1, <1>2, <1>3 DEF BatchInv, HasBatch, Drawing, Settled
  <2> QED BY <1>2, <2>1, <2>2, <2>3 DEF StudyInv
<1>4. CASE ~(step' \in {"finished", "stopped"} /\ searcher' = searcher
             /\ batch' = batch /\ done' = done)
  <2> DEFINE n == IF Available < Wanted THEN Available ELSE Wanted
             b == [i \in 1..n |-> Drawn(i)]
             T == Cardinality(TerminalTrials)
             c == searcher.counter
  <2>1. /\ ~(T >= MaxTrials) /\ n # 0 /\ step' = "suggestions"
        /\ batch' = b /\ done' = 0 /\ searcher' = AfterDrawing(b)
    BY <1>4 DEF Suggest
  <2>2. /\ T \in Nat /\ T = Rows /\ c \in Nat /\ c <= T /\ T <= MaxTrials
        /\ MaxTrials \in Nat /\ BatchSize \in Nat /\ Available \in Nat
    <3>1. T = Rows
      BY <1>0, <1>1, SettledRows
    <3>2. MaxTrials \in Nat /\ BatchSize \in Nat /\ Available \in Nat
      BY <1>0, DrawnIs, Bounds
    <3>3. c \in Nat /\ Rows \in 0..MaxTrials
      BY <1>0 DEF RowsInv, TypeOK, SearcherState
    <3> HIDE DEF T, c
    <3>4. c <= Rows
      BY <1>1 DEF c
    <3> QED BY <3>1, <3>2, <3>3, <3>4
  <2>3. /\ n \in Nat \ {0} /\ n <= Available /\ n <= BatchSize /\ n <= MaxTrials - T
    <3> HIDE DEF T
    <3> QED BY <2>1, <2>2 DEF Wanted, T
  <2>4. ASSUME NEW i \in 1..n
        PROVE  /\ b[i] \in Suggestion /\ b[i].id = c + i - 1 /\ b[i].id < MaxTrials
    <3> HIDE DEF n, T, c
    <3>1. c + i - 1 \in Nat /\ c + i - 1 < MaxTrials /\ i \in 1..Available
      BY <2>2, <2>3
    <3>2. c + i - 1 \in TrialIds
      BY <2>2, <3>1, Bounds
    <3> QED BY <1>0, <3>1, <3>2, DrawnIs DEF c
  <2>5. b \in Seq(Suggestion) /\ Len(b) = n /\ DOMAIN b = 1..n
    <3> HIDE DEF n
    <3>1. b \in [1..n -> Suggestion]
      BY <2>4
    <3> HIDE DEF b
    <3> QED BY <2>3, <3>1, BuiltSeq
  <2> HIDE DEF b, n
  <2>6. /\ searcher' \in SearcherState /\ searcher'.counter = c + n
        /\ searcher'.learned = searcher.learned
        /\ searcher'.pending \subseteq
              searcher.pending \cup {<<b[i].id, b[i].particle>> : i \in DOMAIN b}
    BY <1>0, <2>1, <2>5, AfterDrawingIs
  <2>7. TypeOK'
    <3>1. batch' \in Seq(Suggestion) /\ done' \in 0..Len(batch') /\ step' \in Steps
      BY <2>1, <2>3, <2>5 DEF Steps
    <3> QED BY <1>0, <2>6, <3>1 DEF TypeOK
  <2>8. MemoryInv'
    <3>1. ASSUME NEW p \in searcher'.pending PROVE p[1] < c + n
      <4>1. CASE p \in searcher.pending
        <5>1. p[1] < c /\ p[1] \in Nat
          BY <1>0, <4>1, Bounds DEF MemoryInv, Covered, TypeOK, SearcherState
        <5> HIDE DEF c
        <5> QED BY <2>2, <2>3, <5>1
      <4>2. CASE p \in {<<b[i].id, b[i].particle>> : i \in DOMAIN b}
        <5>1. PICK i \in 1..n : p = <<b[i].id, b[i].particle>>
          BY <2>5, <4>2
        <5>2. p[1] = c + i - 1
          BY <2>4, <5>1
        <5> HIDE DEF c
        <5> QED BY <2>2, <2>3, <5>2
      <4> QED BY <2>6, <4>1, <4>2
    <3> HIDE DEF c
    <3>2. Covered(searcher)'
      BY <1>0, <1>2, <2>6, <3>1 DEF Covered, MemoryInv
    <3> QED BY <1>0, <1>2, <2>1, <3>2 DEF MemoryInv
  <2>9. BatchInv'
    <3>1. \A i \in DOMAIN batch' : batch'[i].id = c + i - 1 /\ batch'[i].id < MaxTrials
      BY <2>1, <2>4, <2>5
    <3>2. DistinctIds'
      <4> SUFFICES ASSUME NEW i \in 1..n, NEW j \in 1..n, b[i].id = b[j].id
                   PROVE  i = j
        BY <2>1, <2>5 DEF DistinctIds
      <4>1. c + i - 1 = c + j - 1
        BY <2>4
      <4> HIDE DEF c
      <4> QED BY <2>2, <2>3, <4>1
    <3>3. batch' # <<>> /\ done' < Len(batch')
      BY <2>1, <2>3, <2>5
    <3>4. DrawnInv'
      <4>1. Running' = {} /\ Rows \in Nat
        BY <1>1, <1>2, <2>2
      <4> QED BY <1>1, <1>2, <2>1, <2>2, <2>3, <2>5, <2>6, <3>1, <4>1 DEF DrawnInv
    <3> QED BY <2>1, <3>2, <3>3, <3>4 DEF BatchInv, HasBatch, Drawing, Settled
  <2> QED BY <1>2, <2>7, <2>8, <2>9 DEF StudyInv
<1> QED BY <1>3, <1>4


\* A suggestion that is stored is the next row.
LEMMA RowAdded ==
  ASSUME TypeOK, RowsInv, NEW r \in Params, Rows < MaxTrials,
         trials' = [trials EXCEPT ![Rows].status = "running", ![Rows].params = r]
  PROVE  /\ trials' \in [TrialIds -> Trial] /\ Rows' = Rows + 1 /\ RowsInv'
         /\ TerminalTrials' = TerminalTrials /\ Running' = Running \cup {Rows}
         /\ \A t \in TrialIds : Stored(t)' <=> Stored(t) \/ t = Rows
<1> DEFINE id == Rows
           new == [trials[id] EXCEPT !.status = "running", !.params = r]
<1>0. /\ trials \in [TrialIds -> Trial] /\ id \in TrialIds /\ id \in Nat /\ MaxTrials \in Nat
      /\ \A t \in TrialIds : t \in Nat /\ (Stored(t) <=> t < id)
  BY Bounds DEF TypeOK, RowsInv
<1>1. ~Stored(id)
  BY <1>0
<1>2. /\ new \in Trial /\ new.status = "running"
      /\ trials' = [trials EXCEPT ![id] = new]
  BY <1>0 DEF Trial
<1> HIDE DEF new, id
<1>3. /\ trials' \in [TrialIds -> Trial] /\ trials'[id] = new
      /\ \A t \in TrialIds : t # id => trials'[t] = trials[t]
  BY <1>0, <1>2
<1>4. TerminalTrials' = TerminalTrials
  BY <1>1, <1>2, <1>3, <1>0, StatusSets DEF TerminalTrials, WithStatus, Stored
<1>5. Running' = Running \cup {id}
  BY <1>0, <1>2, <1>3 DEF Running, WithStatus
<1>6. \A t \in TrialIds : Stored(t)' <=> Stored(t) \/ t = id
  BY <1>0, <1>2, <1>3 DEF Stored
<1>7. {t \in TrialIds : Stored(t)'} = {t \in TrialIds : Stored(t)} \cup {id}
  BY <1>0, <1>6
<1>8. Rows' = Rows + 1
  <2>1. IsFiniteSet({t \in TrialIds : Stored(t)})
    BY Bounds, FS_Subset
  <2>2. id \notin {t \in TrialIds : Stored(t)}
    BY <1>1
  <2>3. Cardinality({t \in TrialIds : Stored(t)} \cup {id}) = Rows + 1
    BY <2>1, <2>2, FS_AddElement, Zenon DEF Rows
  <2> QED BY <1>7, <2>3 DEF Rows
<1>9. RowsInv'
  <2>1. Rows' \in 0..MaxTrials
    BY <1>0, <1>8 DEF id
  <2>2. \A t \in TrialIds : Stored(t)' <=> t < Rows'
    BY <1>0, <1>6, <1>8 DEF id
  <2> QED BY <2>1, <2>2 DEF RowsInv
<1> QED BY <1>3, <1>4, <1>5, <1>6, <1>8, <1>9 DEF id

\* Storing a suggestion.
LEMMA SaveSuggestionKeeps ==
  ASSUME StudyInv, SaveSuggestion
  PROVE  StudyInv'
<1> DEFINE s == batch[done + 1]
           n == Len(batch)
<1>0. /\ TypeOK /\ RowsInv /\ CommitInv /\ MemoryInv /\ BatchInv /\ step = "suggestions"
      /\ saved' = saved /\ kind' = kind /\ crashes' = crashes
      /\ scheduler' = scheduler /\ searcher' = searcher /\ batch' = batch
  BY DEF StudyInv, SaveSuggestion, memory
<1>1. batch # <<>> /\ DistinctIds /\ done < n /\ DrawnInv
  BY <1>0 DEF BatchInv, HasBatch, Drawing
<1>2. /\ batch \in Seq(Suggestion) /\ n \in Nat /\ done \in Nat /\ Resumed \in Nat
      /\ Rows \in Nat /\ MaxTrials \in Nat /\ DOMAIN batch = 1..n
      /\ done + 1 \in DOMAIN batch
  <2>1. batch \in Seq(Suggestion) /\ done \in 0..n
    BY <1>0 DEF TypeOK
  <2>2. n \in Nat /\ DOMAIN batch = 1..n
    BY <2>1, LenProperties
  <2>3. done \in Nat /\ done < n
    BY <1>1, <2>1, <2>2
  <2>4. done + 1 \in DOMAIN batch
    BY <2>2, <2>3
  <2>5. Rows \in Nat /\ MaxTrials \in Nat
    BY <1>0, Bounds DEF RowsInv
  <2> QED BY <1>0, <2>1, <2>2, <2>3, <2>4, <2>5, LoadedIs
<1>3. /\ s \in Suggestion /\ s.id \in TrialIds /\ s.params \in Params
      /\ s.id = Resumed + done /\ s.id < MaxTrials /\ s.id <= Rows
      /\ Stored(s.id) <=> s.id < Rows
  <2>1. s \in Suggestion
    BY <1>2, ElementOfSeq
  <2>2. s.id = Resumed + (done + 1) - 1 /\ s.id < MaxTrials
    BY <1>1, <1>2 DEF DrawnInv
  <2>3. Resumed + done <= Rows
    BY <1>1 DEF DrawnInv
  <2> HIDE DEF s
  <2> QED BY <1>0, <1>2, <2>1, <2>2, <2>3 DEF Suggestion, RowsInv
<1>4. CASE Conflict(s)
  <2>1. step' = "failed" /\ trials' = trials /\ done' = done
    BY <1>4 DEF SaveSuggestion
  <2>2. Running = {}
    <3>1. s.id < Rows
      BY <1>3, <1>4 DEF Conflict
    <3> HIDE DEF s
    <3> QED BY <1>1, <1>2, <1>3, <3>1 DEF DrawnInv
  <2>3. RowsInv' /\ CommitInv' /\ Rows' = Rows /\ Running' = Running
        /\ TerminalTrials' = TerminalTrials
    BY <1>0, <2>1, TrialsKept, CommitKept
  <2>4. TypeOK'
    BY <1>0, <2>1 DEF TypeOK, Steps
  <2>5. MemoryInv'
    BY <1>0, <2>1, <2>3 DEF MemoryInv, Covered
  <2>6. BatchInv'
    BY <2>1, <2>2, <2>3 DEF BatchInv, HasBatch, Drawing, Settled
  <2> QED BY <2>3, <2>4, <2>5, <2>6 DEF StudyInv
<1>5. CASE ~Conflict(s)
  <2>1. /\ done' = IF Last THEN 0 ELSE done + 1
        /\ step' = IF Last THEN "searcher_ckpt" ELSE "suggestions"
        /\ trials' = IF Stored(s.id) THEN trials
                     ELSE [trials EXCEPT ![s.id].status = "running",
                                         ![s.id].params = s.params]
    BY <1>0, <1>5 DEF SaveSuggestion
  <2>2. /\ trials' \in [TrialIds -> Trial] /\ RowsInv' /\ Rows <= Rows' /\ Rows' \in Nat
        /\ TerminalTrials' = TerminalTrials
        /\ \A t \in TrialIds : t < Rows' => Stored(t)'
        /\ Resumed + done + 1 <= Rows'
        /\ Running' # {} => Rows' = Resumed + done + 1
        /\ \A t \in Running' : Resumed <= t
    <3>1. CASE Stored(s.id)
      <4>1. trials' = trials
        BY <2>1, <3>1
      <4>2. /\ trials' \in [TrialIds -> Trial] /\ RowsInv' /\ Rows' = Rows
            /\ TerminalTrials' = TerminalTrials /\ Running' = Running
        BY <1>0, <4>1, TrialsKept DEF TypeOK
      <4>3. Running = {} /\ Resumed + done + 1 <= Rows
        <5> HIDE DEF s
        <5> QED BY <1>1, <1>2, <1>3, <3>1 DEF DrawnInv
      <4> QED BY <1>2, <4>2, <4>3 DEF RowsInv
    <3>2. CASE ~Stored(s.id)
      <4>1. s.id = Rows /\ Rows < MaxTrials /\ Rows = Resumed + done
        <5> HIDE DEF s
        <5> QED BY <1>2, <1>3, <3>2
      <4>2. trials' = [trials EXCEPT ![Rows].status = "running", ![Rows].params = s.params]
        BY <2>1, <3>2, <4>1
      <4>3. /\ trials' \in [TrialIds -> Trial] /\ Rows' = Rows + 1 /\ RowsInv'
            /\ TerminalTrials' = TerminalTrials /\ Running' = Running \cup {Rows}
        BY <1>0, <1>3, <4>1, <4>2, RowAdded
      <4>4. \A t \in Running' : Resumed <= t
        BY <1>1, <1>2, <4>1, <4>3 DEF DrawnInv
      <4> QED BY <1>2, <4>1, <4>3, <4>4 DEF RowsInv
    <3> QED BY <3>1, <3>2
  <2>3. Resumed' = Resumed
    BY <1>0, <2>2, ResumedKept
  <2>4. TypeOK'
    <3>1. done' \in 0..Len(batch) /\ step' \in Steps
      BY <1>2, <2>1 DEF Steps, Last
    <3> QED BY <1>0, <2>2, <3>1 DEF TypeOK
  <2>5. CommitInv'
    <3>1. \A r \in saved.searcher : r.counter \in Nat
      BY <1>0 DEF TypeOK, SearcherState
    <3> QED BY <1>0, <1>2, <2>2, <3>1 DEF CommitInv, Covered
  <2>6. MemoryInv'
    <3>1. step' # "suggestions" => searcher.counter <= Rows'
      BY <1>1, <1>2, <2>1, <2>2 DEF DrawnInv, Last
    <3> QED BY <1>0, <2>1, <2>2, <3>1 DEF MemoryInv, Covered
  <2>7. BatchInv'
    <3>1. CASE Last
      <4>1. step' = "searcher_ckpt" /\ Resumed + n <= Rows'
            /\ (Running' # {} => Rows' = Resumed + n)
        BY <1>2, <2>1, <2>2, <3>1 DEF Last
      <4>2. (\A i \in DOMAIN batch : Stored(batch[i].id))'
        <5> SUFFICES ASSUME NEW i \in 1..n PROVE Stored(batch[i].id)'
          BY <1>0, <1>2
        <5>1. batch[i].id \in TrialIds
          <6>1. batch[i] \in Suggestion
            BY <1>2, ElementOfSeq
          <6> QED BY <6>1 DEF Suggestion
        <5>2. batch[i].id = Resumed + i - 1
          BY <1>1, <1>2 DEF DrawnInv
        <5>3. batch[i].id < Rows'
          BY <1>2, <2>2, <4>1, <5>2
        <5> QED BY <1>0, <2>2, <5>1, <5>3 DEF Stored
      <4>3. Running' \subseteq Ids(batch)'
        <5> SUFFICES ASSUME NEW t \in Running' PROVE t \in Ids(batch)
          BY <1>0 DEF Ids
        <5>1. t \in TrialIds /\ t \in Nat /\ Resumed <= t /\ Rows' = Resumed + n
          BY <2>2, <4>1, Bounds DEF Running, WithStatus
        <5>2. t < Rows'
          <6>1. Stored(t)'
            BY DEF Running, WithStatus, Stored
          <6> QED BY <2>2, <5>1, <6>1 DEF RowsInv
        <5>3. t - Resumed + 1 \in 1..n /\ Resumed + (t - Resumed + 1) - 1 = t
          BY <1>2, <5>1, <5>2
        <5>4. batch[t - Resumed + 1].id = t
          BY <1>1, <1>2, <5>3 DEF DrawnInv
        <5> QED BY <1>2, <5>3, <5>4 DEF Ids
      <4> QED BY <1>0, <1>1, <4>1, <4>2, <4>3
             DEF BatchInv, HasBatch, Drawing, Settled, DistinctIds
    <3>2. CASE ~Last
      <4>1. step' = "suggestions" /\ done' = done + 1 /\ done' < Len(batch')
        BY <1>0, <1>1, <1>2, <2>1, <3>2 DEF Last
      <4>2. DrawnInv'
        <5>1. Resumed' + done' = Resumed + done + 1
          BY <2>3, <4>1, <1>2
        <5> QED BY <1>0, <1>1, <2>2, <2>3, <5>1 DEF DrawnInv
      <4> QED BY <1>0, <1>1, <4>1, <4>2
             DEF BatchInv, HasBatch, Drawing, Settled, DistinctIds
    <3> QED BY <3>1, <3>2
  <2> QED BY <2>2, <2>4, <2>5, <2>6, <2>7 DEF StudyInv
<1> QED BY <1>4, <1>5


\* A checkpoint holds what is in memory, and the next process resumes there.
LEMMA CheckpointKeeps ==
  ASSUME StudyInv, CheckpointSearcher \/ CheckpointScheduler
  PROVE  StudyInv'
<1>0. /\ TypeOK /\ RowsInv /\ CommitInv /\ MemoryInv /\ BatchInv
      /\ trials' = trials /\ kind' = kind /\ crashes' = crashes
      /\ searcher' = searcher /\ scheduler' = scheduler
      /\ batch' = batch /\ done' = done
  BY DEF StudyInv, CheckpointSearcher, CheckpointScheduler, memory
<1>1. /\ RowsInv' /\ Rows' = Rows /\ Running' = Running /\ TerminalTrials' = TerminalTrials
      /\ \A t : Stored(t)' <=> Stored(t)
  BY <1>0, TrialsKept
<1>2. /\ step \in {"searcher_ckpt", "observed_ckpt", "scheduler_ckpt", "last_ckpt"}
      /\ searcher.counter <= Rows
  BY <1>0 DEF CheckpointSearcher, CheckpointScheduler, MemoryInv
<1>3. CASE CheckpointSearcher
  <2>1. /\ saved' = [saved EXCEPT !.searcher = {searcher}]
        /\ step' = IF step = "searcher_ckpt" THEN "scheduler_ckpt" ELSE "last_ckpt"
        /\ step \in {"searcher_ckpt", "observed_ckpt"}
    BY <1>3 DEF CheckpointSearcher
  <2>2. saved'.searcher = {searcher} /\ saved'.scheduler = saved.scheduler
        /\ saved' \in [searcher: SUBSET SearcherState, scheduler: SUBSET SchedulerState]
    BY <1>0, <2>1 DEF TypeOK
  <2>3. TypeOK'
    <3>1. \A c \in DOMAIN saved' : \A s, r \in saved'[c] : s = r
      BY <1>0, <2>2 DEF TypeOK
    <3>2. step' \in Steps
      BY <2>1 DEF Steps
    <3> QED BY <1>0, <2>2, <3>1, <3>2 DEF TypeOK
  <2>4. CommitInv'
    BY <1>0, <1>1, <1>2, <2>2 DEF CommitInv, MemoryInv, Covered
  <2>5. Resumed' = searcher.counter
    BY <1>0, <2>2 DEF Resumed, LoadedSearcher, TypeOK, SearcherState
  <2>6. MemoryInv'
    BY <1>0, <1>1, <1>2, <2>1, <2>5 DEF MemoryInv, Covered
  <2>7. BatchInv'
    BY <1>0, <1>1, <2>1 DEF BatchInv, HasBatch, Drawing, Settled, DistinctIds, Ids, Stored
  <2> QED BY <1>1, <2>3, <2>4, <2>6, <2>7 DEF StudyInv
<1>4. CASE CheckpointScheduler
  <2>1. /\ saved' = [saved EXCEPT !.scheduler = {scheduler}]
        /\ step' = IF step = "scheduler_ckpt" THEN "evaluate" ELSE "top"
        /\ step \in {"scheduler_ckpt", "last_ckpt"}
    BY <1>4 DEF CheckpointScheduler, SchedulerSaved
  <2>2. saved'.scheduler = {scheduler} /\ saved'.searcher = saved.searcher
        /\ saved' \in [searcher: SUBSET SearcherState, scheduler: SUBSET SchedulerState]
    BY <1>0, <2>1 DEF TypeOK
  <2>3. TypeOK'
    <3>1. \A c \in DOMAIN saved' : \A s, r \in saved'[c] : s = r
      BY <1>0, <2>2 DEF TypeOK
    <3>2. step' \in Steps
      BY <2>1 DEF Steps
    <3> QED BY <1>0, <2>2, <3>1, <3>2 DEF TypeOK
  <2>4. CommitInv'
    BY <1>0, <1>1, <1>2, <2>2 DEF CommitInv, MemoryInv, Covered
  <2>5. Resumed' = Resumed
    BY <1>0, <1>1, <2>2, ResumedKept
  <2>6. MemoryInv'
    BY <1>0, <1>1, <1>2, <2>1, <2>5 DEF MemoryInv, Covered
  <2>7. BatchInv'
    BY <1>0, <1>1, <2>1 DEF BatchInv, HasBatch, Drawing, Settled, DistinctIds, Ids, Stored
  <2> QED BY <1>1, <2>3, <2>4, <2>6, <2>7 DEF StudyInv
<1> QED BY <1>3, <1>4

\* A batch that is evaluated is as it was drawn.
LEMMA EvaluateKeeps ==
  ASSUME StudyInv, Evaluate
  PROVE  StudyInv'
<1>0. /\ TypeOK /\ RowsInv /\ CommitInv /\ MemoryInv /\ BatchInv /\ step = "evaluate"
      /\ trials' = trials /\ saved' = saved /\ kind' = kind /\ crashes' = crashes
      /\ searcher' = searcher /\ batch' = batch /\ done' = 0 /\ step' = "results"
      /\ scheduler' = [scheduler EXCEPT
                          !.active = scheduler.active \cup (Ids(batch) \ scheduler.completed)]
  BY DEF StudyInv, Evaluate, tables, TypeOK, SchedulerState
<1>1. /\ RowsInv' /\ CommitInv' /\ Rows' = Rows /\ Running' = Running
      /\ TerminalTrials' = TerminalTrials /\ Resumed' = Resumed
  BY <1>0, TrialsKept, CommitKept, ResumedKept
<1>2. /\ Ids(batch) \in SUBSET TrialIds /\ DOMAIN batch = 1..Len(batch) /\ Len(batch) \in Nat
      /\ batch \in Seq(Suggestion)
  <2>1. batch \in Seq(Suggestion) /\ DOMAIN batch = 1..Len(batch) /\ Len(batch) \in Nat
    BY <1>0, LenProperties DEF TypeOK
  <2>2. \A i \in DOMAIN batch : batch[i] \in Suggestion
    BY <2>1, ElementOfSeq
  <2> QED BY <2>1, <2>2 DEF Ids, Suggestion
<1>3. /\ scheduler' \in SchedulerState /\ scheduler'.completed = scheduler.completed
  <2> DEFINE a == scheduler.active \cup (Ids(batch) \ scheduler.completed)
  <2>1. a \in SUBSET TrialIds /\ scheduler \in SchedulerState
        /\ scheduler' = [scheduler EXCEPT !.active = a]
    BY <1>0, <1>2 DEF TypeOK, SchedulerState
  <2> HIDE DEF a
  <2> QED BY <2>1 DEF SchedulerState
<1>4. TypeOK'
  BY <1>0, <1>2, <1>3 DEF TypeOK, Steps
<1>5. MemoryInv'
  BY <1>0, <1>1, <1>3 DEF MemoryInv, Covered
<1>6. BatchInv'
  <2>1. /\ batch # <<>> /\ DistinctIds /\ Running \subseteq Ids(batch)
        /\ \A i \in DOMAIN batch : Stored(batch[i].id)
    BY <1>0 DEF BatchInv, HasBatch, Drawing
  <2>2. 0 < Len(batch)
    BY <1>2, <2>1, EmptySeq
  <2>3. ResultsInv'
    BY <1>0, <1>1, <1>2, <2>1 DEF ResultsInv, Ids
  <2>4. DistinctIds' /\ (\A i \in DOMAIN batch : Stored(batch[i].id))'
    BY <1>0, <2>1 DEF DistinctIds, Stored
  <2> QED BY <1>0, <2>1, <2>2, <2>3, <2>4 DEF BatchInv, HasBatch, Drawing, Settled
<1> QED BY <1>1, <1>4, <1>5, <1>6 DEF StudyInv

\* A result that is stored closes its trial and changes no other.
LEMMA ResultStored ==
  ASSUME TypeOK, NEW t \in TrialIds, trials' = Recorded(t)
  PROVE  /\ trials' \in [TrialIds -> Trial]
         /\ TerminalTrials' = TerminalTrials \cup {t} /\ Running' = Running \ {t}
         /\ \A u \in TrialIds : trials'[u].params = trials[u].params
         /\ \A u \in TrialIds : u # t => trials'[u] = trials[u]
         /\ trials'[t].status = "terminal"
         /\ trials'[t].recorded <= trials[t].recorded + 1
<1> DEFINE k == IF trials[t].recorded < MaxRecorded THEN trials[t].recorded + 1
                ELSE trials[t].recorded
           new == [trials[t] EXCEPT !.status = "terminal", !.recorded = k]
<1>0. trials \in [TrialIds -> Trial] /\ MaxRecorded \in Nat
  BY Bounds DEF TypeOK
<1>1. trials[t].recorded \in 0..MaxRecorded /\ trials[t] \in Trial
  BY <1>0 DEF Trial
<1>2. k \in 0..MaxRecorded /\ k <= trials[t].recorded + 1
  BY <1>0, <1>1
<1>3. trials' = [trials EXCEPT ![t] = new]
  BY <1>0 DEF Recorded
<1> HIDE DEF k
<1>4. /\ new \in Trial /\ new.status = "terminal" /\ new.params = trials[t].params
      /\ new.recorded = k
  BY <1>1, <1>2 DEF Trial
<1> HIDE DEF new
<1>5. /\ trials' \in [TrialIds -> Trial] /\ trials'[t] = new
      /\ \A u \in TrialIds : u # t => trials'[u] = trials[u]
  BY <1>0, <1>3, <1>4
<1>6. TerminalTrials' = TerminalTrials \cup {t} /\ Running' = Running \ {t}
  BY <1>4, <1>5 DEF TerminalTrials, Running, WithStatus
<1> QED BY <1>2, <1>4, <1>5, <1>6

\* The results of a batch are stored one after another.
LEMMA SaveResultKeeps ==
  ASSUME StudyInv, SaveResult
  PROVE  StudyInv'
<1> DEFINE t == batch[done + 1].id
           n == Len(batch)
<1>0. /\ TypeOK /\ RowsInv /\ CommitInv /\ MemoryInv /\ BatchInv /\ step = "results"
      /\ trials' = Recorded(t) /\ saved' = saved /\ kind' = kind /\ crashes' = crashes
      /\ searcher' = searcher /\ batch' = batch
      /\ scheduler' = [active |-> scheduler.active \ {t},
                       completed |-> scheduler.completed \cup {t}]
      /\ done' = IF Last THEN 0 ELSE done + 1
      /\ step' = IF Last THEN "observe" ELSE "results"
  BY DEF StudyInv, SaveResult
<1>1. /\ batch # <<>> /\ DistinctIds /\ done < n /\ ResultsInv
      /\ \A i \in DOMAIN batch : Stored(batch[i].id)
  BY <1>0 DEF BatchInv, HasBatch, Drawing
<1>2. /\ batch \in Seq(Suggestion) /\ n \in Nat /\ done \in Nat /\ DOMAIN batch = 1..n
      /\ done + 1 \in DOMAIN batch
  BY <1>0, <1>1, LenProperties DEF TypeOK
<1>3. \A i \in DOMAIN batch : batch[i].id \in TrialIds
  <2>1. \A i \in DOMAIN batch : batch[i] \in Suggestion
    BY <1>2, ElementOfSeq
  <2> QED BY <2>1 DEF Suggestion
<1>4. t \in TrialIds /\ Stored(t)
  BY <1>1, <1>2, <1>3
<1>5. /\ trials' \in [TrialIds -> Trial]
      /\ TerminalTrials' = TerminalTrials \cup {t} /\ Running' = Running \ {t}
      /\ \A u \in TrialIds : u # t => trials'[u] = trials[u]
      /\ trials'[t].status = "terminal"
  BY <1>0, <1>4, ResultStored
<1> HIDE DEF t
<1>6. \A u \in TrialIds : Stored(u)' <=> Stored(u)
  BY <1>4, <1>5 DEF Stored
<1>7. Rows' = Rows /\ RowsInv'
  <2>1. {u \in TrialIds : Stored(u)'} = {u \in TrialIds : Stored(u)}
    BY <1>6
  <2>2. Rows' = Rows
    BY <2>1 DEF Rows
  <2> QED BY <1>0, <1>6, <2>2 DEF RowsInv
<1>8. TypeOK'
  <2>1. scheduler' \in SchedulerState
    BY <1>0, <1>4 DEF TypeOK, SchedulerState
  <2>2. done' \in 0..Len(batch)
    BY <1>0, <1>1, <1>2
  <2>3. step' \in Steps
    BY <1>0 DEF Steps
  <2> QED BY <1>0, <1>5, <2>1, <2>2, <2>3 DEF TypeOK
<1>9. CommitInv'
  BY <1>0, <1>5, <1>7 DEF CommitInv, Covered
<1>10. MemoryInv'
  BY <1>0, <1>5, <1>7 DEF MemoryInv, Covered
<1>11. BatchInv'
  <2>1. DistinctIds' /\ (\A i \in DOMAIN batch : Stored(batch[i].id))'
    BY <1>0, <1>1, <1>3, <1>6 DEF DistinctIds, Stored
  <2>2. \A i \in DOMAIN batch : i <= done + 1 => batch[i].id \in TerminalTrials'
    <3> SUFFICES ASSUME NEW i \in 1..n, i <= done + 1
                 PROVE  batch[i].id \in TerminalTrials'
      BY <1>2
    <3>1. i <= done \/ i = done + 1
      BY <1>2
    <3> QED BY <1>1, <1>2, <1>5, <3>1 DEF ResultsInv, t
  <2>3. \A u \in Running' : \E i \in DOMAIN batch : done + 1 < i /\ batch[i].id = u
    <3> SUFFICES ASSUME NEW u \in Running, u # t
                 PROVE  \E i \in DOMAIN batch : done + 1 < i /\ batch[i].id = u
      BY <1>5
    <3>1. PICK i \in DOMAIN batch : done < i /\ batch[i].id = u
      BY <1>1 DEF ResultsInv
    <3>2. i # done + 1
      BY <3>1 DEF t
    <3>3. done + 1 < i
      BY <1>2, <3>1, <3>2
    <3> QED BY <3>1, <3>3
  <2>4. CASE Last
    <3>1. step' = "observe" /\ done + 1 = n
      BY <1>0, <2>4 DEF Last
    <3>2. Ids(batch)' \subseteq TerminalTrials'
      BY <1>0, <1>2, <2>2, <3>1 DEF Ids
    <3>3. Running' = {}
      BY <1>2, <2>3, <3>1
    <3> QED BY <1>0, <1>1, <2>1, <3>1, <3>2, <3>3 DEF BatchInv, HasBatch, Drawing, Settled
  <2>5. CASE ~Last
    <3>1. step' = "results" /\ done' = done + 1 /\ done' < n
      BY <1>0, <1>1, <1>2, <2>5 DEF Last
    <3>2. ResultsInv'
      BY <1>0, <2>2, <2>3, <3>1 DEF ResultsInv
    <3> QED BY <1>0, <1>1, <2>1, <3>1, <3>2 DEF BatchInv, HasBatch, Drawing, Settled
  <2> QED BY <2>4, <2>5
<1> QED BY <1>7, <1>8, <1>9, <1>10, <1>11 DEF StudyInv


\* What a searcher makes of the results it observes.
LEMMA ObservedIs ==
  ASSUME StudyInv, Observe
  PROVE  /\ searcher' \in SearcherState /\ searcher'.counter = searcher.counter
         /\ searcher'.pending \subseteq searcher.pending
         /\ searcher'.learned \subseteq searcher.learned \cup Ids(batch)
         /\ kind \in {"history", "state"} =>
               step' = "observed_ckpt"
               /\ searcher'.learned = searcher.learned \cup Ids(batch)
<1>0. searcher \in SearcherState /\ step = "observe"
  BY DEF StudyInv, TypeOK, Observe
<1>1. Ids(batch) \in SUBSET TrialIds
  <2>1. Ids(batch) \subseteq TerminalTrials
    BY <1>0 DEF StudyInv, BatchInv
  <2> QED BY <2>1 DEF TerminalTrials, WithStatus
<1>2. CASE kind = "swarm"
  <2> DEFINE mine   == {p \in searcher.pending : p[1] \in Ids(batch)}
             scored == searcher.scored \cup {p[2] : p \in mine}
             moved  == scored = Particles
             pen == searcher.pending \ mine
             sco == IF moved THEN {} ELSE scored
             iss == IF moved THEN {} ELSE searcher.issued
             gen == IF moved THEN searcher.generation + 1 ELSE searcher.generation
  <2>1. searcher' = searcher
        \/ searcher' = [searcher EXCEPT !.pending = pen, !.scored = sco, !.issued = iss,
                                        !.generation = gen]
    <3>1. searcher' = searcher \/ searcher' = AfterSwarmObserves
      BY <1>2 DEF Observe
    <3>2. AfterSwarmObserves =
            [searcher EXCEPT !.pending = pen, !.scored = sco, !.issued = iss,
                             !.generation = gen]
      BY <1>0 DEF AfterSwarmObserves, SearcherState
    <3> QED BY <3>1, <3>2
  <2>2. scored \in SUBSET Particles
    <3>1. \A p \in mine : p[2] \in Particles
      BY <1>0 DEF SearcherState
    <3> QED BY <1>0, <3>1 DEF SearcherState
  <2>3. /\ pen \in SUBSET (TrialIds \X Particles) /\ pen \subseteq searcher.pending
        /\ iss \in SUBSET Particles /\ gen \in Nat
    <3> HIDE DEF mine, moved
    <3> QED BY <1>0 DEF SearcherState
  <2>4. sco \in SUBSET Particles
    <3> HIDE DEF scored, moved
    <3> QED BY <2>2
  <2> HIDE DEF pen, sco, iss, gen
  <2> QED BY <1>0, <1>2, <2>1, <2>3, <2>4 DEF SearcherState
<1>3. CASE kind # "swarm"
  <2> DEFINE l == IF kind \in {"history", "state"} THEN searcher.learned \cup Ids(batch)
                  ELSE searcher.learned
  <2>1. searcher' = [searcher EXCEPT !.learned = l] /\ step' = "observed_ckpt"
    BY <1>0, <1>3 DEF Observe, SearcherState
  <2>2. l \in SUBSET TrialIds /\ l \subseteq searcher.learned \cup Ids(batch)
        /\ (kind \in {"history", "state"} => l = searcher.learned \cup Ids(batch))
    BY <1>0, <1>1 DEF SearcherState
  <2> HIDE DEF l
  <2> QED BY <1>0, <2>1, <2>2 DEF SearcherState
<1> QED BY <1>2, <1>3

\* Reporting a trial to the searcher.
LEMMA ObserveKeeps ==
  ASSUME StudyInv, Observe
  PROVE  StudyInv'
<1>0. /\ TypeOK /\ RowsInv /\ CommitInv /\ MemoryInv /\ BatchInv /\ step = "observe"
      /\ trials' = trials /\ saved' = saved /\ kind' = kind /\ crashes' = crashes
      /\ scheduler' = scheduler /\ batch' = batch /\ done' = done
      /\ step' \in {"failed", "observed_ckpt"}
  BY DEF StudyInv, Observe, tables
<1>1. /\ RowsInv' /\ CommitInv' /\ Rows' = Rows /\ Running' = Running
      /\ TerminalTrials' = TerminalTrials
  BY <1>0, TrialsKept, CommitKept
<1>2. /\ searcher' \in SearcherState /\ searcher'.counter = searcher.counter
      /\ searcher'.pending \subseteq searcher.pending
      /\ searcher'.learned \subseteq searcher.learned \cup Ids(batch)
      /\ Ids(batch) \subseteq TerminalTrials /\ Running = {}
  BY <1>0, ObservedIs DEF BatchInv, Settled
<1>3. TypeOK'
  BY <1>0, <1>2 DEF TypeOK, Steps
<1>4. MemoryInv'
  BY <1>0, <1>1, <1>2 DEF MemoryInv, Covered
<1>5. BatchInv'
  BY <1>0, <1>1, <1>2 DEF BatchInv, HasBatch, Drawing, Settled
<1> QED BY <1>1, <1>3, <1>4, <1>5 DEF StudyInv

\* The end of a process leaves the tables.
LEMMA GoneKeeps ==
  ASSUME StudyInv, Crash \/ Rerun
  PROVE  StudyInv'
<1>0. /\ TypeOK /\ RowsInv /\ CommitInv
      /\ trials' = trials /\ saved' = saved /\ kind' = kind
      /\ searcher' = FreshSearcher /\ scheduler' = FreshScheduler
      /\ batch' = <<>> /\ done' = 0 /\ step' = "down"
  BY DEF StudyInv, Crash, Rerun, ProcessGone, tables
<1>1. /\ RowsInv' /\ CommitInv' /\ Rows' = Rows /\ Running' = Running
      /\ TerminalTrials' = TerminalTrials
  BY <1>0, TrialsKept, CommitKept
<1>2. TypeOK'
  <2>1. crashes' \in 0..MaxCrashes
    BY <1>0, Bounds DEF Crash, Rerun, TypeOK
  <2>2. batch' \in Seq(Suggestion) /\ done' \in 0..Len(batch')
    BY <1>0
  <2> QED BY <1>0, <2>1, <2>2, FreshIs DEF TypeOK, Steps
<1>3. MemoryInv'
  BY <1>0, <1>1, LoadedCovered DEF MemoryInv, Covered
<1>4. BatchInv'
  BY <1>0 DEF BatchInv, HasBatch, Drawing, Settled
<1> QED BY <1>1, <1>2, <1>3, <1>4 DEF StudyInv

\* A study starts without trials.
LEMMA StudyInit == Init => StudyInv
<1> SUFFICES ASSUME Init PROVE StudyInv
  OBVIOUS
<1>0. /\ \A t \in TrialIds : trials[t].status = "absent"
      /\ saved.searcher = {} /\ saved.scheduler = {} /\ step = "down"
      /\ searcher = FreshSearcher /\ scheduler = FreshScheduler
  BY DEF Init
<1>1. TerminalTrials = {} /\ Running = {} /\ Rows = 0
  <2>1. TerminalTrials = {} /\ Running = {}
    BY <1>0 DEF TerminalTrials, Running, WithStatus
  <2>2. {t \in TrialIds : Stored(t)} = {}
    BY <1>0 DEF Stored
  <2> QED BY <2>1, <2>2, FS_EmptySet DEF Rows
<1>2. TypeOK
  <2>1. trials \in [TrialIds -> Trial]
    <3>1. [status |-> "absent", recorded |-> 0, params |-> [draw |-> 0, basis |-> {}]]
             \in Trial
      BY Bounds DEF Trial, Params
    <3> QED BY <3>1 DEF Init
  <2>2. FreshSearcher \in SearcherState
    <3>1. FreshSearcher = [counter |-> 0, draws |-> 0, learned |-> {}, issued |-> {},
                           pending |-> {}, scored |-> {}, generation |-> 0]
      BY <1>1, FS_EmptySet DEF FreshSearcher
    <3> QED BY <3>1 DEF SearcherState
  <2>3. FreshScheduler \in SchedulerState
    BY DEF FreshScheduler, SchedulerState
  <2>4. /\ saved \in [searcher: SUBSET SearcherState, scheduler: SUBSET SchedulerState]
        /\ \A c \in DOMAIN saved : \A s, r \in saved[c] : s = r
    BY DEF Init
  <2>5. /\ kind \in Kinds /\ batch \in Seq(Suggestion) /\ done \in 0..Len(batch)
        /\ crashes \in 0..MaxCrashes /\ step \in Steps
    BY Bounds DEF Init, Steps
  <2> QED BY <1>0, <2>1, <2>2, <2>3, <2>4, <2>5 DEF TypeOK
<1>3. RowsInv
  <2>1. \A t \in TrialIds : t \in Nat /\ ~(t < 0) /\ ~Stored(t)
    BY <1>0, Bounds DEF Stored
  <2> QED BY <1>1, <2>1, Bounds DEF RowsInv
<1>4. CommitInv
  BY <1>0 DEF CommitInv
<1>5. MemoryInv
  BY <1>0, <1>1, <1>2, FreshIs DEF MemoryInv, Covered, FreshScheduler
<1>6. BatchInv
  BY <1>0 DEF BatchInv, HasBatch, Drawing, Settled
<1> QED BY <1>2, <1>3, <1>4, <1>5, <1>6 DEF StudyInv

\* The invariant of a study over every step.
LEMMA StudyStep == StudyInv /\ [Next]_vars => StudyInv'
<1> SUFFICES ASSUME StudyInv, [Next]_vars PROVE StudyInv'
  OBVIOUS
<1>1. CASE Run
  BY <1>1, StartKeeps, SuggestKeeps, SaveSuggestionKeeps, CheckpointKeeps,
     EvaluateKeeps, SaveResultKeeps, ObserveKeeps DEF Run
<1>2. CASE Crash \/ Rerun
  BY <1>2, GoneKeeps
<1>3. CASE UNCHANGED vars
  <2>1. TypeOK' /\ RowsInv' /\ CommitInv'
    BY <1>3, TrialsKept, CommitKept DEF vars, StudyInv, TypeOK
  <2>2. MemoryInv' /\ BatchInv'
    <3>1. /\ Rows' = Rows /\ Running' = Running /\ TerminalTrials' = TerminalTrials
          /\ Resumed' = Resumed /\ \A t : Stored(t)' <=> Stored(t)
      BY <1>3, TrialsKept, ResumedKept DEF vars
    <3> QED BY <1>3, <3>1 DEF vars, StudyInv, MemoryInv, Covered, BatchInv, DistinctIds,
                              DrawnInv, ResultsInv, Ids, Stored
  <2> QED BY <2>1, <2>2 DEF StudyInv
<1> QED BY <1>1, <1>2, <1>3 DEF Next

\* Whatever is crashed and rerun, the study keeps its invariant.
THEOREM StudyKept == Spec => []StudyInv
BY StudyInit, StudyStep, PTL DEF Spec

\* Every variable keeps its type; in particular no identifier leaves the
\* range of the study, and a component has one checkpoint at most.
THEOREM StudyTypes == Spec => []TypeOK
<1>1. StudyInv => TypeOK
  BY DEF StudyInv
<1> QED BY <1>1, StudyKept, PTL

\* Through every crash and resume the study stays inside its budget, a
\* finished one has nothing unevaluated, and a checkpoint never knows more
\* than the trials stored with it.
THEOREM StudyAlwaysConsistent == Spec => []StudyConsistent
<1>1. ASSUME StudyInv PROVE StudyConsistent
  <2>0. TypeOK /\ RowsInv /\ CommitInv /\ BatchInv
    BY <1>1 DEF StudyInv
  <2>1. TrialBudget
    <3>1. Rows <= MaxTrials
      BY <2>0, Bounds DEF RowsInv
    <3>2. step = "finished" => Running = {}
      BY <2>0 DEF BatchInv, Settled
    <3> QED BY <3>1, <3>2 DEF TrialBudget, Rows, Stored, Running
  <2>2. CheckpointBehindTrials
    <3>1. ASSUME NEW s \in saved.searcher
          PROVE  /\ \A t \in TrialIds : t < s.counter => Stored(t)
                 /\ s.learned \subseteq TerminalTrials
                 /\ \A p \in s.pending : Stored(p[1])
      <4>1. /\ s \in SearcherState /\ s.counter \in Nat /\ s.counter <= Rows
            /\ Rows \in Nat /\ MaxTrials \in Nat
            /\ \A t \in TrialIds : t \in Nat /\ (Stored(t) <=> t < Rows)
        BY <2>0, Bounds DEF CommitInv, TypeOK, SearcherState, RowsInv
      <4>2. \A t \in TrialIds : t < s.counter => Stored(t)
        BY <4>1
      <4>3. s.learned \subseteq TerminalTrials /\ \A p \in s.pending : p[1] < s.counter
        BY <2>0 DEF CommitInv, Covered
      <4>4. \A p \in s.pending : p[1] \in TrialIds
        BY <4>1 DEF SearcherState
      <4> QED BY <4>2, <4>3, <4>4
    <3> QED BY <2>0, <3>1 DEF CheckpointBehindTrials, CommitInv
  <2> QED BY <2>1, <2>2 DEF StudyConsistent
<1> QED BY <1>1, StudyKept, PTL


\* No step of any process changes the parameters of a stored trial or
\* reopens a terminal one.
LEMMA TrialsKeptStep ==
  ASSUME StudyInv, [Next]_vars, NEW t \in TrialIds
  PROVE  /\ trials[t].status # "absent" => trials'[t].params = trials[t].params
         /\ trials[t].status = "terminal" => trials'[t].status = "terminal"
<1>0. TypeOK
  BY DEF StudyInv
<1>1. CASE SaveSuggestion
  <2> DEFINE s == batch[done + 1]
  <2>1. CASE trials' = trials
    BY <2>1
  <2>2. CASE trials' # trials
    <3>1. ~Stored(s.id) /\ trials' = [trials EXCEPT ![s.id].status = "running",
                                                    ![s.id].params = s.params]
      BY <1>1, <2>2 DEF SaveSuggestion
    <3>2. CASE t = s.id
      BY <3>1, <3>2 DEF Stored
    <3>3. CASE t # s.id
      BY <1>0, <3>1, <3>3 DEF TypeOK
    <3> QED BY <3>2, <3>3
  <2> QED BY <2>1, <2>2
<1>2. CASE SaveResult
  <2> DEFINE r == batch[done + 1].id
  <2>1. trials' = Recorded(r) /\ r \in TrialIds
    <3>1. done < Len(batch) /\ step = "results" /\ batch \in Seq(Suggestion) /\ done \in Nat
      BY <1>0, <1>2 DEF StudyInv, BatchInv, SaveResult, TypeOK
    <3>2. batch[done + 1] \in Suggestion
      BY <3>1, LenProperties, ElementOfSeq
    <3> QED BY <1>2, <3>2 DEF SaveResult, Suggestion
  <2> HIDE DEF r
  <2> QED BY <1>0, <2>1, ResultStored
<1>3. CASE trials' = trials
  BY <1>3
<1> QED BY <1>1, <1>2, <1>3 DEF Next, Run, Start, Suggest, CheckpointSearcher,
           CheckpointScheduler, Evaluate, Observe, Crash, Rerun, ProcessGone, tables, vars

\* Through every crash and resume, a stored trial keeps its parameters and a
\* terminal one is never reopened.
THEOREM StoredAlwaysKept == Spec => StoredTrialsKept
<1>1. ASSUME StudyInv, [Next]_vars
      PROVE  [\A t \in TrialIds :
                /\ trials[t].status # "absent" => trials'[t].params = trials[t].params
                /\ trials[t].status = "terminal" => trials'[t].status = "terminal"]_vars
  BY <1>1, TrialsKeptStep
<1> QED BY <1>1, StudyKept, PTL DEF Spec, StoredTrialsKept


-----------------------------------------------------------------------------
(***************************************************************************)
(* What a crash can cost.                                                  *)
(***************************************************************************)
Repeated == {t \in TrialIds : trials[t].recorded > 1}

\* The rows that a searcher with this counter will draw again.
Redrawn(c) == {t \in TrialIds : c <= t /\ t < Rows}

\* The trials of the current batch that have a result and will get another.
Again ==
    {t \in TerminalTrials :
        \E i \in DOMAIN batch : batch[i].id = t /\ (step = "results" => done < i)}

\* The trials that may be evaluated again although no process crashes any more.
Exposed ==
    IF step \in {"down", "finished", "stopped", "failed"} THEN Redrawn(Resumed)
    ELSE IF step \in Drawing \cup {"results"}
         THEN Redrawn(searcher.counter) \cup Again
         ELSE Redrawn(searcher.counter)

WorkInv ==
    /\ \A t \in TrialIds : trials[t].status # "terminal" => trials[t].recorded = 0
    /\ Cardinality(Repeated \cup Exposed) <= crashes * BatchSize
    /\ Rows <= Resumed + BatchSize
    /\ step \notin {"suggestions", "failed", "down"} =>
          Rows <= searcher.counter + BatchSize
    /\ step \in {"scheduler_ckpt", "evaluate", "results", "observe"} =>
          searcher.counter <= Resumed

\* Fewer rows, or a later start, redraw no more.
LEMMA RedrawsLess ==
  ASSUME NEW c \in Nat, NEW r \in Nat, NEW d \in Nat, NEW q \in Nat,
         c <= d, q <= r \/ q <= d
  PROVE  {t \in TrialIds : d <= t /\ t < q} \subseteq {t \in TrialIds : c <= t /\ t < r}
<1> SUFFICES ASSUME NEW t \in TrialIds, d <= t, t < q PROVE c <= t /\ t < r
  OBVIOUS
<1>1. t \in Nat
  BY Bounds
<1> QED BY <1>1

\* As results come in, a process that is started starts no earlier.
LEMMA ResumedGrows ==
  ASSUME TypeOK, TypeOK', saved' = saved, kind' = kind,
         TerminalTrials \subseteq TerminalTrials'
  PROVE  Resumed \in Nat /\ Resumed' \in Nat /\ Resumed <= Resumed'
<1> DEFINE T == TerminalTrials
           U == TerminalTrials'
           c == FreshSearcher.counter
           d == FreshSearcher'.counter
<1>1. T \in SUBSET TrialIds /\ U \in SUBSET TrialIds /\ T \subseteq U
  BY DEF TerminalTrials, WithStatus
<1>2. /\ c = IF T = {} THEN 0 ELSE 1 + CHOOSE t \in T : \A u \in T : u <= t
      /\ d = IF U = {} THEN 0 ELSE 1 + CHOOSE t \in U : \A u \in U : u <= t
  BY DEF FreshSearcher
<1> HIDE DEF T, U, c, d
<1>3. /\ c \in Nat /\ (T = {} => c = 0) /\ (T # {} => c - 1 \in T)
      /\ d \in Nat /\ (U # {} => \A t \in U : t < d)
  <2>1. c \in Nat /\ (T = {} => c = 0) /\ (T # {} => c - 1 \in T)
    <3>1. T \in SUBSET TrialIds
      BY <1>1
    <3>2. c = IF T = {} THEN 0 ELSE 1 + CHOOSE t \in T : \A u \in T : u <= t
      BY <1>2
    <3> QED BY <3>1, <3>2, NewestIs
  <2>2. d \in Nat /\ (U # {} => \A t \in U : t < d)
    <3>1. U \in SUBSET TrialIds
      BY <1>1
    <3>2. d = IF U = {} THEN 0 ELSE 1 + CHOOSE t \in U : \A u \in U : u <= t
      BY <1>2
    <3> QED BY <3>1, <3>2, NewestIs
  <2> QED BY <2>1, <2>2
<1>4. c <= d
  <2>1. CASE T = {}
    BY <1>3, <2>1
  <2>2. CASE T # {}
    <3>1. c - 1 < d
      BY <1>1, <1>3, <2>2
    <3> QED BY <1>3, <3>1
  <2> QED BY <2>1, <2>2
<1>5. CASE saved.searcher = {}
  <2>1. Resumed = c /\ Resumed' = d
    BY <1>5 DEF Resumed, LoadedSearcher, c, d
  <2> QED BY <1>3, <1>4, <2>1
<1>6. CASE saved.searcher # {}
  <2>1. PICK s \in SearcherState : saved.searcher = {s}
    BY <1>6, LoadedIs
  <2>2. s.counter \in Nat /\ Resumed = s.counter
    BY <2>1, LoadedIs DEF SearcherState
  <2>3. LoadedSearcher' = IF kind = "history" THEN [s EXCEPT !.learned = TerminalTrials']
                          ELSE s
    BY <2>1 DEF LoadedSearcher
  <2>4. Resumed' = s.counter
    BY <2>1, <2>3 DEF Resumed, SearcherState
  <2> QED BY <2>2, <2>4
<1> QED BY <1>5, <1>6

\* Trials that were or may be repeated can be counted.
LEMMA ExposedIs ==
  /\ Repeated \in SUBSET TrialIds /\ Exposed \in SUBSET TrialIds
  /\ IsFiniteSet(Repeated \cup Exposed) /\ Cardinality(Repeated \cup Exposed) \in Nat
  /\ IsFiniteSet(Repeated) /\ Cardinality(Repeated) \in Nat
<1>1. Repeated \in SUBSET TrialIds /\ Exposed \in SUBSET TrialIds
  BY DEF Repeated, Exposed, Redrawn, Again, TerminalTrials, WithStatus
<1>2. Repeated \cup Exposed \in SUBSET TrialIds
  BY <1>1
<1> QED BY <1>1, <1>2, Bounds, FS_Subset, FS_CardinalityType

\* A step that exposes nothing new keeps the bound.
LEMMA ExposesNothing ==
  ASSUME TypeOK, WorkInv, crashes' = crashes,
         Repeated' \cup Exposed' \subseteq Repeated \cup Exposed
  PROVE  (Cardinality(Repeated \cup Exposed) <= crashes * BatchSize)'
<1> DEFINE A == Repeated \cup Exposed
           B == Repeated' \cup Exposed'
           k == crashes * BatchSize
<1>1. /\ IsFiniteSet(A) /\ B \in SUBSET A
  BY ExposedIs
<1> HIDE DEF A, B
<1>2. IsFiniteSet(B) /\ Cardinality(B) <= Cardinality(A)
  BY <1>1, FS_Subset
<1>3. Cardinality(B) \in Nat /\ Cardinality(A) \in Nat
  BY <1>1, <1>2, FS_CardinalityType
<1>4. Cardinality(A) <= k
  BY DEF WorkInv, A
<1>5. k \in Nat /\ k' = k
  <2>1. crashes \in Nat /\ BatchSize \in Nat
    BY Bounds DEF TypeOK
  <2> QED BY <2>1
<1> HIDE DEF k
<1>6. Cardinality(B) <= k
  BY <1>2, <1>3, <1>4, <1>5
<1> QED BY <1>5, <1>6 DEF B, k


\* The numbers of a study.
LEMMA WorkTypes ==
  ASSUME StudyInv
  PROVE  /\ TypeOK /\ Rows \in Nat /\ Resumed \in Nat /\ searcher.counter \in Nat
         /\ BatchSize \in Nat /\ TrialIds \subseteq Nat /\ done \in Nat
         /\ DOMAIN batch = 1..Len(batch) /\ Len(batch) \in Nat
         /\ \A i \in DOMAIN batch : batch[i].id \in TrialIds /\ batch[i].id \in Nat
<1>1. TypeOK /\ Rows \in Nat /\ searcher.counter \in Nat
  BY Bounds DEF StudyInv, RowsInv, TypeOK, SearcherState
<1>2. batch \in Seq(Suggestion) /\ done \in 0..Len(batch)
  BY <1>1 DEF TypeOK
<1>3. DOMAIN batch = 1..Len(batch) /\ Len(batch) \in Nat /\ done \in Nat
  BY <1>2, LenProperties
<1>4. \A i \in DOMAIN batch : batch[i] \in Suggestion
  BY <1>2, <1>3, ElementOfSeq
<1>5. \A i \in DOMAIN batch : batch[i].id \in TrialIds
  BY <1>4 DEF Suggestion
<1> QED BY <1>1, <1>3, <1>5, LoadedIs, Bounds

\* A process that starts is exposed to what the database exposes.
LEMMA StartWork ==
  ASSUME StudyInv, WorkInv, Start
  PROVE  WorkInv'
<1>0. /\ TypeOK /\ TypeOK' /\ trials' = trials /\ saved' = saved /\ kind' = kind
      /\ crashes' = crashes
      /\ searcher' = LoadedSearcher /\ step = "down" /\ step' \in {"top", "evaluate"}
      /\ step' = "evaluate" => Ids(batch)' = Running
  <2>1. StudyInv'
    BY StartKeeps
  <2>2. Ids(batch)' = Running
    <3> DEFINE b == [i \in 1..Cardinality(Running) |->
                       [id |-> Nth(Running, i), params |-> trials[Nth(Running, i)].params,
                        particle |-> 0]]
    <3>1. batch' = b
      BY DEF Start, PendingTrials, Running
    <3>2. {b[i].id : i \in DOMAIN b} = Running
      BY RecoveredIs DEF StudyInv
    <3> HIDE DEF b
    <3> QED BY <3>1, <3>2 DEF Ids
  <2> QED BY <2>1, <2>2 DEF StudyInv, Start, tables
<1>1. /\ Rows' = Rows /\ TerminalTrials' = TerminalTrials /\ Resumed' = Resumed
      /\ searcher'.counter = Resumed
  BY <1>0, TrialsKept, ResumedKept DEF Resumed
<1>2. Again' = {} \/ step' # "evaluate"
  <2>1. step' = "evaluate" => \A t \in TerminalTrials : t \notin Ids(batch)'
    BY <1>0, StatusSets
  <2> QED BY <1>1, <2>1 DEF Again, Ids
<1>3. Exposed' = Redrawn(Resumed)' /\ Exposed = Redrawn(Resumed) /\ Repeated' = Repeated
  BY <1>0, <1>1, <1>2 DEF Exposed, Redrawn, Drawing, Repeated
<1>4. (Cardinality(Repeated \cup Exposed) <= crashes * BatchSize)'
  BY <1>0, <1>1, <1>3, ExposesNothing DEF Redrawn
<1> QED BY <1>0, <1>1, <1>4, WorkTypes DEF WorkInv

\* A batch is drawn from what was exposed, or from what is new.
LEMMA SuggestWork ==
  ASSUME StudyInv, WorkInv, Suggest
  PROVE  WorkInv'
<1>0. /\ TypeOK /\ MemoryInv /\ BatchInv /\ RowsInv /\ StudyInv' /\ BatchInv'
      /\ trials' = trials /\ saved' = saved /\ kind' = kind /\ crashes' = crashes
      /\ step = "top"
      /\ \/ step' \in {"finished", "stopped"} /\ searcher' = searcher
         \/ step' = "suggestions"
  BY SuggestKeeps DEF StudyInv, Suggest, tables
<1>1. /\ Rows' = Rows /\ TerminalTrials' = TerminalTrials /\ Resumed' = Resumed
      /\ \A t : Stored(t)' <=> Stored(t)
  BY <1>0, TrialsKept, ResumedKept
<1>2. searcher.counter = Resumed /\ Exposed = Redrawn(Resumed) /\ Repeated' = Repeated
  BY <1>0 DEF MemoryInv, Exposed, Drawing, Repeated
<1>3. /\ Rows \in Nat /\ Resumed \in Nat /\ BatchSize \in Nat /\ TrialIds \subseteq Nat
      /\ TerminalTrials \subseteq TrialIds /\ \A t \in TerminalTrials : t < Rows
  <2>1. \A t \in TerminalTrials : t < Rows
    BY <1>0, StatusSets DEF RowsInv
  <2> QED BY <1>0, <2>1, StatusSets, WorkTypes
<1>4. CASE step' # "suggestions"
  <2>1. Exposed' = Redrawn(Resumed)'
    BY <1>0, <1>4 DEF Exposed
  <2>2. Redrawn(Resumed)' = Redrawn(Resumed)
    BY <1>1 DEF Redrawn
  <2>3. (Cardinality(Repeated \cup Exposed) <= crashes * BatchSize)'
    BY <1>0, <1>2, <2>1, <2>2, ExposesNothing
  <2> QED BY <1>0, <1>1, <1>4, <2>3 DEF WorkInv
<1>5. CASE step' = "suggestions"
  <2>1. DrawnInv'
    BY <1>0, <1>5 DEF BatchInv
  <2>2. /\ searcher'.counter = Resumed + Len(batch') /\ Len(batch') \in Nat
        /\ DOMAIN batch' = 1..Len(batch')
        /\ \A i \in DOMAIN batch' : batch'[i].id = Resumed + i - 1
    <3>1. DOMAIN batch' = 1..Len(batch') /\ Len(batch') \in Nat
      <4>1. batch' \in Seq(Suggestion)
        BY <1>0 DEF StudyInv, TypeOK
      <4> QED BY <4>1, LenProperties
    <3> QED BY <1>1, <2>1, <3>1 DEF DrawnInv
  <2>3. Exposed' = Redrawn(searcher.counter)' \cup Again'
    BY <1>5 DEF Exposed, Drawing
  <2>4. Redrawn(searcher.counter)' \subseteq Redrawn(Resumed)
    <3>1. searcher'.counter \in Nat /\ Resumed <= searcher'.counter
      BY <1>3, <2>2
    <3> QED BY <1>1, <1>3, <3>1, RedrawsLess DEF Redrawn
  <2>5. Again' \subseteq Redrawn(Resumed)
    <3> SUFFICES ASSUME NEW t \in TerminalTrials, NEW i \in 1..Len(batch'),
                        batch'[i].id = t
                 PROVE  t \in Redrawn(Resumed)
      BY <1>1, <2>2 DEF Again
    <3>1. t = Resumed + i - 1 /\ t \in TrialIds /\ t < Rows
      BY <1>3, <2>2
    <3>2. Resumed <= t
      BY <1>3, <2>2, <3>1
    <3> QED BY <3>1, <3>2 DEF Redrawn
  <2>6. (Cardinality(Repeated \cup Exposed) <= crashes * BatchSize)'
    BY <1>0, <1>2, <2>3, <2>4, <2>5, ExposesNothing
  <2> QED BY <1>0, <1>1, <1>5, <2>6 DEF WorkInv
<1> QED BY <1>4, <1>5

\* Checkpoints, and the evaluation before its results, expose nothing.
LEMMA CheckpointWork ==
  ASSUME StudyInv, WorkInv, CheckpointSearcher \/ CheckpointScheduler \/ Evaluate
  PROVE  WorkInv'
<1>0. /\ TypeOK /\ trials' = trials /\ kind' = kind /\ crashes' = crashes
      /\ searcher' = searcher /\ batch' = batch
  BY DEF StudyInv, CheckpointSearcher, CheckpointScheduler, Evaluate, memory, tables
<1>1. Rows' = Rows /\ TerminalTrials' = TerminalTrials /\ Repeated' = Repeated
  BY <1>0, TrialsKept DEF Repeated
<1>2. /\ Rows \in Nat /\ Resumed \in Nat /\ searcher.counter \in Nat /\ BatchSize \in Nat
      /\ DOMAIN batch = 1..Len(batch) /\ Len(batch) \in Nat
  BY WorkTypes
<1>3. CASE CheckpointSearcher
  <2>1. /\ step \in {"searcher_ckpt", "observed_ckpt"}
        /\ step' = IF step = "searcher_ckpt" THEN "scheduler_ckpt" ELSE "last_ckpt"
        /\ saved' = [saved EXCEPT !.searcher = {searcher}]
    BY <1>3 DEF CheckpointSearcher
  <2>2. Resumed' = searcher.counter
    BY <1>0, <2>1 DEF Resumed, LoadedSearcher, TypeOK, SearcherState
  <2>3. Exposed' = Exposed
    BY <1>0, <1>1, <2>1 DEF Exposed, Again, Redrawn, Drawing
  <2>4. (Cardinality(Repeated \cup Exposed) <= crashes * BatchSize)'
    BY <1>0, <1>1, <2>3, ExposesNothing
  <2> QED BY <1>0, <1>1, <1>2, <2>1, <2>2, <2>4 DEF WorkInv
<1>4. CASE CheckpointScheduler
  <2>1. /\ step \in {"scheduler_ckpt", "last_ckpt"}
        /\ step' = IF step = "scheduler_ckpt" THEN "evaluate" ELSE "top"
        /\ saved' = [saved EXCEPT !.scheduler = {scheduler}]
    BY <1>4 DEF CheckpointScheduler, SchedulerSaved
  <2>2. Resumed' = Resumed
    <3>1. saved'.searcher = saved.searcher
      BY <1>0, <2>1 DEF TypeOK
    <3> QED BY <1>0, <1>1, <3>1, ResumedKept
  <2>3. Exposed' = Exposed
    BY <1>0, <1>1, <2>1 DEF Exposed, Again, Redrawn, Drawing
  <2>4. (Cardinality(Repeated \cup Exposed) <= crashes * BatchSize)'
    BY <1>0, <1>1, <2>3, ExposesNothing
  <2> QED BY <1>0, <1>1, <1>2, <2>1, <2>2, <2>4 DEF WorkInv
<1>5. CASE Evaluate
  <2>1. step = "evaluate" /\ step' = "results" /\ saved' = saved /\ done' = 0
    BY <1>5 DEF Evaluate, tables
  <2>2. Resumed' = Resumed
    BY <1>0, <1>1, <2>1, ResumedKept
  <2>3. Again' = Again
    BY <1>0, <1>1, <1>2, <2>1 DEF Again
  <2>4. Exposed' = Exposed
    BY <1>0, <1>1, <2>1, <2>3 DEF Exposed, Redrawn, Drawing
  <2>5. (Cardinality(Repeated \cup Exposed) <= crashes * BatchSize)'
    BY <1>0, <1>1, <2>4, ExposesNothing
  <2> QED BY <1>0, <1>1, <1>2, <2>1, <2>2, <2>5 DEF WorkInv
<1> QED BY <1>3, <1>4, <1>5

\* After its results a batch is no longer exposed.
LEMMA ObserveWork ==
  ASSUME StudyInv, WorkInv, Observe
  PROVE  WorkInv'
<1>0. /\ TypeOK /\ trials' = trials /\ saved' = saved /\ kind' = kind /\ crashes' = crashes
      /\ step = "observe" /\ step' \in {"failed", "observed_ckpt"}
      /\ searcher'.counter = searcher.counter
  BY ObservedIs DEF StudyInv, Observe, tables
<1>1. /\ Rows' = Rows /\ TerminalTrials' = TerminalTrials /\ Resumed' = Resumed
      /\ Repeated' = Repeated
  BY <1>0, TrialsKept, ResumedKept DEF Repeated
<1>2. /\ Rows \in Nat /\ Resumed \in Nat /\ searcher.counter \in Nat /\ TrialIds \subseteq Nat
      /\ searcher.counter <= Resumed
  BY <1>0, WorkTypes DEF WorkInv
<1>3. Exposed' \subseteq Exposed
  <2>1. Exposed = Redrawn(searcher.counter)
    BY <1>0 DEF Exposed, Drawing
  <2>2. Exposed' = Redrawn(Resumed)' \/ Exposed' = Redrawn(searcher.counter)'
    BY <1>0 DEF Exposed, Drawing
  <2>3. Redrawn(Resumed) \subseteq Redrawn(searcher.counter)
    BY <1>2, RedrawsLess DEF Redrawn
  <2>4. Redrawn(Resumed)' = Redrawn(Resumed)
        /\ Redrawn(searcher.counter)' = Redrawn(searcher.counter)
    BY <1>0, <1>1 DEF Redrawn
  <2> QED BY <2>1, <2>2, <2>3, <2>4
<1>4. (Cardinality(Repeated \cup Exposed) <= crashes * BatchSize)'
  BY <1>0, <1>1, <1>3, ExposesNothing
<1> QED BY <1>0, <1>1, <1>2, <1>4 DEF WorkInv

\* A process that ends without a crash leaves what a rerun draws again.
LEMMA RerunWork ==
  ASSUME StudyInv, WorkInv, Rerun
  PROVE  WorkInv'
<1>0. /\ TypeOK /\ trials' = trials /\ saved' = saved /\ kind' = kind /\ crashes' = crashes
      /\ step \in {"finished", "stopped", "failed"} /\ step' = "down"
  BY DEF StudyInv, Rerun, ProcessGone, tables
<1>1. /\ Rows' = Rows /\ TerminalTrials' = TerminalTrials /\ Resumed' = Resumed
      /\ Repeated' = Repeated
  BY <1>0, TrialsKept, ResumedKept DEF Repeated
<1>2. Exposed' = Exposed
  BY <1>0, <1>1 DEF Exposed, Redrawn
<1>3. (Cardinality(Repeated \cup Exposed) <= crashes * BatchSize)'
  BY <1>0, <1>1, <1>2, ExposesNothing
<1> QED BY <1>0, <1>1, <1>3 DEF WorkInv

\* A crash exposes the rows beyond the last checkpoint: one batch at most.
LEMMA CrashWork ==
  ASSUME StudyInv, WorkInv, Crash
  PROVE  WorkInv'
<1>0. /\ TypeOK /\ trials' = trials /\ saved' = saved /\ kind' = kind
      /\ crashes' = crashes + 1 /\ step' = "down"
  BY DEF StudyInv, Crash, ProcessGone, tables
<1>1. /\ Rows' = Rows /\ TerminalTrials' = TerminalTrials /\ Resumed' = Resumed
      /\ Repeated' = Repeated
  BY <1>0, TrialsKept, ResumedKept DEF Repeated
<1>2. /\ Rows \in Nat /\ Resumed \in Nat /\ BatchSize \in Nat /\ TrialIds \subseteq Nat
      /\ crashes \in Nat /\ Rows <= Resumed + BatchSize
  BY <1>0, WorkTypes, Bounds DEF WorkInv, TypeOK
<1> DEFINE X == Redrawn(Resumed)
<1>3. IsFiniteSet(X) /\ Cardinality(X) \in Nat /\ Cardinality(X) <= BatchSize
  <2> DEFINE I == Resumed..(Rows - 1)
  <2>1. X \in SUBSET I
    <3> SUFFICES ASSUME NEW t \in TrialIds, Resumed <= t, t < Rows
                 PROVE  t \in I
      BY DEF Redrawn
    <3>1. t \in Nat
      BY <1>2
    <3> QED BY <1>2, <3>1
  <2>2. IsFiniteSet(I) /\ Cardinality(I) = IF Resumed > Rows - 1 THEN 0
                                           ELSE Rows - 1 - Resumed + 1
    BY <1>2, FS_Interval
  <2> HIDE DEF I, X
  <2>3. IsFiniteSet(X) /\ Cardinality(X) <= Cardinality(I)
    BY <2>1, <2>2, FS_Subset
  <2>4. Cardinality(X) \in Nat /\ Cardinality(I) <= BatchSize
    BY <1>2, <2>2, <2>3, FS_CardinalityType
  <2>5. Cardinality(I) \in Nat
    BY <2>2, FS_CardinalityType
  <2> QED BY <1>2, <2>3, <2>4, <2>5
<1>4. Exposed' = X
  BY <1>0, <1>1 DEF Exposed, Redrawn
<1>5. Cardinality(Repeated) <= crashes * BatchSize
  <2>1. Repeated \in SUBSET (Repeated \cup Exposed)
    OBVIOUS
  <2>2. Cardinality(Repeated) <= Cardinality(Repeated \cup Exposed)
    BY <2>1, ExposedIs, FS_Subset
  <2>3. Cardinality(Repeated \cup Exposed) <= crashes * BatchSize
    BY DEF WorkInv
  <2>4. crashes * BatchSize \in Nat
    BY <1>2
  <2> QED BY <2>2, <2>3, <2>4, ExposedIs
<1>6. Cardinality(Repeated \cup X) <= Cardinality(Repeated) + Cardinality(X)
  <2>1. /\ IsFiniteSet(Repeated \cup X)
        /\ Cardinality(Repeated \cup X) =
              Cardinality(Repeated) + Cardinality(X) - Cardinality(Repeated \cap X)
    BY <1>3, ExposedIs, FS_Union, Zenon
  <2>2. IsFiniteSet(Repeated \cap X) /\ Cardinality(Repeated \cap X) \in Nat
    BY <1>3, ExposedIs, FS_Intersection, FS_CardinalityType
  <2> QED BY <1>3, <2>1, <2>2, ExposedIs
<1>7. Cardinality(Repeated \cup X) <= (crashes + 1) * BatchSize
  <2>1. (crashes + 1) * BatchSize = crashes * BatchSize + BatchSize
        /\ crashes * BatchSize \in Nat
    BY <1>2
  <2>2. Cardinality(Repeated \cup X) \in Nat
    BY <1>3, ExposedIs, FS_Union, FS_CardinalityType
  <2> HIDE DEF X
  <2> QED BY <1>2, <1>3, <1>5, <1>6, <2>1, <2>2, ExposedIs
<1>8. (Cardinality(Repeated \cup Exposed) <= crashes * BatchSize)'
  BY <1>0, <1>1, <1>4, <1>7
<1> QED BY <1>0, <1>1, <1>8 DEF WorkInv

\* What the commit of a suggestion changes: at most one new row, inside the
\* batch that was drawn.
LEMMA SuggestionStored ==
  ASSUME StudyInv, SaveSuggestion
  PROVE  /\ TerminalTrials' = TerminalTrials /\ Resumed' = Resumed /\ Rows' \in Nat
         /\ Rows' = Rows \/ Rows' = Resumed + done + 1
         /\ \A t \in TrialIds : trials'[t].recorded = trials[t].recorded
         /\ \/ step' = "failed" /\ trials' = trials /\ Running = {}
            \/ step' \in {"suggestions", "searcher_ckpt"}
<1> DEFINE s == batch[done + 1]
<1>0. /\ TypeOK /\ RowsInv /\ RowsInv' /\ step = "suggestions" /\ DrawnInv
      /\ done < Len(batch) /\ saved' = saved /\ kind' = kind
  BY SaveSuggestionKeeps DEF StudyInv, SaveSuggestion, BatchInv
<1>1. /\ Rows \in Nat /\ Resumed \in Nat /\ done \in Nat /\ MaxTrials \in Nat
      /\ Rows' \in Nat /\ DOMAIN batch = 1..Len(batch) /\ Len(batch) \in Nat
  BY <1>0, WorkTypes, Bounds DEF RowsInv
<1>2. done + 1 \in DOMAIN batch
  BY <1>0, <1>1
<1>3. /\ s \in Suggestion /\ s.id = Resumed + done /\ s.id < MaxTrials /\ s.id \in TrialIds
      /\ Resumed + done <= Rows /\ (Running # {} => Rows = Resumed + done)
  <2>1. s.id = Resumed + (done + 1) - 1 /\ s.id < MaxTrials
    BY <1>0, <1>2 DEF DrawnInv
  <2>2. s \in Suggestion
    BY <1>0, <1>2, ElementOfSeq, LenProperties DEF TypeOK
  <2>3. Resumed + done <= Rows /\ (Running # {} => Rows = Resumed + done)
    BY <1>0 DEF DrawnInv
  <2>4. s.id \in TrialIds
    BY <2>2 DEF Suggestion
  <2> HIDE DEF s
  <2> QED BY <1>1, <2>1, <2>2, <2>3, <2>4
<1>4. Stored(s.id) <=> s.id < Rows
  BY <1>0, <1>3 DEF RowsInv
<1>5. CASE trials' = trials
  <2>1. Rows' = Rows /\ TerminalTrials' = TerminalTrials
    BY <1>5, TrialsKept
  <2>2. Resumed' = Resumed
    BY <1>0, <2>1, ResumedKept
  <2>3. CASE Conflict(s)
    <3>1. step' = "failed"
      BY <2>3 DEF SaveSuggestion
    <3>2. Running = {}
      <4>1. s.id < Rows
        BY <1>4, <2>3 DEF Conflict
      <4> HIDE DEF s
      <4> QED BY <1>1, <1>3, <4>1
    <3> QED BY <1>1, <1>5, <2>1, <2>2, <3>1, <3>2
  <2>4. CASE ~Conflict(s)
    <3>1. step' \in {"suggestions", "searcher_ckpt"}
      BY <1>0, <2>4 DEF SaveSuggestion
    <3> QED BY <1>1, <1>5, <2>1, <2>2, <3>1
  <2> QED BY <2>3, <2>4
<1>6. CASE trials' # trials
  <2>1. /\ ~Stored(s.id) /\ step' \in {"suggestions", "searcher_ckpt"}
        /\ trials' = [trials EXCEPT ![s.id].status = "running", ![s.id].params = s.params]
    BY <1>0, <1>6 DEF SaveSuggestion
  <2>2. s.id = Rows /\ Rows < MaxTrials /\ Rows = Resumed + done /\ s.params \in Params
    <3>1. s.params \in Params
      BY <1>3 DEF Suggestion
    <3> HIDE DEF s
    <3> QED BY <1>1, <1>3, <1>4, <2>1, <3>1
  <2>3. Rows' = Rows + 1 /\ TerminalTrials' = TerminalTrials
    <3>1. trials' = [trials EXCEPT ![Rows].status = "running", ![Rows].params = s.params]
      BY <2>1, <2>2
    <3> HIDE DEF s
    <3> QED BY <1>0, <2>2, <3>1, RowAdded
  <2>4. Resumed' = Resumed
    BY <1>0, <2>3, ResumedKept
  <2>5. \A t \in TrialIds : trials'[t].recorded = trials[t].recorded
    <3>1. trials \in [TrialIds -> Trial]
      BY <1>0 DEF TypeOK
    <3> HIDE DEF s
    <3> QED BY <1>3, <2>1, <3>1 DEF Trial
  <2>6. Rows' = Resumed + done + 1
    BY <2>2, <2>3
  <2> QED BY <1>1, <2>1, <2>3, <2>4, <2>5, <2>6
<1> QED BY <1>5, <1>6

\* Storing a batch exposes nothing: its new rows are not beyond the searcher.
LEMMA SaveSuggestionWork ==
  ASSUME StudyInv, WorkInv, SaveSuggestion
  PROVE  WorkInv'
<1>0. /\ TypeOK /\ TypeOK' /\ RowsInv /\ step = "suggestions" /\ DrawnInv
      /\ done < Len(batch) /\ saved' = saved /\ kind' = kind
      /\ crashes' = crashes /\ batch' = batch /\ searcher' = searcher
  BY SaveSuggestionKeeps DEF StudyInv, SaveSuggestion, memory, BatchInv
<1>1. /\ TerminalTrials' = TerminalTrials /\ Resumed' = Resumed /\ Rows' \in Nat
      /\ Rows' = Rows \/ Rows' = Resumed + done + 1
      /\ \A t \in TrialIds : trials'[t].recorded = trials[t].recorded
      /\ \/ step' = "failed" /\ trials' = trials /\ Running = {}
         \/ step' \in {"suggestions", "searcher_ckpt"}
  BY SuggestionStored
<1>2. /\ Rows \in Nat /\ Resumed \in Nat /\ searcher.counter \in Nat /\ BatchSize \in Nat
      /\ TrialIds \subseteq Nat /\ done \in Nat
      /\ DOMAIN batch = 1..Len(batch) /\ Len(batch) \in Nat
  BY WorkTypes
<1>3. /\ searcher.counter = Resumed + Len(batch) /\ Len(batch) <= BatchSize
      /\ \A i \in DOMAIN batch : batch[i].id = Resumed + i - 1
  BY <1>0 DEF DrawnInv
<1>4. Rows' <= Rows \/ Rows' <= searcher.counter
  BY <1>0, <1>1, <1>2, <1>3
<1>5. Repeated' = Repeated
  BY <1>1 DEF Repeated
<1>6. Exposed = Redrawn(searcher.counter) \cup Again
  BY <1>0 DEF Exposed, Drawing
<1>7. Exposed' \subseteq Exposed
  <2>1. CASE step' = "failed"
    <3>1. Exposed' = Redrawn(Resumed)
      <4>1. Rows' = Rows
        BY <1>0, <1>1, <2>1, TrialsKept
      <4> QED BY <1>1, <2>1, <4>1 DEF Exposed, Redrawn
    <3>2. ASSUME NEW t \in TrialIds, Resumed <= t, t < Rows, ~(searcher.counter <= t)
          PROVE  t \in Again
      <4>1. t \in Nat
        BY <1>2
      <4>2. t - Resumed + 1 \in DOMAIN batch /\ Resumed + (t - Resumed + 1) - 1 = t
        BY <1>2, <1>3, <3>2, <4>1
      <4>3. batch[t - Resumed + 1].id = t
        BY <1>3, <4>2
      <4>4. t \in TerminalTrials
        BY <1>0, <1>1, <2>1, <3>2, StatusSets DEF RowsInv
      <4> QED BY <1>0, <4>2, <4>3, <4>4 DEF Again
    <3> QED BY <1>6, <3>1, <3>2 DEF Redrawn
  <2>2. CASE step' \in {"suggestions", "searcher_ckpt"}
    <3>1. Exposed' = Redrawn(searcher.counter)' \cup Again'
      BY <2>2 DEF Exposed, Drawing
    <3>2. Again' = Again
      BY <1>0, <1>1, <2>2 DEF Again
    <3>3. Redrawn(searcher.counter)' \subseteq Redrawn(searcher.counter)
      <4> DEFINE c == searcher.counter
      <4>1. c \in Nat /\ c <= c
        BY <1>2
      <4>2. {t \in TrialIds : c <= t /\ t < Rows'} \subseteq Redrawn(c)
        BY <1>1, <1>2, <1>4, <4>1, RedrawsLess DEF Redrawn
      <4> QED BY <1>0, <4>2 DEF Redrawn
    <3> QED BY <1>6, <3>1, <3>2, <3>3
  <2> QED BY <1>1, <2>1, <2>2
<1>8. (Cardinality(Repeated \cup Exposed) <= crashes * BatchSize)'
  BY <1>0, <1>5, <1>7, ExposesNothing
<1>9. Rows' <= Resumed' + BatchSize /\ Rows' <= searcher'.counter + BatchSize
  <2>1. Rows <= Resumed + BatchSize
    BY DEF WorkInv
  <2> QED BY <1>0, <1>1, <1>2, <1>3, <1>4, <2>1
<1>10. (\A t \in TrialIds : trials[t].status # "terminal" => trials[t].recorded = 0)'
  <2>1. \A t \in TrialIds : trials'[t].status # "terminal" => trials[t].status # "terminal"
    BY <1>1 DEF TerminalTrials, WithStatus
  <2> QED BY <1>1, <2>1 DEF WorkInv
<1> QED BY <1>0, <1>1, <1>8, <1>9, <1>10 DEF WorkInv

\* A result moves its trial from those to come to those that have one.
LEMMA SaveResultWork ==
  ASSUME StudyInv, WorkInv, SaveResult
  PROVE  WorkInv'
<1> DEFINE t == batch[done + 1].id
<1>0. /\ TypeOK /\ TypeOK' /\ step = "results" /\ DistinctIds /\ done < Len(batch)
      /\ trials' = Recorded(t) /\ saved' = saved /\ kind' = kind
      /\ crashes' = crashes /\ batch' = batch /\ searcher' = searcher
      /\ \/ step' = "results" /\ done' = done + 1
         \/ step' = "observe"
  BY SaveResultKeeps DEF StudyInv, SaveResult, BatchInv, HasBatch
<1>1. /\ Rows \in Nat /\ Resumed \in Nat /\ searcher.counter \in Nat /\ BatchSize \in Nat
      /\ done \in Nat /\ DOMAIN batch = 1..Len(batch) /\ Len(batch) \in Nat
      /\ \A i \in DOMAIN batch : batch[i].id \in TrialIds
  BY WorkTypes
<1>2. done + 1 \in DOMAIN batch /\ t \in TrialIds
  BY <1>0, <1>1
<1>3. /\ TerminalTrials' = TerminalTrials \cup {t}
      /\ \A u \in TrialIds : u # t => trials'[u] = trials[u]
      /\ trials'[t].status = "terminal"
      /\ trials'[t].recorded <= trials[t].recorded + 1
  BY <1>0, <1>2, ResultStored
<1>4. Stored(t)
  BY <1>0, <1>2 DEF StudyInv, BatchInv, HasBatch, Drawing
<1>5. batch[done + 1].id = t
  OBVIOUS
<1> HIDE DEF t
<1>6. Rows' = Rows
  <2>1. \A u \in TrialIds : Stored(u)' <=> Stored(u)
    BY <1>3, <1>4 DEF Stored
  <2>2. {u \in TrialIds : Stored(u)'} = {u \in TrialIds : Stored(u)}
    BY <2>1
  <2> QED BY <2>2 DEF Rows
<1>7. Resumed' \in Nat /\ Resumed <= Resumed'
  BY <1>0, <1>3, ResumedGrows
<1>8. Repeated' \subseteq Repeated \cup Again
  <2>1. ASSUME t \in Repeated' PROVE t \in Again
    <3>1. t \in TerminalTrials
      <4>1. ASSUME trials[t].status # "terminal" PROVE FALSE
        <5>1. trials[t].recorded = 0
          BY <1>2, <4>1 DEF WorkInv
        <5>2. trials'[t].recorded \in Nat /\ trials'[t].recorded > 1
          BY <1>0, <1>2, <2>1, Bounds DEF Repeated, TypeOK, Trial
        <5> QED BY <1>3, <5>1, <5>2
      <4> QED BY <1>2, <4>1 DEF TerminalTrials, WithStatus
    <3>2. done < done + 1
      BY <1>1
    <3> QED BY <1>0, <1>2, <1>5, <3>1, <3>2 DEF Again
  <2>2. ASSUME NEW u \in TrialIds, u # t, trials'[u].recorded > 1 PROVE u \in Repeated
    BY <1>3, <2>2 DEF Repeated
  <2> QED BY <2>1, <2>2 DEF Repeated
<1>9. Exposed = Redrawn(searcher.counter) \cup Again
  BY <1>0 DEF Exposed
<1>10. Exposed' \subseteq Exposed
  <2>1. Redrawn(searcher.counter)' = Redrawn(searcher.counter)
    BY <1>0, <1>6 DEF Redrawn
  <2>2. CASE step' = "observe"
    BY <1>9, <2>1, <2>2 DEF Exposed, Drawing
  <2>3. CASE step' = "results" /\ done' = done + 1
    <3>1. Again' \subseteq Again
      <4> SUFFICES ASSUME NEW u \in TerminalTrials', NEW i \in DOMAIN batch,
                          batch[i].id = u, done + 1 < i
                   PROVE  u \in Again
        BY <1>0, <2>3 DEF Again
      <4>1. i # done + 1 /\ done < i
        BY <1>1
      <4>2. u # t
        BY <1>0, <1>2, <1>5, <4>1 DEF DistinctIds
      <4> QED BY <1>0, <1>3, <4>1, <4>2 DEF Again
    <3> QED BY <1>9, <2>1, <2>3, <3>1 DEF Exposed
  <2> QED BY <1>0, <2>2, <2>3
<1>11. (Cardinality(Repeated \cup Exposed) <= crashes * BatchSize)'
  BY <1>0, <1>8, <1>9, <1>10, ExposesNothing
<1>12. (\A u \in TrialIds : trials[u].status # "terminal" => trials[u].recorded = 0)'
  BY <1>3 DEF WorkInv
<1>13. /\ Rows' <= Resumed' + BatchSize /\ Rows' <= searcher'.counter + BatchSize
       /\ searcher'.counter <= Resumed'
  <2>1. /\ Rows <= Resumed + BatchSize /\ Rows <= searcher.counter + BatchSize
        /\ searcher.counter <= Resumed
    BY <1>0 DEF WorkInv
  <2>2. \A r, q, p \in Nat : r <= q + BatchSize /\ q <= p => r <= p + BatchSize
    BY Bounds
  <2>3. \A r, q, p \in Nat : r <= q /\ q <= p => r <= p
    OBVIOUS
  <2>4. Rows <= Resumed' + BatchSize
    BY <1>1, <1>7, <2>1, <2>2
  <2>5. searcher.counter <= Resumed'
    BY <1>1, <1>7, <2>1, <2>3
  <2> QED BY <1>0, <1>6, <2>1, <2>4, <2>5
<1> QED BY <1>11, <1>12, <1>13 DEF WorkInv

\* Nothing is repeated at the start.
LEMMA WorkInit == Init => WorkInv
<1> SUFFICES ASSUME Init PROVE WorkInv
  OBVIOUS
<1>0. /\ TypeOK /\ step = "down" /\ crashes = 0 /\ saved.searcher = {}
      /\ \A t \in TrialIds : trials[t].status = "absent" /\ trials[t].recorded = 0
  BY StudyInit DEF StudyInv, Init
<1>1. TerminalTrials = {} /\ Rows = 0
  <2>1. {t \in TrialIds : Stored(t)} = {}
    BY <1>0 DEF Stored
  <2> QED BY <1>0, <2>1, FS_EmptySet DEF Rows, TerminalTrials, WithStatus
<1>2. Resumed = 0 /\ BatchSize \in Nat
  BY <1>0, <1>1, LoadedIs, FreshIs, Bounds DEF Resumed
<1>3. Repeated = {} /\ Exposed = {}
  <2>1. \A t \in TrialIds : t \in Nat
    BY Bounds
  <2>2. Redrawn(Resumed) = {}
    BY <1>1, <2>1 DEF Redrawn
  <2> QED BY <1>0, <2>2 DEF Repeated, Exposed
<1>4. Cardinality(Repeated \cup Exposed) = 0
  BY <1>3, FS_EmptySet
<1> QED BY <1>0, <1>1, <1>2, <1>4 DEF WorkInv

\* The bound on repeated work over every step.
LEMMA WorkStep == StudyInv /\ WorkInv /\ [Next]_vars => WorkInv'
<1> SUFFICES ASSUME StudyInv, WorkInv, [Next]_vars PROVE WorkInv'
  OBVIOUS
<1>1. CASE Run
  BY <1>1, StartWork, SuggestWork, SaveSuggestionWork, CheckpointWork,
     SaveResultWork, ObserveWork DEF Run
<1>2. CASE Crash \/ Rerun
  BY <1>2, CrashWork, RerunWork
<1>3. CASE UNCHANGED vars
  <2>1. /\ Rows' = Rows /\ TerminalTrials' = TerminalTrials /\ Resumed' = Resumed
    BY <1>3, TrialsKept, ResumedKept DEF vars
  <2>2. Repeated' = Repeated /\ Exposed' = Exposed
    BY <1>3, <2>1 DEF vars, Repeated, Exposed, Redrawn, Again
  <2> QED BY <1>3, <2>1, <2>2 DEF vars, WorkInv
<1> QED BY <1>1, <1>2, <1>3 DEF Next

\* Whatever is crashed and when, no more than one batch of trials for each
\* crash is evaluated and recorded twice: the rows beyond the last checkpoint
\* of the searcher, which a resumed process draws again, are one batch at most.
THEOREM RepeatedWorkAlways == Spec => []RepeatedWorkBounded
<1>1. Init => StudyInv /\ WorkInv
  BY StudyInit, WorkInit
<1>2. (StudyInv /\ WorkInv) /\ [Next]_vars => (StudyInv /\ WorkInv)'
  BY StudyStep, WorkStep
<1>3. ASSUME StudyInv, WorkInv PROVE RepeatedWorkBounded
  <2>1. Repeated \in SUBSET (Repeated \cup Exposed)
    OBVIOUS
  <2>2. Cardinality(Repeated) <= Cardinality(Repeated \cup Exposed)
    BY <2>1, ExposedIs, FS_Subset
  <2>3. Cardinality(Repeated \cup Exposed) <= crashes * BatchSize
    BY <1>3 DEF WorkInv
  <2>4. crashes * BatchSize \in Nat
    <3>1. crashes \in Nat /\ BatchSize \in Nat
      BY <1>3, Bounds DEF StudyInv, TypeOK
    <3> QED BY <3>1
  <2>5. Cardinality(Repeated) <= crashes * BatchSize
    BY <2>2, <2>3, <2>4, ExposedIs
  <2> QED BY <2>5 DEF RepeatedWorkBounded, Repeated
<1> QED BY <1>1, <1>2, <1>3, PTL DEF Spec

-----------------------------------------------------------------------------
(***************************************************************************)
(* A study that is never interrupted.                                      *)
(***************************************************************************)
Learns == kind \in {"history", "state"}
ExactScheduler == [active |-> {}, completed |-> TerminalTrials]

\* What a process that is started, or starts the next batch, finds.
RestExact ==
    /\ Running = {} /\ Resumed = Rows /\ LoadedScheduler = ExactScheduler
    /\ Learns => LoadedSearcher.learned = TerminalTrials

\* The trials of the batch whose results are still to come, and those that came.
ToCome == {batch[i].id : i \in {j \in DOMAIN batch : done < j}}
Came == {batch[i].id : i \in {j \in DOMAIN batch : j <= done}}

ResultsExact ==
    /\ \A t \in ToCome : t \notin TerminalTrials
    /\ scheduler = [active |-> ToCome, completed |-> TerminalTrials]
    /\ Learns => TerminalTrials = searcher.learned \cup Came

InPending ==
    \A i \in DOMAIN batch : <<batch[i].id, batch[i].particle>> \in searcher.pending

Exact ==
    /\ step # "failed"
    /\ \A t \in TrialIds : trials[t].recorded <= 1
    /\ step \in {"down", "top", "finished", "stopped"} => RestExact
    /\ step \in {"top", "observed_ckpt", "last_ckpt"} \cup (HasBatch \ {"suggestions"}) =>
          searcher.counter = Rows
    /\ step = "suggestions" => Rows = Resumed + done
    /\ step \in Drawing \cup {"top", "observe", "observed_ckpt", "last_ckpt"} =>
          scheduler = ExactScheduler
    /\ step \in Drawing \cup {"top", "observed_ckpt", "last_ckpt"} =>
          (Learns => searcher.learned = TerminalTrials)
    /\ step = "last_ckpt" => saved.searcher = {searcher}
    /\ step \in HasBatch /\ kind = "swarm" => InPending
    /\ step \in Drawing => \A t \in Ids(batch) : t \notin TerminalTrials
    /\ step = "results" => ResultsExact
    /\ step = "observe" => (Learns => TerminalTrials = searcher.learned \cup Ids(batch))

ExactInv == crashes = 0 => Exact

\* What a step that changes no table leaves to a process started after it.
LEMMA RestKept ==
  ASSUME trials' = trials, saved' = saved, kind' = kind, RestExact
  PROVE  /\ RestExact' /\ TerminalTrials' = TerminalTrials /\ Rows' = Rows
         /\ Running' = Running /\ Resumed' = Resumed
         /\ LoadedScheduler' = LoadedScheduler /\ LoadedSearcher' = LoadedSearcher
<1>1. /\ TerminalTrials' = TerminalTrials /\ Rows' = Rows /\ Running' = Running
      /\ Resumed' = Resumed /\ LoadedSearcher' = LoadedSearcher
  BY TrialsKept, ResumedKept
<1>2. LoadedScheduler' = LoadedScheduler
  BY DEF LoadedScheduler, FreshScheduler
<1> QED BY <1>1, <1>2 DEF RestExact, ExactScheduler, Learns

\* Nothing is resumed at the start.
LEMMA ExactInit == Init => ExactInv
<1> SUFFICES ASSUME Init PROVE Exact
  BY DEF ExactInv
<1>0. /\ TypeOK /\ step = "down" /\ saved.searcher = {} /\ saved.scheduler = {}
      /\ \A t \in TrialIds : trials[t].status = "absent" /\ trials[t].recorded = 0
  BY StudyInit DEF StudyInv, Init
<1>1. TerminalTrials = {} /\ Running = {} /\ Rows = 0
  <2>1. {t \in TrialIds : Stored(t)} = {}
    BY <1>0 DEF Stored
  <2> QED BY <1>0, <2>1, FS_EmptySet DEF Rows, TerminalTrials, Running, WithStatus
<1>2. Resumed = 0 /\ LoadedSearcher.learned = {}
  BY <1>0, <1>1, LoadedIs, FreshIs DEF Resumed
<1>3. LoadedScheduler = ExactScheduler
  BY <1>0, <1>1 DEF LoadedScheduler, FreshScheduler, ExactScheduler
<1>4. RestExact
  BY <1>1, <1>2, <1>3 DEF RestExact
<1> QED BY <1>0, <1>4 DEF Exact, HasBatch, Drawing

\* A process finds nothing left running.
LEMMA StartExact ==
  ASSUME StudyInv, Exact, Start
  PROVE  Exact'
<1>0. /\ RestExact /\ trials' = trials /\ saved' = saved /\ kind' = kind
      /\ searcher' = LoadedSearcher /\ scheduler' = LoadedScheduler
      /\ PendingTrials = Running /\ step = "down"
  BY DEF Exact, Start, tables, PendingTrials, Running
<1>1. step' = "top"
  BY <1>0 DEF Start, RestExact
<1>2. RestExact' /\ TerminalTrials' = TerminalTrials /\ Rows' = Rows
  BY <1>0, RestKept
<1>3. /\ searcher'.counter = Rows' /\ scheduler' = ExactScheduler'
      /\ Learns' => searcher'.learned = TerminalTrials'
  BY <1>0, <1>2 DEF RestExact, ExactScheduler, Learns, Resumed
<1> QED BY <1>0, <1>1, <1>2, <1>3 DEF Exact, HasBatch, Drawing

\* A batch is drawn from the identifiers after the last row.
LEMMA SuggestExact ==
  ASSUME StudyInv, Exact, Suggest
  PROVE  Exact'
<1>0. /\ TypeOK /\ StudyInv' /\ BatchInv' /\ RestExact /\ trials' = trials
      /\ saved' = saved /\ kind' = kind
      /\ step = "top" /\ scheduler' = scheduler /\ scheduler = ExactScheduler
      /\ (Learns => searcher.learned = TerminalTrials)
      /\ \A t \in TrialIds : trials[t].recorded <= 1
  BY SuggestKeeps DEF StudyInv, Exact, Suggest, tables
<1>1. /\ RestExact' /\ TerminalTrials' = TerminalTrials /\ Rows' = Rows
      /\ Resumed' = Resumed /\ Resumed = Rows
      /\ scheduler' = ExactScheduler' /\ (Learns' <=> Learns)
  BY <1>0, RestKept DEF RestExact, ExactScheduler, Learns
<1>2. CASE step' \in {"finished", "stopped"}
  BY <1>0, <1>1, <1>2 DEF Exact, HasBatch, Drawing
<1>3. CASE step' \notin {"finished", "stopped"}
  <2>1. step' = "suggestions" /\ searcher' = AfterDrawing(batch') /\ done' = 0
    BY <1>3 DEF Suggest
  <2>2. DrawnInv' /\ batch' \in Seq(Suggestion)
    BY <1>0, <2>1 DEF BatchInv, StudyInv, TypeOK
  <2>3. /\ searcher'.learned = searcher.learned
        /\ kind = "swarm" =>
              \A i \in DOMAIN batch' : <<batch'[i].id, batch'[i].particle>>
                                          \in searcher'.pending
    BY <1>0, <2>1, <2>2, AfterDrawingIs
  <2>4. Rows' = Resumed' + done'
    <3>1. Rows \in Nat
      BY WorkTypes
    <3> QED BY <1>1, <2>1, <3>1
  <2>5. ASSUME NEW t \in Ids(batch)' PROVE t \notin TerminalTrials'
    <3>1. PICK i \in DOMAIN batch' : batch'[i].id = t
      BY DEF Ids
    <3>2. i \in Nat \ {0} /\ t = Rows + i - 1 /\ Rows \in Nat
      <4>1. DOMAIN batch' = 1..Len(batch') /\ Len(batch') \in Nat
        BY <2>2, LenProperties
      <4>2. t = Resumed' + i - 1
        BY <2>2, <3>1 DEF DrawnInv
      <4> QED BY <1>1, <4>1, <4>2, WorkTypes
    <3>3. ~(t < Rows)
      BY <3>2
    <3>4. \A u \in TerminalTrials : u < Rows
      BY <1>0, StatusSets DEF StudyInv, RowsInv
    <3> QED BY <1>1, <3>3, <3>4
  <2> QED BY <1>0, <1>1, <2>1, <2>3, <2>4, <2>5 DEF Exact, HasBatch, Drawing, InPending
<1> QED BY <1>2, <1>3

\* Every suggestion that is stored is a new row: no conflict.
LEMMA SaveSuggestionExact ==
  ASSUME StudyInv, Exact, SaveSuggestion
  PROVE  Exact'
<1> DEFINE s == batch[done + 1]
<1>0. /\ TypeOK /\ RowsInv /\ StudyInv' /\ BatchInv' /\ step = "suggestions" /\ DrawnInv
      /\ saved' = saved /\ kind' = kind /\ scheduler' = scheduler
      /\ done < Len(batch) /\ batch' = batch /\ searcher' = searcher
      /\ Rows = Resumed + done /\ scheduler = ExactScheduler
      /\ (Learns => searcher.learned = TerminalTrials)
      /\ (kind = "swarm" => InPending)
      /\ \A t \in Ids(batch) : t \notin TerminalTrials
      /\ \A t \in TrialIds : trials[t].recorded <= 1
  BY SaveSuggestionKeeps
     DEF StudyInv, SaveSuggestion, memory, BatchInv, Exact, HasBatch, Drawing
<1>1. /\ TerminalTrials' = TerminalTrials /\ Resumed' = Resumed /\ Rows' \in Nat
      /\ \A t \in TrialIds : trials'[t].recorded = trials[t].recorded
  BY SuggestionStored
<1>2. /\ Rows \in Nat /\ Resumed \in Nat /\ done \in Nat
      /\ DOMAIN batch = 1..Len(batch) /\ Len(batch) \in Nat
      /\ \A i \in DOMAIN batch : batch[i].id \in TrialIds
  BY WorkTypes
<1>3. s.id = Rows /\ s.id \in TrialIds /\ ~Stored(s.id)
  <2>1. done + 1 \in DOMAIN batch
    BY <1>0, <1>2
  <2>2. s.id = Resumed + (done + 1) - 1 /\ s.id \in TrialIds
    BY <1>0, <1>2, <2>1 DEF DrawnInv
  <2> HIDE DEF s
  <2>3. s.id = Rows
    BY <1>0, <1>2, <2>2
  <2> QED BY <1>0, <1>2, <2>2, <2>3 DEF RowsInv
<1>4. /\ trials' = [trials EXCEPT ![s.id].status = "running", ![s.id].params = s.params]
      /\ done' = IF Last THEN 0 ELSE done + 1
      /\ step' = IF Last THEN "searcher_ckpt" ELSE "suggestions"
  BY <1>0, <1>3 DEF SaveSuggestion, Conflict
<1>5. Rows' = Rows + 1
  <2>1. done + 1 \in DOMAIN batch
    BY <1>0, <1>2
  <2>2. s \in Suggestion
    BY <1>0, <2>1, ElementOfSeq, LenProperties DEF TypeOK
  <2>3. s.id < MaxTrials /\ s.params \in Params
    BY <1>0, <2>1, <2>2 DEF DrawnInv, Suggestion
  <2>4. trials' = [trials EXCEPT ![Rows].status = "running", ![Rows].params = s.params]
    BY <1>3, <1>4
  <2> HIDE DEF s
  <2> QED BY <1>0, <1>3, <2>3, <2>4, RowAdded
<1>6. /\ step' = "suggestions" => Rows' = Resumed' + done'
      /\ step' = "searcher_ckpt" => searcher'.counter = Rows'
  <2>1. searcher.counter = Resumed + Len(batch)
    BY <1>0 DEF DrawnInv
  <2> QED BY <1>0, <1>1, <1>2, <1>4, <1>5, <2>1 DEF Last
<1>7. /\ scheduler' = ExactScheduler' /\ (Learns' <=> Learns)
      /\ (kind = "swarm" => InPending')
      /\ \A t \in Ids(batch)' : t \notin TerminalTrials'
  BY <1>0, <1>1 DEF ExactScheduler, Learns, InPending, Ids
<1>8. step' \in {"suggestions", "searcher_ckpt"}
  BY <1>4
<1> QED BY <1>0, <1>1, <1>6, <1>7, <1>8 DEF Exact, HasBatch, Drawing

\* The checkpoints after a batch hold what the table holds.
LEMMA CheckpointExact ==
  ASSUME StudyInv, Exact, CheckpointSearcher \/ CheckpointScheduler
  PROVE  Exact'
<1>0. /\ TypeOK /\ TypeOK' /\ MemoryInv /\ BatchInv /\ trials' = trials /\ kind' = kind
      /\ searcher' = searcher /\ scheduler' = scheduler /\ batch' = batch
      /\ \A t \in TrialIds : trials[t].recorded <= 1
  BY CheckpointKeeps
     DEF StudyInv, CheckpointSearcher, CheckpointScheduler, memory, Exact
<1>1. /\ Rows' = Rows /\ TerminalTrials' = TerminalTrials /\ Running' = Running
      /\ ExactScheduler' = ExactScheduler /\ (Learns' <=> Learns)
      /\ InPending' = InPending /\ Ids(batch)' = Ids(batch)
  BY <1>0, TrialsKept DEF ExactScheduler, Learns, InPending, Ids
<1>2. CASE step = "searcher_ckpt" \/ step = "scheduler_ckpt"
  <2>1. step' = "scheduler_ckpt" \/ step' = "evaluate"
    BY <1>2 DEF CheckpointSearcher, CheckpointScheduler
  <2>2. /\ searcher.counter = Rows /\ scheduler = ExactScheduler
        /\ (Learns => searcher.learned = TerminalTrials)
        /\ (kind = "swarm" => InPending)
        /\ \A t \in Ids(batch) : t \notin TerminalTrials
    BY <1>2 DEF Exact, HasBatch, Drawing
  <2> QED BY <1>0, <1>1, <2>1, <2>2 DEF Exact, HasBatch, Drawing
<1>3. CASE step = "observed_ckpt"
  <2>1. step' = "last_ckpt" /\ saved' = [saved EXCEPT !.searcher = {searcher}]
    BY <1>3 DEF CheckpointSearcher, CheckpointScheduler
  <2>2. saved'.searcher = {searcher'}
    BY <1>0, <2>1 DEF TypeOK
  <2>3. /\ searcher.counter = Rows /\ scheduler = ExactScheduler
        /\ (Learns => searcher.learned = TerminalTrials)
    BY <1>3 DEF Exact
  <2> QED BY <1>0, <1>1, <2>1, <2>2, <2>3 DEF Exact, HasBatch, Drawing
<1>4. CASE step = "last_ckpt"
  <2>1. step' = "top" /\ saved' = [saved EXCEPT !.scheduler = {scheduler}]
    BY <1>4 DEF CheckpointSearcher, CheckpointScheduler, SchedulerSaved
  <2>2. saved'.searcher = saved.searcher /\ saved'.scheduler = {scheduler}
    BY <1>0, <2>1 DEF TypeOK
  <2>3. /\ searcher.counter = Rows /\ scheduler = ExactScheduler
        /\ (Learns => searcher.learned = TerminalTrials)
        /\ saved.searcher = {searcher}
    BY <1>4 DEF Exact
  <2>4. Resumed' = searcher.counter
    <3>1. Resumed' = Resumed
      BY <1>0, <1>1, <2>2, ResumedKept
    <3> QED BY <1>0, <1>4, <3>1 DEF MemoryInv
  <2>5. LoadedScheduler' = scheduler
    BY <1>0, <2>2 DEF LoadedScheduler
  <2>6. Learns => LoadedSearcher'.learned = TerminalTrials'
    <3>1. LoadedSearcher' = LoadedSearcher
      BY <1>0, <1>1, <2>2, ResumedKept
    <3>2. LoadedSearcher.learned = IF kind = "history" THEN TerminalTrials
                                   ELSE searcher.learned
      BY <1>0, <2>3, LoadedIs
    <3> QED BY <1>1, <2>3, <3>1, <3>2
  <2>7. Running = {}
    BY <1>0, <1>4 DEF BatchInv, Settled
  <2>8. RestExact'
    BY <1>0, <1>1, <2>3, <2>4, <2>5, <2>6, <2>7 DEF RestExact
  <2> QED BY <1>0, <1>1, <2>1, <2>3, <2>8 DEF Exact, HasBatch, Drawing
<1> QED BY <1>2, <1>3, <1>4 DEF CheckpointSearcher, CheckpointScheduler

\* No trial that is evaluated has a result yet.
LEMMA EvaluateExact ==
  ASSUME StudyInv, Exact, Evaluate
  PROVE  Exact'
<1>0. /\ TypeOK /\ trials' = trials /\ saved' = saved /\ kind' = kind /\ searcher' = searcher
      /\ batch' = batch /\ step = "evaluate" /\ step' = "results" /\ done' = 0
      /\ scheduler = ExactScheduler /\ searcher.counter = Rows
      /\ (Learns => searcher.learned = TerminalTrials)
      /\ (kind = "swarm" => InPending)
      /\ \A t \in Ids(batch) : t \notin TerminalTrials
      /\ \A t \in TrialIds : trials[t].recorded <= 1
  BY DEF StudyInv, Exact, Evaluate, tables, HasBatch, Drawing
<1>1. /\ Rows' = Rows /\ TerminalTrials' = TerminalTrials /\ (Learns' <=> Learns)
      /\ InPending' = InPending
  BY <1>0, TrialsKept DEF Learns, InPending
<1>2. ToCome' = Ids(batch) /\ Came' = {}
  <2>1. DOMAIN batch = 1..Len(batch) /\ Len(batch) \in Nat
    BY WorkTypes
  <2>2. {j \in DOMAIN batch : 0 < j} = DOMAIN batch /\ {j \in DOMAIN batch : j <= 0} = {}
    BY <2>1
  <2> QED BY <1>0, <2>2 DEF ToCome, Came, Ids
<1>3. scheduler' = [active |-> Ids(batch), completed |-> TerminalTrials]
  <2>1. scheduler' = [scheduler EXCEPT
                        !.active = scheduler.active \cup (Ids(batch) \ scheduler.completed)]
    BY <1>0 DEF Evaluate, TypeOK, SchedulerState
  <2>2. scheduler.active \cup (Ids(batch) \ scheduler.completed) = Ids(batch)
    BY <1>0 DEF ExactScheduler
  <2> QED BY <1>0, <2>1, <2>2 DEF ExactScheduler
<1>4. ResultsExact'
  BY <1>0, <1>1, <1>2, <1>3 DEF ResultsExact
<1> QED BY <1>0, <1>1, <1>4 DEF Exact, HasBatch, Drawing

\* A result goes from those to come to those that came.
LEMMA ResultMoves ==
  ASSUME StudyInv, DistinctIds, done < Len(batch), batch' = batch, NEW t,
         t = batch[done + 1].id
  PROVE  /\ t \in ToCome
         /\ done' = done + 1 => ToCome' = ToCome \ {t} /\ Came' = Came \cup {t}
         /\ done + 1 = Len(batch) => ToCome \ {t} = {} /\ Came \cup {t} = Ids(batch)
<1>0. /\ done \in Nat /\ Len(batch) \in Nat /\ DOMAIN batch = 1..Len(batch)
      /\ done + 1 \in DOMAIN batch
  BY WorkTypes
<1>1. t \in ToCome
  <2>1. done < done + 1
    BY <1>0
  <2> QED BY <1>0, <2>1 DEF ToCome
<1>2. \A j \in DOMAIN batch :
         /\ done < j <=> done + 1 < j \/ j = done + 1
         /\ j <= done + 1 <=> j <= done \/ j = done + 1
         /\ ~(done + 1 < j /\ j = done + 1)
  BY <1>0
<1>3. ToCome \ {t} = {batch[i].id : i \in {j \in DOMAIN batch : done + 1 < j}}
  <2>1. \A i \in DOMAIN batch : batch[i].id = t => i = done + 1
    BY <1>0 DEF DistinctIds
  <2> QED BY <1>2, <2>1 DEF ToCome
<1>4. Came \cup {t} = {batch[i].id : i \in {j \in DOMAIN batch : j <= done + 1}}
  BY <1>0, <1>2 DEF Came
<1>5. done' = done + 1 => ToCome' = ToCome \ {t} /\ Came' = Came \cup {t}
  <2> SUFFICES ASSUME done' = done + 1
               PROVE  ToCome' = ToCome \ {t} /\ Came' = Came \cup {t}
    OBVIOUS
  <2>1. /\ ToCome' = {batch[i].id : i \in {j \in DOMAIN batch : done + 1 < j}}
        /\ Came' = {batch[i].id : i \in {j \in DOMAIN batch : j <= done + 1}}
    BY Zenon DEF ToCome, Came
  <2> QED BY <1>3, <1>4, <2>1
<1>6. done + 1 = Len(batch) => ToCome \ {t} = {} /\ Came \cup {t} = Ids(batch)
  <2> SUFFICES ASSUME done + 1 = Len(batch)
               PROVE  ToCome \ {t} = {} /\ Came \cup {t} = Ids(batch)
    OBVIOUS
  <2>1. \A j \in DOMAIN batch : ~(done + 1 < j) /\ j <= done + 1
    BY <1>0
  <2> QED BY <1>3, <1>4, <2>1 DEF Ids
<1> QED BY <1>1, <1>5, <1>6

\* A result is the first of its trial.
LEMMA SaveResultExact ==
  ASSUME StudyInv, WorkInv, Exact, SaveResult
  PROVE  Exact'
<1> DEFINE t == batch[done + 1].id
<1>0. /\ TypeOK /\ TypeOK' /\ step = "results" /\ DistinctIds /\ done < Len(batch)
      /\ trials' = Recorded(t) /\ kind' = kind /\ batch' = batch /\ searcher' = searcher
      /\ scheduler' = [active |-> scheduler.active \ {t},
                       completed |-> scheduler.completed \cup {t}]
      /\ \/ done + 1 = Len(batch) /\ step' = "observe"
         \/ done' = done + 1 /\ step' = "results"
      /\ ResultsExact /\ searcher.counter = Rows /\ (kind = "swarm" => InPending)
      /\ \A u \in TrialIds : trials[u].recorded <= 1
  BY SaveResultKeeps
     DEF StudyInv, SaveResult, BatchInv, HasBatch, Drawing, Exact, Last
<1>1. t \in TrialIds /\ Stored(t)
  <2>1. /\ done \in Nat /\ DOMAIN batch = 1..Len(batch) /\ Len(batch) \in Nat
        /\ \A i \in DOMAIN batch : batch[i].id \in TrialIds
    BY WorkTypes
  <2>2. done < Len(batch)
    BY <1>0
  <2> HIDE DEF t
  <2>3. done + 1 \in DOMAIN batch
    BY <2>1, <2>2
  <2> QED BY <1>0, <2>1, <2>3 DEF StudyInv, BatchInv, HasBatch, Drawing, t
<1>2. /\ t \in ToCome
      /\ done' = done + 1 => ToCome' = ToCome \ {t} /\ Came' = Came \cup {t}
      /\ done + 1 = Len(batch) => ToCome \ {t} = {} /\ Came \cup {t} = Ids(batch)
  BY <1>0, ResultMoves
<1>3. /\ TerminalTrials' = TerminalTrials \cup {t}
      /\ \A u \in TrialIds : u # t => trials'[u] = trials[u]
      /\ trials'[t].status = "terminal"
      /\ trials'[t].recorded <= trials[t].recorded + 1
  BY <1>0, <1>1, ResultStored
<1> HIDE DEF t
<1>4. Rows' = Rows
  <2>1. \A u \in TrialIds : Stored(u)' <=> Stored(u)
    BY <1>1, <1>3 DEF Stored
  <2>2. {u \in TrialIds : Stored(u)'} = {u \in TrialIds : Stored(u)}
    BY <2>1
  <2> QED BY <2>2 DEF Rows
<1>5. \A u \in TrialIds : trials'[u].recorded <= 1
  <2>1. trials[t].status # "terminal"
    BY <1>0, <1>1, <1>2 DEF ResultsExact, TerminalTrials, WithStatus
  <2>2. trials[t].recorded = 0
    BY <1>1, <2>1 DEF WorkInv
  <2>3. trials'[t].recorded <= 1
    BY <1>3, <2>2
  <2> QED BY <1>0, <1>3, <2>3
<1>6. /\ scheduler' = [active |-> ToCome \ {t}, completed |-> TerminalTrials']
      /\ Learns' => TerminalTrials' = searcher'.learned \cup (Came \cup {t})
      /\ \A u \in ToCome \ {t} : u \notin TerminalTrials'
  <2>1. scheduler = [active |-> ToCome, completed |-> TerminalTrials]
    BY <1>0 DEF ResultsExact
  <2>2. /\ Learns => TerminalTrials = searcher.learned \cup Came
        /\ \A u \in ToCome : u \notin TerminalTrials
    BY <1>0 DEF ResultsExact
  <2>3. (Learns' <=> Learns) /\ searcher' = searcher
    BY <1>0 DEF Learns
  <2>4. scheduler' = [active |-> ToCome \ {t}, completed |-> TerminalTrials']
    BY <1>0, <1>3, <2>1
  <2>5. Learns' => TerminalTrials' = searcher'.learned \cup (Came \cup {t})
    BY <1>3, <2>2, <2>3
  <2> QED BY <1>3, <2>2, <2>4, <2>5
<1>7. (kind = "swarm" => InPending)' /\ searcher'.counter = Rows'
  BY <1>0, <1>4 DEF InPending
<1>8. CASE done' = done + 1 /\ step' = "results"
  <2>1. ToCome' = ToCome \ {t} /\ Came' = Came \cup {t}
    BY <1>2, <1>8
  <2>2. ResultsExact'
    BY <1>6, <2>1 DEF ResultsExact
  <2> QED BY <1>5, <1>7, <1>8, <2>2 DEF Exact, HasBatch, Drawing
<1>9. CASE done + 1 = Len(batch) /\ step' = "observe"
  <2>1. ToCome \ {t} = {} /\ Came \cup {t} = Ids(batch) /\ Ids(batch)' = Ids(batch)
    BY <1>0, <1>2, <1>9 DEF Ids
  <2>2. /\ scheduler' = ExactScheduler'
        /\ Learns' => TerminalTrials' = searcher'.learned \cup Ids(batch)'
    BY <1>6, <2>1 DEF ExactScheduler
  <2> QED BY <1>5, <1>7, <1>9, <2>2 DEF Exact, HasBatch, Drawing
<1> QED BY <1>0, <1>8, <1>9

\* A searcher knows every trial it is shown, and learns from all of them.
LEMMA ObserveExact ==
  ASSUME StudyInv, Exact, Observe
  PROVE  Exact'
<1>0. /\ TypeOK /\ trials' = trials /\ kind' = kind /\ scheduler' = scheduler
      /\ step = "observe" /\ scheduler = ExactScheduler /\ searcher.counter = Rows
      /\ (Learns => TerminalTrials = searcher.learned \cup Ids(batch))
      /\ (kind = "swarm" => InPending)
      /\ \A t \in TrialIds : trials[t].recorded <= 1
  BY DEF StudyInv, Exact, Observe, tables, HasBatch, Drawing
<1>1. /\ Rows' = Rows /\ TerminalTrials' = TerminalTrials /\ (Learns' <=> Learns)
      /\ ExactScheduler' = ExactScheduler
  BY <1>0, TrialsKept DEF Learns, ExactScheduler
<1>2. step' = "observed_ckpt"
  <2>1. kind = "swarm" => SwarmKnows
    <3> SUFFICES ASSUME kind = "swarm", NEW t \in Ids(batch)
                 PROVE  t \in {p[1] : p \in searcher.pending}
      BY DEF SwarmKnows
    <3>1. PICK i \in DOMAIN batch : batch[i].id = t
      BY DEF Ids
    <3>2. <<batch[i].id, batch[i].particle>> \in searcher.pending
      BY <1>0, <3>1 DEF InPending
    <3>3. <<batch[i].id, batch[i].particle>>[1] = t
      BY <3>1
    <3> QED BY <3>2, <3>3
  <2> QED BY <2>1 DEF Observe
<1>3. searcher'.counter = Rows' /\ (Learns' => searcher'.learned = TerminalTrials')
  BY <1>0, <1>1, ObservedIs DEF Learns
<1> QED BY <1>0, <1>1, <1>2, <1>3 DEF Exact, HasBatch, Drawing

\* A command that is repeated finds what the last one left.
LEMMA RerunExact ==
  ASSUME StudyInv, Exact, Rerun
  PROVE  Exact'
<1>0. /\ RestExact /\ trials' = trials /\ saved' = saved /\ kind' = kind /\ step' = "down"
      /\ \A t \in TrialIds : trials[t].recorded <= 1
  BY DEF Exact, Rerun, ProcessGone, tables
<1>1. RestExact'
  BY <1>0, RestKept
<1> QED BY <1>0, <1>1 DEF Exact, HasBatch, Drawing

\* Without a crash what is counted stays exact.
LEMMA ExactStep == StudyInv /\ WorkInv /\ ExactInv /\ [Next]_vars => ExactInv'
<1> SUFFICES ASSUME StudyInv, WorkInv, ExactInv, [Next]_vars, crashes' = 0
             PROVE  Exact'
  BY DEF ExactInv
<1>0. crashes \in Nat
  BY Bounds DEF StudyInv, TypeOK
<1>1. CASE Crash
  <2>1. crashes' = crashes + 1
    BY <1>1 DEF Crash
  <2> QED BY <1>0, <2>1
<1>2. CASE ~Crash
  <2>1. crashes' = crashes
    BY <1>2 DEF Next, Run, Start, Suggest, SaveSuggestion, CheckpointSearcher,
                CheckpointScheduler, Evaluate, SaveResult, Observe, Rerun, vars
  <2>2. Exact
    BY <2>1 DEF ExactInv
  <2>3. CASE Run
    BY <2>2, <2>3, StartExact, SuggestExact, SaveSuggestionExact, CheckpointExact,
       EvaluateExact, SaveResultExact, ObserveExact DEF Run
  <2>4. CASE Rerun
    BY <2>2, <2>4, RerunExact
  <2>5. CASE UNCHANGED vars
    <3>1. /\ Rows' = Rows /\ TerminalTrials' = TerminalTrials /\ Resumed' = Resumed
          /\ Running' = Running /\ LoadedSearcher' = LoadedSearcher
      BY <2>5, TrialsKept, ResumedKept DEF vars
    <3>2. /\ LoadedScheduler' = LoadedScheduler /\ ExactScheduler' = ExactScheduler
          /\ (Learns' <=> Learns)
      BY <2>5, <3>1 DEF vars, LoadedScheduler, FreshScheduler, ExactScheduler, Learns
    <3>3. RestExact' <=> RestExact
      BY <3>1, <3>2 DEF RestExact
    <3>4. ToCome' = ToCome /\ Came' = Came /\ Ids(batch)' = Ids(batch)
          /\ (InPending' <=> InPending)
      BY <2>5 DEF vars, ToCome, Came, Ids, InPending
    <3>5. ResultsExact' <=> ResultsExact
      BY <2>5, <3>1, <3>2, <3>4 DEF vars, ResultsExact
    <3> QED BY <2>2, <2>5, <3>1, <3>2, <3>3, <3>4, <3>5 DEF vars, Exact
  <2> QED BY <1>2, <2>3, <2>4, <2>5 DEF Next
<1> QED BY <1>1, <1>2

\* Without a crash no suggestion meets a conflict or an unknown particle, no
\* trial is evaluated twice, and scheduler and searcher have seen exactly the
\* stored results; a crash repeats one batch of work at most.
THEOREM WorkAlwaysBounded == Spec => []WorkBounded
<1> DEFINE IInv == StudyInv /\ WorkInv /\ ExactInv
<1>1. Init => IInv
  BY StudyInit, WorkInit, ExactInit
<1>2. IInv /\ [Next]_vars => IInv'
  BY StudyStep, WorkStep, ExactStep
<1>3. IInv => UninterruptedExact
  BY DEF ExactInv, Exact, ExactScheduler, Learns, RestExact, UninterruptedExact
<1>4. Spec => []UninterruptedExact
  <2> HIDE DEF IInv
  <2> QED BY <1>1, <1>2, <1>3, PTL DEF Spec
<1>5. UninterruptedExact /\ RepeatedWorkBounded => WorkBounded
  BY DEF WorkBounded
<1> QED BY <1>4, <1>5, RepeatedWorkAlways, PTL
=============================================================================
