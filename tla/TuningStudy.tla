----------------------------- MODULE TuningStudy ----------------------------
(***************************************************************************)
(* One persisted tuning study: TrialRunner (tuning/runner.py) driving a    *)
(* searcher and a scheduler, and SQLiteStudyStore (tuning/store.py), whose *)
(* every commit is one action here.  The process may crash between any two *)
(* commits; a repeated `cmag tune` starts it again on the same database.   *)
(*                                                                         *)
(* The nine searchers fall into five kinds by what decides the parameters  *)
(* they draw and what a restart gives back to them:                        *)
(*   random   the position of the random generator (RandomSearch)          *)
(*   grid     the grid index (GridSearch)                                  *)
(*   history  the generator and the stored results (TPESearch)             *)
(*   state    the generator and a population, mean or chain that only      *)
(*            observe() feeds (CMA-ES, NSGA-II, GA, DE, SA)                *)
(*   swarm    the positions of a generation of particles (PSOSearch)       *)
(* Parameters are compared and never computed, so they are named by what   *)
(* decides them.                                                           *)
(***************************************************************************)
EXTENDS Naturals, Sequences, FiniteSets

CONSTANTS
    Kinds,         \* the kinds of searcher a study may be configured with
    MaxTrials,     \* the max_trials argument of run()
    BatchSize,     \* TrialRunner.batch_size
    Population,    \* number of particles of a swarm
    GridSize,      \* number of points of a grid
    Startup,       \* results a history searcher waits for (startup_trials)
    MaxCrashes,    \* bound: crashes of the process in one behaviour
    MaxRecorded    \* bound: results counted for one trial

ASSUME StudyAssumption ==
    /\ Kinds \subseteq {"random", "grid", "history", "state", "swarm"}
    /\ {MaxTrials, BatchSize, Population, GridSize} \subseteq Nat \ {0}
    /\ {Startup, MaxCrashes, MaxRecorded} \subseteq Nat

VARIABLES
    kind,          \* the configured searcher, fixed for the study
    trials,        \* the table "trials"
    saved,         \* the table "checkpoints": component -> {} or {its state}
    searcher,      \* the searcher in memory
    scheduler,     \* the scheduler in memory
    step,          \* where run() stands
    batch,         \* the suggestions of the current batch
    done,          \* how many of them the current loop has stored
    crashes

vars == <<kind, trials, saved, searcher, scheduler, step, batch, done, crashes>>
memory == <<searcher, scheduler>>
tables == <<trials, saved>>

-----------------------------------------------------------------------------
\* More than the budget allows: that no others are used is a property.
TrialIds == 0..(MaxTrials + MaxCrashes * BatchSize)
Particles == 0..(Population - 1)

Params == [draw: Nat, basis: SUBSET Nat]
Trial == [status: {"absent", "running", "terminal"}, params: Params,
          recorded: 0..MaxRecorded]
Suggestion == [id: TrialIds, params: Params, particle: Particles]

SearcherState ==
    [counter: Nat, draws: Nat, learned: SUBSET TrialIds,
     issued: SUBSET Particles, pending: SUBSET (TrialIds \X Particles),
     scored: SUBSET Particles, generation: Nat]
SchedulerState == [active: SUBSET TrialIds, completed: SUBSET TrialIds]

Steps == {"down", "top", "suggestions", "searcher_ckpt", "scheduler_ckpt",
          "evaluate", "results", "observe", "observed_ckpt", "last_ckpt",
          "finished", "stopped", "failed"}

TypeOK ==
    /\ kind \in Kinds
    /\ trials \in [TrialIds -> Trial]
    /\ saved \in [searcher: SUBSET SearcherState, scheduler: SUBSET SchedulerState]
    /\ \A c \in DOMAIN saved : \A s, r \in saved[c] : s = r
    /\ searcher \in SearcherState
    /\ scheduler \in SchedulerState
    /\ step \in Steps
    /\ batch \in Seq(Suggestion)
    /\ done \in 0..Len(batch)
    /\ crashes \in 0..MaxCrashes

-----------------------------------------------------------------------------
WithStatus(s) == {t \in TrialIds : trials[t].status = s}
TerminalTrials == WithStatus("terminal")

\* BaseSearcher.initialize and the constructors: the trial counter, a grid's
\* index and a history searcher's results come from the stored results.
FreshSearcher ==
    [counter |-> IF TerminalTrials = {} THEN 0
                 ELSE 1 + CHOOSE t \in TerminalTrials :
                              \A u \in TerminalTrials : u <= t,
     draws |-> IF kind = "grid" THEN Cardinality(TerminalTrials) ELSE 0,
     learned |-> IF kind = "history" THEN TerminalTrials ELSE {},
     issued |-> {}, pending |-> {}, scored |-> {}, generation |-> 0]

FreshScheduler == [active |-> {}, completed |-> {}]

Init ==
    /\ kind \in Kinds
    /\ trials = [t \in TrialIds |->
                    [status |-> "absent", recorded |-> 0,
                     params |-> [draw |-> 0, basis |-> {}]]]
    /\ saved = [searcher |-> {}, scheduler |-> {}]
    /\ searcher = FreshSearcher
    /\ scheduler = FreshScheduler
    /\ step = "down"
    /\ batch = <<>> /\ done = 0
    /\ crashes = 0

-----------------------------------------------------------------------------
\* The member of a set of numbers with i - 1 smaller members.
Nth(S, i) == CHOOSE x \in S : Cardinality({y \in S : y < x}) = i - 1

\* load_state_dict: everything is restored, except that the results of a
\* history searcher stay those read from the trials.
LoadedSearcher ==
    IF saved.searcher = {} THEN FreshSearcher
    ELSE LET s == CHOOSE s \in saved.searcher : TRUE
         IN  IF kind = "history" THEN [s EXCEPT !.learned = TerminalTrials]
             ELSE s

LoadedScheduler ==
    IF saved.scheduler = {} THEN FreshScheduler
    ELSE CHOOSE s \in saved.scheduler : TRUE

\* Mutant: suggestions left running are not looked for.
NothingPending == {}

\* pending_suggestions.
PendingTrials == WithStatus("running")

\* run() up to its loop: _initialize, then the pending suggestions of an
\* interrupted process, if any, become the first batch.
Start ==
    LET running == PendingTrials
    IN  /\ step = "down"
        /\ searcher' = LoadedSearcher
        /\ scheduler' = LoadedScheduler
        /\ batch' = [i \in 1..Cardinality(running) |->
                        LET t == Nth(running, i)
                        IN  [id |-> t, params |-> trials[t].params,
                             particle |-> 0]]
        /\ done' = 0
        /\ step' = IF running = {} THEN "top" ELSE "evaluate"
        /\ UNCHANGED <<kind, tables, crashes>>

-----------------------------------------------------------------------------
\* suggest(n) of each kind: how many suggestions it has, and the i-th of them.
FreeParticles == Particles \ searcher.issued

Available ==
    CASE kind = "swarm" -> Cardinality(FreeParticles)
      [] kind = "grid"  -> IF searcher.draws < GridSize
                           THEN GridSize - searcher.draws ELSE 0
      [] OTHER          -> BatchSize

Basis ==
    CASE kind = "state" -> searcher.learned
      [] kind = "history" /\ Cardinality(searcher.learned) >= Startup
            -> searcher.learned
      [] OTHER -> {}

Drawn(i) ==
    IF kind = "swarm"
    THEN LET p == Nth(FreeParticles, i)
         IN  [id |-> searcher.counter + i - 1, particle |-> p,
              params |-> [draw |-> p, basis |-> {searcher.generation}]]
    ELSE [id |-> searcher.counter + i - 1, particle |-> 0,
          params |-> [draw |-> searcher.draws + i - 1, basis |-> Basis]]

\* Mutant: drawing leaves the searcher's state as it was.
NothingAdvances(b) == searcher

AfterDrawing(b) ==
    [searcher EXCEPT
        !.counter = @ + Len(b),
        !.draws = @ + Len(b),
        !.issued = IF kind = "swarm"
                   THEN @ \cup {b[i].particle : i \in DOMAIN b} ELSE @,
        !.pending = IF kind = "swarm"
                    THEN @ \cup {<<b[i].id, b[i].particle>> : i \in DOMAIN b}
                    ELSE @]

\* Mutant: the last batch is not cut to what is left of max_trials.
FullBatch == BatchSize

\* How many suggestions the loop asks for.
Wanted ==
    LET left == MaxTrials - Cardinality(TerminalTrials)
    IN  IF left < BatchSize THEN left ELSE BatchSize

\* The head of the loop: return, ask the searcher, or break on no suggestion.
Suggest ==
    LET n == IF Available < Wanted THEN Available ELSE Wanted
        b == [i \in 1..n |-> Drawn(i)]
    IN  /\ step = "top"
        /\ IF Cardinality(TerminalTrials) >= MaxTrials
           THEN step' = "finished" /\ UNCHANGED <<searcher, batch, done>>
           ELSE IF n = 0
           THEN step' = "stopped" /\ UNCHANGED <<searcher, batch, done>>
           ELSE /\ step' = "suggestions"
                /\ batch' = b /\ done' = 0
                /\ searcher' = AfterDrawing(b)
        /\ UNCHANGED <<kind, tables, scheduler, crashes>>

\* Mutant: a stored trial is always written anew.
NeverStored(t) == FALSE

Stored(t) == trials[t].status # "absent"

\* "trial ID already belongs to different parameters"
Conflict(s) == Stored(s.id) /\ trials[s.id].params # s.params

Last == done + 1 = Len(batch)

\* save_suggestion: one commit; a stored trial with the same parameters stays
\* as it is, even when it is terminal.
SaveSuggestion ==
    LET s == batch[done + 1]
    IN  /\ step = "suggestions"
        /\ IF Conflict(s)
           THEN step' = "failed" /\ UNCHANGED <<trials, done>>
           ELSE /\ trials' = IF Stored(s.id) THEN trials
                             ELSE [trials EXCEPT
                                      ![s.id].status = "running",
                                      ![s.id].params = s.params]
                /\ done' = IF Last THEN 0 ELSE done + 1
                /\ step' = IF Last THEN "searcher_ckpt" ELSE step
        /\ UNCHANGED <<kind, saved, memory, batch, crashes>>

\* _checkpoint: two commits, the searcher's and then the scheduler's.
CheckpointSearcher ==
    /\ step \in {"searcher_ckpt", "observed_ckpt"}
    /\ saved' = [saved EXCEPT !.searcher = {searcher}]
    /\ step' = IF step = "searcher_ckpt" THEN "scheduler_ckpt" ELSE "last_ckpt"
    /\ UNCHANGED <<kind, trials, memory, batch, done, crashes>>

\* Mutant: the scheduler's state is stored under the searcher's key.
UnderSearcher == [saved EXCEPT !.searcher = {scheduler}]

SchedulerSaved == [saved EXCEPT !.scheduler = {scheduler}]

CheckpointScheduler ==
    /\ step \in {"scheduler_ckpt", "last_ckpt"}
    /\ saved' = SchedulerSaved
    /\ step' = IF step = "scheduler_ckpt" THEN "evaluate" ELSE "top"
    /\ UNCHANGED <<kind, trials, memory, batch, done, crashes>>

Ids(b) == {b[i].id : i \in DOMAIN b}

\* _evaluate_batch up to the results: on_trial_add for the batch, and the
\* executor, which turns an exception of the objective into a failed result.
Evaluate ==
    /\ step = "evaluate"
    /\ scheduler' = [scheduler EXCEPT
                        !.active = @ \cup (Ids(batch) \ scheduler.completed)]
    /\ done' = 0
    /\ step' = "results"
    /\ UNCHANGED <<kind, tables, searcher, batch, crashes>>

\* Mutant: the result is handed to the scheduler and not stored.
NotYetStored(t) == trials

\* save_result: an upsert.
Recorded(t) ==
    [trials EXCEPT
        ![t].status = "terminal",
        ![t].recorded = IF @ < MaxRecorded THEN @ + 1 ELSE @]

\* One round of the loop over the results: the commit of save_result, then
\* the scheduler, whose decision is not used.
SaveResult ==
    LET t == batch[done + 1].id
    IN  /\ step = "results"
        /\ trials' = Recorded(t)
        /\ scheduler' = [active |-> scheduler.active \ {t},
                         completed |-> scheduler.completed \cup {t}]
        /\ done' = IF Last THEN 0 ELSE done + 1
        /\ step' = IF Last THEN "observe" ELSE step
        /\ UNCHANGED <<kind, saved, searcher, batch, crashes>>

\* Searcher.observe of the whole batch.
SwarmKnows == Ids(batch) \subseteq {p[1] : p \in searcher.pending}

AfterSwarmObserves ==
    LET mine   == {p \in searcher.pending : p[1] \in Ids(batch)}
        scored == searcher.scored \cup {p[2] : p \in mine}
        moved  == scored = Particles
    IN  [searcher EXCEPT
            !.pending = @ \ mine,
            !.scored = IF moved THEN {} ELSE scored,
            !.issued = IF moved THEN {} ELSE @,
            !.generation = IF moved THEN @ + 1 ELSE @]

Observe ==
    /\ step = "observe"
    /\ IF kind = "swarm" /\ ~SwarmKnows
       THEN step' = "failed" /\ UNCHANGED searcher     \* KeyError
       ELSE /\ step' = "observed_ckpt"
            /\ searcher' =
                 IF kind = "swarm" THEN AfterSwarmObserves
                 ELSE [searcher EXCEPT
                          !.learned = IF kind \in {"history", "state"}
                                      THEN @ \cup Ids(batch) ELSE @]
    /\ UNCHANGED <<kind, tables, scheduler, batch, done, crashes>>

-----------------------------------------------------------------------------
\* What the end of a process leaves: the database, and nothing in memory.
ProcessGone ==
    /\ step' = "down"
    /\ searcher' = FreshSearcher
    /\ scheduler' = FreshScheduler
    /\ batch' = <<>> /\ done' = 0
    /\ UNCHANGED <<kind, tables>>

Crash ==
    /\ step \notin {"down", "finished", "stopped", "failed"}
    /\ crashes < MaxCrashes
    /\ crashes' = crashes + 1
    /\ ProcessGone

\* The command is repeated after it returned or raised.
Rerun ==
    /\ step \in {"finished", "stopped", "failed"}
    /\ ProcessGone
    /\ UNCHANGED crashes

Run ==
    \/ Start \/ Suggest \/ SaveSuggestion \/ CheckpointSearcher
    \/ CheckpointScheduler \/ Evaluate \/ SaveResult \/ Observe

Next == Run \/ Crash \/ Rerun

Spec == Init /\ [][Next]_vars

(***************************************************************************)
(* A started process runs on, and the operator repeats the command as long *)
(* as it has not produced the study.                                       *)
(***************************************************************************)
FairSpec == Spec /\ WF_vars(Run) /\ WF_vars(Rerun)

-----------------------------------------------------------------------------
(***************************************************************************)
(* Properties                                                              *)
(***************************************************************************)

\* Crashes and reruns never make a study larger than max_trials, and a run
\* that reports the study finished has left no suggestion unevaluated.
TrialBudget ==
    /\ Cardinality({t \in TrialIds : trials[t].status # "absent"}) <= MaxTrials
    /\ step = "finished" => WithStatus("running") = {}

\* The order of the commits: a checkpoint never knows more than the trials
\* stored with it.  Every trial it counted has a row, and every result its
\* searcher learned from or its scheduler completed is in the table.
CheckpointBehindTrials ==
    /\ \A s \in saved.searcher :
          /\ \A t \in TrialIds : t < s.counter => Stored(t)
          /\ s.learned \subseteq TerminalTrials
          /\ \A p \in s.pending : Stored(p[1])
    /\ \A s \in saved.scheduler : s.completed \subseteq TerminalTrials

\* A study that is never interrupted meets no conflict and no unknown trial,
\* evaluates no trial twice, and at the head of its loop its scheduler and
\* its searcher have seen exactly the stored results.
UninterruptedExact ==
    crashes = 0 =>
        /\ step # "failed"
        /\ \A t \in TrialIds : trials[t].recorded <= 1
        /\ step = "top" =>
              /\ scheduler = [active |-> {}, completed |-> TerminalTrials]
              /\ kind \in {"history", "state"} =>
                    searcher.learned = TerminalTrials

\* What a crash can cost: after c crashes at most c batches of trials have
\* been evaluated and recorded more than once.
RepeatedWorkBounded ==
    Cardinality({t \in TrialIds : trials[t].recorded > 1})
        <= crashes * BatchSize

\* The tables stay consistent with each other and inside the budget.
StudyConsistent == TrialBudget /\ CheckpointBehindTrials

\* Work is exact without a crash, and a crash repeats at most one batch of it.
WorkBounded == UninterruptedExact /\ RepeatedWorkBounded

\* Through every crash and resume, a stored trial keeps its parameters and a
\* terminal one is never reopened.
StoredTrialsKept ==
    [][\A t \in TrialIds :
          /\ trials[t].status # "absent" => trials'[t].params = trials[t].params
          /\ trials[t].status = "terminal" => trials'[t].status = "terminal"
      ]_vars

\* pending_suggestions, "Recover suggestions left running by an interrupted
\* process": every stored suggestion is evaluated in the end.
PendingRecovered ==
    \A t \in TrialIds :
        trials[t].status = "running" ~> trials[t].status = "terminal"

\* run(), "Resume then execute until the study has `max_trials` terminal
\* records": a study whose command is repeated gets there.
StudyCompletes == <>(Cardinality(TerminalTrials) >= MaxTrials)

\* The same for the searchers that draw from nothing but the position of their
\* generator or grid: after one crash they draw the stored suggestions again.
ReplayCompletes ==
    kind \in {"random", "grid"} =>
        <>(\/ crashes > 1
           \/ Cardinality(TerminalTrials) >= MaxTrials
           \/ kind = "grid" /\ Cardinality(TerminalTrials) >= GridSize)
=============================================================================
