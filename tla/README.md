# CrossMarketAgentGym in TLA+

TLA+ modules, TLC instances and TLAPS proofs about the Python package
`crossmarket_agentgym` (`src/src/crossmarket_agentgym`, called `cmag/` below).
Definitions are translated from the code; `PROJECT.json` gives for every
definition the lines it stands for, for every property the mutated definition
that breaks it, and lists runs, findings, hazards and theorems.

## 1. The system

| Part | State | Operations | Interacts with |
|---|---|---|---|
| GUI job supervisor, `cmag/api/jobs.py` | `_records`, `_processes`, a pool of `max_concurrent_jobs` threads, `logs/gui-jobs/<id>/job.json` | `submit`, `_execute`, `cancel`, `shutdown`, reload at start | HTTP handlers call it from several threads; starts `cmag ...` commands as child processes |
| Trial runner and study store, `cmag/tuning/runner.py`, `store.py` | SQLite tables `studies`, `trials`, `checkpoints`; the position in `run()` | `create_study`, `save_suggestion`, `save_result`, `save_checkpoint`, `run` | drives a searcher, a scheduler and an executor |
| Searchers and spaces, `cmag/tuning/searchers`, `models.py` | trial counter, random generator, population, swarm | `suggest`, `observe`, checkpoints; encode, decode, grid | called by the runner only |
| Schedulers, `cmag/tuning/schedulers` | active and completed trials, rungs, brackets, populations | `on_trial_add`, `on_result`, `on_complete` | called by the runner; decisions are recorded, not obeyed |
| Validation objective, `cmag/tuning/rl_objective.py` | a directory per fold and seed of a trial | train or load, score | the trial executor; training workflow |
| Training and evaluation workflow, `cmag/rl` | one directory per run; callbacks and their tracker | `execute_training_run`, `evaluate_saved_run` | CLI, GUI children, agent tools, tuning and formal experiments |
| Tuning workflow, `cmag/tuning/workflow.py` | study directory, locked parameters | `execute_tuning_run`, `_independent_retrain` | runner, training workflow |
| Run manifests, `cmag/audit/run_manifest.py` | `run_manifest.json` | write, verify | closes every run |
| Agent runtime, sessions, tools, `cmag/agents` | threads, budgets, decisions of a batch | run a batch, aggregate, close | providers, workflows |
| Agent layers, `cmag/agents/layer_stack.py`, `directives.py` | a directory per run, directive journal, replay bundle | research, risk, strategy; merge, fuse, project, replay | agent runtime, projection |
| Market environment, `cmag/environments` | cash, positions, sellable shares, calendar position | `reset`, `step`, projection, execution | trainers and evaluations |
| Data, `cmag/data`, `environments/panel.py` | data sets and manifests on disk, panels | check, digest, load, align, slice | environment |
| Formal experiments, `cmag/experiments` | protocol, matrix, run directories, inventory, snapshot | freeze, claim, execute, audit, aggregate | all workflows |
| Release, reproduction, reporting, benchmarking | frozen contracts, stable manifest, replays, reports, benchmarks | export, verify, replay, index, build, seal | run directories |

What makes these parts correct, in a sentence each: a job record never claims
what its child did not do, reaches one outcome, and protected jobs are never
interrupted; a study loses no stored trial, keeps to its budget and completes
when its command is repeated; searchers keep their best and schedulers justify
each stop; a run directory holds one training, its locked
test is evaluated once and about the model that lies beside it; a call of
an agent has one result, in time or timed out, and the team decides from last
results with a quorum; a tool is used within its permission and budget; agents
only narrow the limits an administrator set; the account of an environment
conserves value and sells only what may be sold; a panel shows no later data;
a published document is of one build and is backed by what is on disk.

Hard behaviours: threads that share the job records and release the lock while
a child starts and while it runs; children that outlive the service; a process
killed between two SQLite commits or two plain file writes, then a repeated
command; check-then-act on files from concurrent commands; late answers after
a deadline; directives and checkpoints reused in another context; limits at
zero cash or zero sellable shares; builders, exporters and replays that overlap
or die half-way. Each is listed at its line under `hazards`.

## 2. Modules

| Module | Role |
|---|---|
| `GuiJobs`, `JobLedger` | the job supervisor, and what it promises; `GuiJobs` implements `JobLedger`; `MCGuiJobs`, `GuiJobsProofs` |
| `TuningStudy` | runner, store, searchers' restart behaviour and the shared scheduler state; `MCTuningStudy`, `TuningStudyProofs` |
| `RunDirectory` | training, locked retrain, validation and locked test in one directory; `MCRunDirectory`, `RunDirectoryProofs` |
| `Aggregation`, `AgentTeam` | arbitration policies; schedule, threads, sessions and tool budgets of one run of a team; `MCAgentTeam`, `AgentTeamProofs` |
| `ConstraintProjection`, `PortfolioEnv` | the projection rules as operators; episodes of the environment with orders, lots, T+1 and costs; `ProjectionProofs`, `MarketProofs` |
| `AgentLayers` | the three layers over `ConstraintProjection`; `AgentLayersProofs` |
| `MarketData` | quality findings, manifests, calendars, exchange rates, panels and their slices; `MarketProofs` |
| `TrainingLoop` | the callbacks of a training in their order; `MarketProofs` |
| `TrialSchedulers`, `Searchers`, `SearchSpace`, `HpoTrial` | decisions, memories, encodings and evaluations of a study; `MarketProofs` |
| `FormalRuns`, `DatasetUniverse` | the life of formal runs up to their aggregation; inventory and snapshot |
| `Reproduction`, `Reports`, `Benchmark`, `ReleaseFiles` | replays, reports, benchmarks, frozen contracts and stable manifest |
| `Market`, `Evidence` | sums of components that share no state, see below; `MCMarket`, `MCEvidence`, `MarketProofs`, `EvidenceProofs` |

A definition whose comment begins with "Mutant" is a plausible bug in the
definition that follows it. It is used by no action.

`Market` is the sum of the environment, the layers, data sets, trainings,
schedulers, searchers, search spaces and trials; `Evidence` that of `FormalRuns`,
`DatasetUniverse`, `Benchmark`, `Reproduction`, `Reports` and `ReleaseFiles`. A behaviour picks one of them
(`part`) and leaves the variables of the others alone: the components share no
variable, and what they do to one another in the code is an input of each (a
panel is immutable, a training only reads its environment, the runner calls
searcher and scheduler one at a time, each publication has its own directory).
The sum is a way to run them together and to state their properties in one
place, not a claim about their interaction. `MCMarket` and `MCEvidence` give
the constants their values and the parts at rest one of their initial states
(the environment: the end of an episode that kept its cash).

### GuiJobs

`records` is `_records`, `disk` the `job.json` files, `processes` the keys of
`_processes`, `queue` the work queue of the pool, `thread[j]` the place in
`submit` or `_execute` where the thread of job `j` stands, `child[j]` the
operating-system process with its exit code, `signalled` who was sent SIGTERM.
Each block under `_lock` is one action: `Submit`, `Begin`, `Register`,
`Finish`, `Fail`, `Cancel`; what happens between the blocks is an action of its
own: `Enqueue` (`_pool.submit`), `Spawn`/`SpawnFails` (`Popen`), `ChildExit`.
Reads under the lock (`list`, `get`, `log_tail`) change nothing and are absent.
Every `_persist` may fail (`PersistFailed`); the exception then ends `submit`
or the first block of `_execute`, or, inside the `try`, leads to the handler of
`OSError`. `Crash` takes memory, threads and queue and leaves files and
children; `Restart` is the constructor, which records as failed whatever was
queued or running. `Protected` stands for the two kinds `cancel` refuses to
interrupt. Pids, timestamps, logs and error texts are abstracted (`pid` is
whether one is recorded). Job identifiers are fresh: a job is submitted once.

`JobLedger` is what a client of the service may rely on, without threads, pool,
pids or locks: for each job an answer, a file and a process. An answer may be
ahead of its file (the write failed) and never behind it; the exit code of a
process is recorded as what it is unless the job was cancelled; a protected job
is cancelled only while it waits; nothing but an operating-system error
overtakes a cancellation; a restarted service answers from the files. The
refinement maps `answer` and `file` to the statuses in `records` and `disk` and
`process` to `child`.

### TuningStudy

`trials` and `saved` are the tables, `searcher` and `scheduler` the objects in
memory, `step`, `batch` and `done` the place in `run()`. Each commit is one
action: `SaveSuggestion`, `CheckpointSearcher`, `CheckpointScheduler`,
`SaveResult`; `Start` is `_initialize` with the recovery of pending
suggestions; `Suggest`, `Evaluate` and `Observe` change memory only. `Crash`
can happen between any two of them and `Rerun` repeats the command after it
returned or raised.

Parameters are never computed. A suggestion is named by what decides it: the
number of draws made (`draw`) and the results or the swarm generation it is
based on (`basis`); two suggestions have the same parameters when both agree.
That is exact for random and grid search, for TPE, for particle swarms, for
CMA-ES and for simulated annealing. For NSGA-II, the genetic algorithm and
differential evolution it is an over-approximation until the population has
its first two (four) members: before that the code draws at random and would
draw the same parameters again. A trial that failed or was pruned is
"terminal" like one that completed: all three count against `max_trials` and
none is evaluated again on purpose. `recorded` counts the results of a trial
and is not in the program.

### RunDirectory

`files` maps each file of a run directory to who wrote it, about whose model,
and whether it was closed: a write truncates first. `proc[p]` is a command in
progress with the files it still has to write. `Start` makes the checks of the
command, `Compute` trains or loads the checkpoint, `OpenFile`/`CloseFile` write
the files in the order of the code, `HashFiles`, `OpenManifest` and
`CloseManifest` are `write_run_manifest`, whose digests are taken in one step
here (in the code file after file). `Crash` kills a process anywhere, `Repeat`
repeats a command that raised. `Concurrent` bounds how many are at work.
Metric values, callbacks' JSON lines and intermediate checkpoints are left out.
The isolated GUI backtest writes outside the directory.

### AgentTeam and Aggregation

`main`, `stage`, `calls` and `results` are the thread that runs the team: the
batch it is at, the invocations it submitted and the results it has collected,
which `_batch` appends in the order of the configuration. `Schedule` gives the
batches of the six topologies; each batch has an executor of its own with
`Workers` threads. `Submit`, `Receive`, `TimeOut` and `NextBatch` are `_batch`
and `_execute_topology`, `Resolve`, `Close` and `WriteManifest` the rest of
`execute_agent_runtime`. A call that runs is in the provider, between the tool
calls of a response, past the checks of a tool or in its handler; its steps are
`ProviderToolSession.run`, `ToolExecutor.execute` and the retries of `_invoke`.
`used`, `expensive` and `estimated` are the counters of the `ToolExecutor` that
an instance keeps over retries and rounds. The check of a budget and its
counter are two actions: paths and input are validated between them. A thread
that was timed out goes on, next to a later call of the same instance in
`debate_then_judge` and `supervisor_worker`. `hashed` says whose files are as
the manifest has them. A call that is still queued times out only while no
worker is free, because timeouts are long compared with the start of a thread.

Decisions are their kind; messages, upstream decisions, confidence, risk score
and constraints are left out: they choose between decisions of one kind only.
A denied tool call changes nothing and is no action; the cumulative time budget
is one reason for a denial. A handler that outlives its timeout runs in a
thread of its own and touches none of the modelled state.

### ConstraintProjection and PortfolioEnv

A weight is kept multiplied by the value of the account, so that portfolios are
whole units of money and a projection is integer arithmetic; where the code
rounds to 53 bits the model rounds toward zero. `Project` applies the rules of
`projection.py` in their order, each with the reasons it adds and the limits it
reports as unresolved. The turns of `MaxMarketWeight` change disjoint sets of
assets and read no others, so the loop is one function of the markets. `Config`
is the set of configurations that `config.py` lets through, with percentages for
fractions; `CostRate` is at most the thousand basis points it allows. The unit of
money is so small that every fee and every slippage is a whole number of units,
which `EnvAssumption` says of the prices and rates of an instance. `Step` is a whole `step`: begin the session, mark at the
open, project, round to lots, cap sales (T+1, no short), sell, scale buys to
the cash above the reserve, round again, pay fees and slippage, mark at the
close. A session is any row of `Rows`; prices, states and limits are small
sets. Rewards and observations are left out.

### AgentLayers

`layerRun` is a run of `execute_phase7_stack` with its place in it; `carried`
are the directives the operator may copy into the next configuration. `Configure`
takes a fresh run directory, `CallTool` is one call of a research tool
(`Permission` and `Effect` give the class and the writes of the built-in
tools; how often a tool is called is bounded in `AgentTeam`), `AskRisk` and
`AskStrategy` are a layer with its cadence, committee, fallback or previous
directive, `FuseAndProject` and `Record` the rest of the run with its replay.
Validation that raises is a guard: the run then stays where it is until
`Abandon`. A committee is one or two decisions, of risk managers or of another
role, arbitrated as most conservative (which the code requires of a committee
of risk managers); a team of one manager and other roles under another policy
is not modelled. `verify_directive_replay` is on. Sector budgets, objective
weights and confidences take no part in the projection and are left out.

### MarketData, TrainingLoop and the parts of a study

`MarketData` has files with one record per day, of a few kinds, among them a
missing, a suspended and a zero-priced one; `BuildManifest`, `EditFile`,
`LoadPanel` and `BuildPanel` are the operations, `PanelOf` the alignment of
`from_frame`. `TrainingLoop` is one step of SB3 with the callbacks of
`build_callbacks` in order. `TrialSchedulers` keeps, next to the state of the
scheduler, the log of the reports it was given; `Searchers` the results it
observed; both are the evidence the properties judge by. `SearchSpace` uses
fractions over `Divisions`, and numbers on a lattice: a float without a step is one
with a fine step. A logarithmic scale is a rising table that says at which place of
the range each coordinate lies (`curve`), so that decoding bends a coordinate and
encoding unbends it, exactly where the code rounds to 53 bits. Grids are sequences, as in the
code: values that coincide keep a place each, and so do the combinations. Integer
parameters have whole bounds (with others the code rounds to values outside them);
the refusal of an empty grid and of one above `max_candidates`, made before
anything is drawn, is left out. `HpoTrial` trains, stores, loads and scores folds
and seeds with a death anywhere.

### FormalRuns, DatasetUniverse and what is published

`FormalRuns`: `Program` gives the events of each kind of run; an executor
claims (`Claim`, by making the directory), passes the gate (`Preflight`), works
event by event and completes or fails; files may be edited in between (`Change`,
bounded), and a collector reads the runs one by one. `DatasetUniverse` reads a
source as the sequence of its rows in file order; the prefix rule is that of
the corrected inventory script (docs/phases/phase-12.md:28-31). `Benchmark`
builds in a temporary directory, verifies, moves, and seals if its caller asked for
it; an export verifies, begins and finishes. `Reproduction` takes a directory,
retrains there, which leaves the manifest of the training with the status
"completed", compares at three levels, reports, and writes its own manifest; any of
its writes may fail, after which the handler writes a failed report and a manifest
(`Fail`), or fails itself (`Lose`). A manifest is its status and whether the files
beside it still have the digests it lists (`sealed`). `Reports` takes the index,
then reads each training of it once more for the comparison (`CompareRun`, run by
run, while runs go on changing), and renders four groups of files from both; the
fingerprint in its manifest is of the index only. `ReleaseFiles` writes contracts
and stable manifest file after file; `Kill` leaves the file in hand whole or torn.
Each writer there remembers whether anybody else touched its files since it began
(`alone`); what was left before it, by killed writers too, makes no difference. A
file's content is the version it was made of. A kill is a process that takes no
further step, or `Kill` where its absence matters.

## 3. Runs

| Run | Instance | What it shows |
|---|---|---|
| `gui_jobs` | three jobs (one protected), one worker, one crash, one failing write, fairness | records agree with files and children; protected jobs are left alone; outcomes are durable; commands start once; the supervisor implements `JobLedger`; every pooled job is let go of |
| `gui_cancel_race` | two jobs | **violated**: `cancel` during `Popen` signals nobody |
| `study` | all kinds of searcher, four trials in batches of two, two crashes, fairness | commit order and budget, bounded repetition, stored trials kept, pending trials recovered, random and grid complete |
| `study_wedged` | searchers fed by `observe`, one crash | **violated**: repeated runs raise `ValueError` |
| `run_directory` | three locked retrains, a validation, two tests, one at a time, two crashes | one training per summary, test written once and about the final model, manifest verifies, parameters locked over a complete run |
| `locked_test_race` | two overlapping tests | **violated**: the second test overwrites the first |
| `retrain_wedged` | two retrains, one crash, fairness | **violated**: repeated commands raise `FileExistsError` |
| `agent_team` | all topologies and policies, teams of one to three, pools smaller than a batch, one retry, two tool calls, fairness | one result per call, decisions backed by a quorum of last results, fallbacks not loosened, tool limits, manifest, every run ends |
| `agent_starved` | a committee of two, not parallel | **violated**: a member times out that was never started |
| `market` | the parts of `Market` | accounts, projected limits, panels, agent layers, early stopping, schedulers, searchers and trials, encodings, part by part |
| `projection_limits` | the environment alone, a small turnover limit | **violated**: a limit is broken and nothing reports it |
| `evidence` | the parts of `Evidence` | formal runs, universe, replays, benchmarks, reports and releases, part by part |

Where one property stands for several it is their conjunction, each with its
own comment: `Supervised` (disk agrees with memory, an active record has a
thread, children are bounded), `StudyConsistent`, `WorkBounded`,
`ToolLimitsHeld`, `AccountSound`, `PanelSound`, `DecisionsSound` (schedulers,
searchers, trials and early stopping), `SpacesSound`, `LayersSound`,
`PublicationsSound`.

Bounds. Three jobs and one worker make jobs wait behind a running one and
behind a protected one; one failing write and one crash can fall at any step of
any of them, and the crash can follow the failing write. Four trials in batches
of two are two full batches, so that a crash can separate the suggestions, the
results and the checkpoints of one batch and still leave a batch to come; two
crashes let the recovery of a crash be interrupted. A swarm of three particles
with batches of two makes a generation end inside a batch; a grid of three
points ends before the budget. Three retrains with two crashes leave one that
is not killed. In `agent_team` a debate of two rounds before the judge and a
supervisor that is called twice let a late thread meet the next call of its
instance; three members on two workers leave one in the queue; an estimate and
an expensive call are the whole budget of two, so that one call too many is one
step away.

In `market` two assets, one in lots of two under T+1 and one free, with prices
that triple, soar after the open or are limited, make rounding, the cash
reserve, refused sales and frozen positions meet in two or three sessions; in
each reachable account `LimitsKept` projects every action at every session. One
foreign and one domestic asset over three days contain every gap, suspension
and missing rate before, at and after a fill; the domestic one trades on the
first day. The layers run under two policies with two run directories, so that
one run reuses what another was told under other limits; indices 0, 1 and 5
make both layers, none, or only the risk layer due; percentages are multiples
of five over twenty units, hence exact; the smallest limit of the code, 1e-12,
is one percent of twenty units, which is no unit. Three reports at two levels
fill and overflow a rung, and four are the smallest population that exploits;
populations and swarms of two turn over twice in four trials; spaces have at
most four equal parts.

In `evidence` two tasks and two executors race for one claim; two sources of
one symbol, out of order, repeated or bad after the cutoff are what the
inventory has to tell apart, and a source of a third symbol is in order or bad, so
that it is chosen or not; two builders race in benchmarks and reports, asking for a
seal or not, two exporters for one directory, two writers in a release; a report is
of all runs or of those asked for; two replays are the fewest that the statistical
rule accepts, one under a name of its caller's choice; each kind of defect occurs
alone. Of two contents of the runs root that mirror each other one is enough: nothing
tells its directories apart but what they hold. The code of a release has three versions,
so that a release two behind differs from one just left, and the second drops a
schema, which the third does not bring back. One edit (in a release two) may
fall between any two steps of a part.

Deadlock is checked in `study`; everywhere else the system may stop (all jobs
settled, all commands over, all edits made), and the configuration says so.

Fairness. `GuiJobs`: the threads of a live service run (weak fairness of
`Enqueue` and of the steps of `_execute` per job) and children end, since every
allowed command is a finite run; nobody has to submit, cancel, crash, restart
or shut down. The pool is first-in first-out, so weak fairness per job is
enough. `TuningStudy`: a started command runs on and the operator repeats a
command that ended; crashes are bounded. `RunDirectory`: the same.
`AgentTeam`: the thread that runs the team and the pools run; no provider, role
or tool ever has to answer, because `future.result` has a timeout. `Market` and
`Evidence` are about safety and assume no fairness.

## 4. What the violated properties say

1. `cancel` says it terminates the direct child. Between the first block of
   `_execute` and the one that stores the process there is nothing to
   terminate: the record says cancelled and the child, a training perhaps, runs
   to its end. Later `Finish` keeps the status `cancelled` with the exit code
   of the finished child.
2. `run()` promises to resume until `max_trials` results exist. It commits the
   suggestions before the searcher's checkpoint. After a crash between the two
   the searcher comes back with the older counter, the pending trials are
   evaluated first, and a searcher whose next draw depends on them draws other
   parameters for ids that are taken. The conflict raises in every later run.
   Random and grid search draw the same parameters again and pass (`study`),
   although two crashes in the right places wedge them as well: the counter of
   a searcher without checkpoint skips only terminal trials.
3. `test/metrics.json` is looked for before an evaluation and written after it.
   The GUI runs two jobs at a time and does not look either.
4. The retrain accepts a finished run and refuses a started one; a run killed
   between `training_artifact.json` and `run_summary.json` is neither.
5. A timeout is said to be isolated. A batch that is not parallel has one worker,
   which the thread of a timed-out member keeps; every member behind it waits in
   the queue for its own timeout and is recorded as `timed_out` without having
   run. The pipeline is not affected: each of its stages has its own executor.
6. The projector promises that its result obeys every limit that can be
   obeyed. The turnover limit is the last rule and pulls back towards the current
   portfolio, which a price move may have pushed over an asset limit; nothing
   is frozen, so nothing is reported. `LimitsKept` is the part that holds: where
   the current portfolio is within a limit, the projected one is within it up to
   one unit of money per asset, or the limit is reported. The unit per asset is
   not repeatable: a portfolio that is already off by the roundings of one
   projection may be off by more after the next, so the hypothesis is the exact
   limit.

Also seen, without a run of their own.

- Runs. A test that is killed after `metrics.json` may not be repeated and
  stays incomplete, and a validation that follows writes a manifest that
  verifies over it. Two commands that overlap in a directory can leave a
  manifest that does not verify, and two trainings files of both; nothing in the
  code prevents the overlap.
- Studies. A particle swarm whose results were committed before a crash never
  observes them and stalls short of `max_trials`. `TrialRunner` records the
  decisions of a scheduler and does not act on them
  (docs/tuning-contract.md:9-10 says so). CMA-ES learns from its last batch
  only. A grid skips lattice points when the step does not divide the range or
  the scale is logarithmic. It holds duplicates under a condition, for a choice
  that is listed twice, for an integer of a narrow range without a step (0 to 1
  gives 0, 0, 1) and for one with a fractional step; each duplicate is a trial.
  `GridComplete` speaks of the parameters left.
- Agents. A late thread appends to files that the manifest has hashed
  (`ManifestHoldsWithoutLate` is the part that holds) and can add a tool call
  to a budget that is used up (`ToolLimitsHeld` bounds it by the number of
  late calls).
- Layers. A disabled risk layer that is configured "advisory" merges as
  "enforced" and is replayed as "advisory", so that the replay never verifies,
  although docs/directive-fusion-contract.md says that a replay verifies exact
  equality; `ReplayAgrees` excepts it. A dry run, "read/compute tools only,
  with no training, tuning, or writes" in that contract, may call
  `evaluate_checkpoint`, of class "compute", which writes validation files into
  the run it evaluates; `ResearchBounded` says what remains. A market cap of
  zero, which a role other than a risk manager may ask for, makes the merge or
  the replay raise. A run that raises keeps its directory and cannot be
  repeated under its id. The static fallback holds positions (turnover zero)
  although its cash floor is everything.
- Environment and data. A zero price passes the quality checks and ends an
  episode with an exception (`ValuationComplete` says when prices are positive).
- Formal runs. A failed run records no test access even if the test was
  evaluated; a kill between the matrix and its checksum leaves a matrix that can
  be neither loaded nor frozen again; the protocol is read after it was
  verified; an executor that is killed leaves its run planned or running for ever.
- Replays. Earlier replays are matched by the identifier of their source, so
  samples of a source that was trained again count; a replay whose manifest
  cannot be written loses its report; a locked test of the source during a
  replay makes it fail; any malformed run below the root makes it raise. When the
  handler cannot write its manifest either, the one that training left, "completed",
  can stay beside a failed report. It does not verify, since the summary it lists
  was rewritten for the comparison; `ReplaysJustified` is therefore about manifests
  that verify, and a reader of the status alone is misled.
- Benchmarks and reports. A build without a seal, or a crash between the move and
  the seal, leaves a benchmark that is valid and writable, and verification does
  not look at permissions; searches without a study report are not audited; two
  overlapping reports into one directory can end with a manifest that matches
  files of both, which `ReportSound` leaves out. The comparison of a report reads
  its runs after the index did: a run that changes in between has an older row in
  one table than in the other, and the fingerprint in the manifest does not show it
  (`ReportSound` bounds it to that direction).
- Release. A schema the code has dropped stays after an export, and the next
  verification refuses it until somebody removes it. The stable manifest says the experiment commit is an ancestor also
  when git cannot tell; contracts exported by another version verify as long
  as the code does not look at them (`check_release_readiness` does not).

## 5. Proofs

Eight modules hold theorems, all of them for every value of the constants that
satisfies the assumption of the module. Of the safety properties and action
properties that the passing runs check, all are proved. The
assumptions say what the schemas and bounds of the code let through; TLC
evaluates each of them on the instance of a run (`EvidenceInstances` and
`PartInstances` in the two modules that have several).

### The job supervisor (`GuiJobsProofs`, from `JobsAssumption`)

| Theorem | States |
|---|---|
| `TypeCorrect` | `Spec => []TypeOK` |
| `Invariance` | `Spec => []IInv` |
| `ProtectedSafe` | `Spec => []ProtectedUninterrupted` |
| `RecordsTruthful` | `Spec => []RecordsTellTheTruth` |
| `OutcomeDurable` | `Spec => DurableOutcome` |
| `CommandStartedOnce` | `Spec => StartedOnce` |
| `ImplementsLedger` | `Spec => IsLedger`: the supervisor implements `JobLedger` |
| `SupervisedAlways` | `Spec => []Supervised` |

`ProtectedUninterrupted` alone is not inductive: `cancel` looks at the status
only, so one needs that a job whose child exists, or whose thread is past the
first block, has a record that is not `queued`, in memory and on disk. `IInv` is
`TypeOK`, a condition on the queue (its members are exactly the pooled jobs, each
once, so that a future is not run twice) and, for every job, a condition that
relates the place of its thread, its records, its child and the set of signalled
jobs. `InvStep` has one step per action; the lemmas `Stored` and `WithFields`
state what replacing a record does, `Frame` that the condition of a job depends
only on its own components, `OthersUntouched` that an action of one job leaves
the others alone. The action properties follow from `IInv` and the step.
`SupervisedInv` adds that at most `Workers` jobs hold a worker, to which the
children that somebody waits for are mapped, and that as long as no write failed
an active record has a thread (`AttendedInv`).

For the refinement, `StoreMaps` says that storing a record, written or not, is
`Store` of the ledger; `JobLedgerStep` takes the actions of a job one by one to
a step of the ledger or a stutter, with what `IInv` knows of the file, the
record and the child at that place of the thread (that a registering thread has
no terminal file, that a waiting one has a child); `LedgerStep` adds shutdown,
crash and restart.

### A run directory (`RunDirectoryProofs`, from `RunAssumption`)

The code takes no lock on a run directory. What may overlap is therefore a
hypothesis about the behaviour, part of the statement, and each property has the
weakest one its argument needs. `AtWork` are the commands that have started and
are not over, so that killed and repeated ones count as often as they run.

| Theorem | States | What must not overlap |
|---|---|---|
| `TypeCorrect` | `Spec => []TypeOK` | nothing |
| `Vouching` | `Spec /\ []TrainingsSerial => []TrainingInv` | two trainings |
| `SummaryAlways` | `Spec /\ []TrainingsSerial => []SummaryDescribesRun` | two trainings |
| `LockAlways` | `Spec /\ []TrainingsSerial => []LockedCheckpointComplete` | two trainings |
| `TestAlways` | `Spec /\ []TrainingsSerial => []TestOfFinalModel` | two trainings |
| `TestNeverReplaced` | `Spec /\ []TestsSerial => TestWrittenOnce` | two tests |
| `ManifestAlways` | `Spec /\ []Serial => []ManifestVerifies` | any two commands |
| `OneAtATime` | `Concurrent = 1` gives all three hypotheses | |

`TestAlways` lets evaluations overlap with one another and with a training: that a
training cannot replace the model while an evaluation runs is proved, not assumed.
`TestWrittenOnce` is violated as soon as two tests overlap (run `locked_test_race`),
and `ManifestVerifies` speaks only of a directory at which nobody works and nobody
was killed. `OneAtATime` connects the theorems with the run `run_directory`, in which
one command is at work at a time.

The files of a training are written in one order, so that a file that exists
vouches for those before it (`TrainedInv`): a configuration that is there says
that the artifact is whole and of the same training. What a command at work has
still to write is the end of what it planned (`PlanInv`), and what it found missing
when it started is missing until it writes it (`TrainerInv`), because nobody else
trains in between. A directory in which an evaluation may start has its summary, so
that no training writes there any more: an evaluation reads the model it checked
(`ReaderInv`), and the results are about it (`ResultsInv`). Among tests alone,
`TesterInv` says the same of the results. `ManifestInv` says that without a crash
what was hashed, and the manifest once it is closed, is the directory.

### A study (`TuningStudyProofs`, from `StudyAssumption`)

| Theorem | States |
|---|---|
| `StudyKept` | `Spec => []StudyInv` |
| `StudyTypes` | `Spec => []TypeOK` |
| `StudyAlwaysConsistent` | `Spec => []StudyConsistent` |
| `StoredAlwaysKept` | `Spec => StoredTrialsKept` |
| `RepeatedWorkAlways` | `Spec => []RepeatedWorkBounded` |
| `WorkAlwaysBounded` | `Spec => []WorkBounded` |

The rows of the table are 0, 1, ... without a gap (`RowsInv`); a checkpoint
counts only rows that are there (`CommitInv`), and so does the memory, up to the
batch in hand (`MemoryInv`). A batch therefore starts at a row that exists or at
the next one and is evaluated to its end before another is drawn (`DrawnInv`,
`ResultsInv`, `BatchInv`). `StoredTrialsKept` follows because a row is replaced
only by the same parameters. For `WorkBounded`, which counts how often a trial
was recorded, `WorkInv` bounds what can be repeated by the rows beyond the last
checkpoint, at most a batch for each crash, and `ExactInv` says that without a
crash nothing is. The members of a batch are named by their ranks: `NthIs`
relates `Nth` to the cardinality of what lies below.

### A team of agents (`AgentTeamProofs`, from `TeamAssumption`)

`AggregateBacked` is about the five arbitration policies on their own, for any
team, weights and quorum: they return a kind, anything but a rejection is the
kind of a member of a team whose quorum decided, and the most conservative
policy loosens none.

`TeamKept` is the inductive invariant of a run. A batch is submitted in the order
of its members, which are different instances, and its results are collected in
that order (`BatchesInv`); a call with a result is over, or was given up while its
thread was at work (`CallsInv`); the decision is the aggregate of the last
results (`DecisionInv`). An instance therefore has one thread at a time that was
not given up, and as many others as it has late calls. Between the check of a
budget and its counter there is at most one call of each such thread
(`BudgetsInv`, `ToolsInv`): this is why `ToolLimitsHeld` has the number of late
calls in it and nothing else. `TeamTypes`, `ResultsAlwaysInOrder`,
`DecisionAlwaysBacked`, `FallbackNeverLoosened`, `LimitsAlwaysHeld` and
`ManifestAlwaysHolds` state the six safety properties of the run `agent_team`.

### An episode (`ProjectionProofs`, `MarketProofs`, from `ProjectionAssumption` and `EnvAssumption`)

| Theorem | States |
|---|---|
| `ProjectKeeps` | what the seven rules promise together, in any context with a positive value |
| `EnvAlways` | `Spec => []EnvInv` |
| `TypeCorrect` | `Spec => []TypeOK` |
| `AccountAlwaysSound` | `Spec => []AccountSound` |
| `LimitsAlwaysKept` | `Spec => []LimitsKept` |

Every rounding goes toward zero. An order is therefore never larger than the
change of weight it stands for, and the sum over the assets keeps the turnover
limit of the projection; buys that are scaled by `available / required` and
rounded to lots cost no more than `available`, which is what is above the
reserve; a fee and a slippage are at most a tenth of what is traded each, so that
a sale never takes cash away. `EnvInv` adds to the types that positions are whole
lots, that an episode that goes on has a session left, and that a long-only
account owes nothing and owns something: hence it is worth something at any
positive prices, and no step of it raises. That value is lost to costs only
(`Reconciled`) is the one place where costs must be whole units.

For the limits, each rule has a lemma that it narrows: it leaves frozen
positions alone, takes mutable ones toward zero, and keeps what the rules before
it achieved. The turnover limit, last in the sequence, is a convex blend of the
projected and the current portfolio; an asset within its limit in both is within
it in between, and a sum over a market or over all assets is off by less than a
unit per asset.

### The agent layers (`AgentLayersProofs`, from `LayersAssumption`)

`LayersTypeCorrect` and `LayersStaySound` state the types and `LayersSound`. The
invariant `LayersInv` says which results a run has at each of its stages and what
each of them promises under the policies (`RunKept`), and the same of the results
that are carried over from the last decision (`CarriedKept`). The argument follows
the pipeline: the directive of a committee is at least as narrow as that of each of
its risk managers, the merge of a directive with the policy is at least as narrow
as both, and fusion keeps the merge. The projection is made under what fusion
handed it; `ProjectKeeps` gives the limits it meets, and with them the wider limits
of the layers before.

### Data, early stopping and studies (`MarketProofs`, from `MarketAssumption`)

| Theorem | States |
|---|---|
| `PanelStaysSound`, `PanelAlwaysVerified` | the data on their own keep `Data!PanelSound` and `Data!PanelVerified` |
| `EarlyStopAlwaysJustified` | the training loop on its own keeps `Loop!EarlyStopJustified` |
| `SchedulersAlwaysJustified` | the schedulers on their own keep `Sched!SchedulersJustified` |
| `SearchersStaySound` | the searchers on their own keep `Search!SearchersSound` |
| `SpacesStaySound` | a search space on its own keeps `Space!SpaceSound` |
| `TrialsStayHonest` | a trial on its own keeps `Trial!TrialHonest` |
| `MarketTypeCorrect` | `MarketSpec => []MarketTypes` |
| `PanelAlwaysSound` | `MarketSpec => []PanelSound` |
| `LoadedAlwaysVerified` | `MarketSpec => []PanelVerified` |
| `SpacesAlwaysSound` | `MarketSpec => []SpacesSound` |
| `DecisionsAlwaysSound` | `MarketSpec => []DecisionsSound` |

`PanelInv` says that a panel, once there is one, is framed from the files and
rates as they are, because nothing edits them after it was loaded. A row is then
a function of the sessions up to its own, so that cutting the files at its session
gives the same row, and a price that was converted is positive because a rate is
(`data/fx/rates.py:45-46`).

`TrackerIs`, a part of `LoopInv`, relates the tracker of the callbacks to the scores
it was fed: it points at the first of the best, `stale` validations ago. A training
that runs has not used up its patience, one that stopped without a drawdown guard
has (`UsedUp`).

`SchedInv` says that whatever a scheduler holds, in a rung, in the latest results or
in a history, was reported (`Held`), and that the last verdict is justified. The
schedulers rank: a rank is a place in a stable sort, so that a trial that is not
first has a rival that is no worse (`RankRivals`). Without ties a rank is the number
of better trials (`RankCounts`), whatever the order of insertion (`SameRanks`): this
is why a scheduler that was restored from a checkpoint decides as before.

`SearchInv` has, next to the types of the memory (`MemoryOf`) and of the batch in hand
(`BatchIs`), what each algorithm has learned (`LearnedInv`): a chain stands on one
result, completed unless it is the first; no candidate is better than all of a
population, or than the best memory of a swarm; until NSGA-II has had to cut its first
front (`crowded`) its population holds the front. `Best` is a set of first places of
an order, and has one that no other exceeds (`BestAre`, from `OrderPlaces`); this
serves the genetic algorithm, TPE and CMA-ES alike. The fronts are peeled off by a
recursive function, whose values are found front by front (`RemainingIs`), so that a
selection keeps the first front whole while it fits (`SelectionIs`). What dominates a
trial has at least its weighted sum, with positive weights and ranges
(`LockedOnFront`).

A candidate that was drawn, or is on the grid, comes back from its coordinates
because each of its values does (`DrawnReturns`, `GridReturns`, `CandidateReturns`).
A value with a step is rounded to a multiple of the step, which a second rounding
leaves alone (`RoundsTo`), or is clipped to the upper bound, to which a second
rounding and clipping lead again (`ClippedStays`). The active parameters of a
candidate are one set only: two that satisfy the conditions would differ at a first
parameter, whose condition is about earlier ones (`ActiveAlike`). On a logarithmic
scale the coordinate that encodes a value names the place of the range itself, so
that decoding needs no inverse of the curve. That the grid is complete is proved for
switches, categories and linear scales whose step divides the range and keeps
integers whole; that no trial of it is spent twice, if besides nothing is conditional
and no choice is listed twice. Both fail for the others (section 4). So a candidate is
assembled by naming that set, and the proof needs no induction over the parameters;
that every vector has such a set TLC sees when it evaluates the choice.

`TrialInv` says that the `i`-th score of an evaluation is that of the `i`-th fold and
seed, and that a checkpoint is the model of its own directory, whichever evaluation
wrote it. Folds and seeds are the digits of the index (`PlacesOfTrial`), so that the
scores of a completed trial are all of them, each once; the windows of a fold are
apart (`WindowsApart`).

`MarketSpec` is an interleaving of the parts. By `PartsKept` each of its steps is a
step of a part or leaves it alone, so that each part goes on as on its own
(`PartsGo`), and `MarketAll` puts their theorems together. The environment is the
exception, since it is initialised in the behaviours that pick it only
(`EnvBeside`).

### What is published (`EvidenceProofs`, from `EvidenceAssumption`)

| Theorem | States |
|---|---|
| `EvidenceTypeCorrect` | `EvidenceSpec => []EvidenceTypes` |
| `FormalRunsAlwaysHonest` | `EvidenceSpec => []FormalRunsHonest` |
| `UniverseAlwaysSound` | `EvidenceSpec => []UniverseSound` |
| `ReplaysAlwaysJustified` | `EvidenceSpec => []ReplaysJustified` |
| `PublicationsStaySound` | `EvidenceSpec => []PublicationsSound` |

Each part has an inductive invariant and a theorem of its own.

- `FormalInv` (`FormalRunsStayHonest`): the run of a working executor is its own,
  and as far as the executor is in the program of its task; what the collector has
  passed is completed, measured and audited.
- `BenchInv` (`BenchmarkStaysSound`): a destination that exists is staged from
  sound rows and verified, and belongs to the builder that has put something there;
  it is not writable once a build that was asked to seal it is through; one exporter
  at most copies.
- `ReportInv` (`ReportStaysSound`): as long as no two builders overlapped
  (`mixed`), one of them writes at a time and its pages are of its own index and
  comparison (`Unmixed`); no row of the index is newer than its run (`Earlier`), and
  what was read for the comparison is no older than the row (`Later`).
- `ReleaseInv` (`ReleaseStaysSound`): whatever it found there, an export that was
  `alone` from its start has written the documents of the code there is up to its
  place (`ContractsKept`), and a writer of the stable manifest that of the benchmark
  there is (`StableKept`).
- `ReplayInv` (`ReplaysStayJustified`): every replay has a directory of its own,
  whose report is as far as it is; a manifest that verifies agrees with the verdict
  beside it (`Truthful`), since from the comparison to its own manifest that of the
  training does not verify; and statistical agreement needs as many replays with a
  trained sample as the minimum.
- `DataInv` (`UniverseStaysSound`): the inventory is computed from the files it
  hashed, the snapshot from the inventory, and a copier holds a part of it.

The five theorems of the sum follow as in `MarketProofs`.

### Shared lemmas

The ranks of the members of a finite set of numbers are in `TuningStudyProofs`
(`NthIs`). Induction over the subsets of a finite set, by a smallest counterexample
(`EverySubset`, `GrowsToAll`), the largest member of a set (`LargestUpTo`) and sums over a set
(`Added...`) are in `ProjectionProofs`: the induction theorems of the library take
an operator as a parameter and cannot be used.

### Only model-checked

Liveness stays with TLC, since it rests on fairness and ENABLED: `PooledJobsSettle`,
`PendingRecovered`, `ReplayCompletes` and `RunEnds`. So do the runs that find a
property violated.

## 6. Not modelled

- Command line and service endpoints: each parses its input and calls one of
  the workflows above; they keep no state. Command construction and path
  checks of the job supervisor refuse a request before a record exists.
- Configuration models: declarative validation. The guards that the models
  depend on are in constants and assumptions.
- Numeric sampling and training, features, metrics, statistics over finished
  runs, tables and plots: functions of their inputs, or third-party libraries,
  with no state whose order matters.
- `verify_distributions` and the packaging checks: comparisons of the names and
  versions in finished archives.
- The SQLite file below a commit, the network, Ray and the React frontend.
- Two hazards without a property: audit lines of two threads of one instance
  (`audit/agent.py:53`), which need the content of the audit files; and jobs that
  are submitted after shutdown or dropped by it (`api/jobs.py:828`), whose records
  stay queued until a restart fails them. `GuiJobs` has those steps, `Supervised`
  exempts a service that is shut down, and no statement of the repository is
  contradicted.
- A role whose `close` raises (`agents/runtime.py:399`) leaves the roles behind it
  open and the result of the run unwritten. `Close` models the outcome; providers
  that stay open are not part of the state.

## 7. What could follow

Theorems: that an episode under the configuration of a fusion keeps the
administrator's limits, from `LayersStaySound` and `LimitsAlwaysKept`. Models: the retries of a
provider against the timeout of its invocation on a discrete clock;
`FormalRuns` over `RunDirectory`; the layers over `AgentTeam`, behind an
abstract team.
