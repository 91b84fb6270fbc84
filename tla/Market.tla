------------------------------- MODULE Market -------------------------------
(***************************************************************************)
(* The market and what learns and acts on it: data sets and their panels,  *)
(* the portfolio environment, the callbacks of a training, the schedulers, *)
(* searchers, spaces and trials of a study, and the layers of agents that  *)
(* narrow the environment.  They share no state - a panel is immutable, a  *)
(* training only reads its environment, a study calls its searcher, its    *)
(* trials and its scheduler one at a time, and a run of the layers has its *)
(* own configuration and directory - so a behaviour picks one of them and  *)
(* leaves the others as they are.                                          *)
(***************************************************************************)
EXTENDS PortfolioEnv, AgentLayers

CONSTANTS Parts,                                      \* which of the parts below there are
          DataAssets, Foreign, LastDay, Bars, Files, Tables, Rebalance,
          NoBar, NoRate, NoPrice,                                        \* MarketData
          CallbackConfigs, Scores, Worst, MaxSteps,                      \* TrainingLoop
          Schedulers, Trials, Levels, Factor, Metrics, NaN, MinTrials,
          Interval, MaxReports,                                          \* TrialSchedulers
          Algorithms, Values, Lowest, PopulationSize, MaxBatch, MaxTrials,  \* Searchers
          Spaces, Grain, Divisions, Retries,                             \* SearchSpace
          Folds, Seeds, TrainEnd, Width, Strides, Lengths, MaxDeaths     \* HpoTrial

VARIABLES files, rates, manifest, panel,                                 \* MarketData
          callbacks, calls, tracker, written, scores, training,          \* TrainingLoop
          scheduler, state, log, verdict,                                \* TrialSchedulers
          algorithm, directions, observed, memory, batch, crowded,       \* Searchers
          space, candidate, tries,                                       \* SearchSpace
          stride, length, checkpoints, records, outcome, deaths,         \* HpoTrial
          part

Data == INSTANCE MarketData WITH Assets <- DataAssets
Loop == INSTANCE TrainingLoop
Sched == INSTANCE TrialSchedulers
Search == INSTANCE Searchers
Space == INSTANCE SearchSpace
Trial == INSTANCE HpoTrial

\* what the code accepts of each of them; EnvAssumption says it of the environment
MarketAssumption ==
  /\ LayersAssumption /\ Data!DataAssumption
  /\ Loop!TrainingAssumption /\ Sched!SchedulerAssumption
  /\ Search!SearchAssumption /\ Space!SpaceAssumption /\ Trial!TrialAssumption

dataVars == <<files, rates, manifest, panel>>
trainingVars == <<callbacks, calls, tracker, written, scores, training>>
schedulerVars == <<scheduler, state, log, verdict>>
actingVars == <<vars, layerVars>>
searcherVars == <<algorithm, directions, observed, memory, batch, crowded>>
trialVars == <<stride, length, checkpoints, records, outcome, deaths>>
spaceVars == <<space, candidate, tries>>
studyVars == <<schedulerVars, searcherVars, spaceVars, trialVars>>
learningVars == <<dataVars, trainingVars, studyVars>>
marketVars == <<actingVars, learningVars, part>>

\* an environment that is not picked may be anywhere in its episode
MarketInit ==
  /\ part \in Parts
  /\ part = "env" => Init
  /\ LayersInit /\ Data!Init /\ Loop!Init
  /\ Sched!Init /\ Search!Init /\ Space!Init /\ Trial!Init

StudyNext ==
  \/ part = "schedulers" /\ Sched!Next /\ UNCHANGED <<searcherVars, spaceVars, trialVars>>
  \/ part = "searchers" /\ Search!Next /\ UNCHANGED <<schedulerVars, spaceVars, trialVars>>
  \/ part = "spaces" /\ Space!Next /\ UNCHANGED <<schedulerVars, searcherVars, trialVars>>
  \/ part = "trials" /\ Trial!Next /\ UNCHANGED <<schedulerVars, searcherVars, spaceVars>>

MarketNext ==
  /\ UNCHANGED part
  /\ \/ /\ UNCHANGED learningVars
        /\ \/ part = "env" /\ Next /\ UNCHANGED layerVars
           \/ part = "layers" /\ LayersNext /\ UNCHANGED vars
     \/ /\ UNCHANGED actingVars
        /\ \/ part = "data" /\ Data!Next /\ UNCHANGED <<trainingVars, studyVars>>
           \/ part = "training" /\ Loop!Next /\ UNCHANGED <<dataVars, studyVars>>
           \/ StudyNext /\ UNCHANGED <<dataVars, trainingVars>>

MarketSpec == MarketInit /\ [][MarketNext]_marketVars

\* Every part is well typed, whichever of them a behaviour is of.
MarketTypes ==
  /\ part = "env" => TypeOK
  /\ part = "layers" => LayersTypeOK
  /\ part = "data" => Data!TypeOK
  /\ part = "training" => Loop!TypeOK
  /\ part = "schedulers" => Sched!TypeOK
  /\ part = "searchers" => Search!TypeOK
  /\ part = "spaces" => Space!TypeOK
  /\ part = "trials" => Trial!TypeOK

\* A panel shows what was known, values everything, and so do its parts (panel.py).
PanelSound == part = "data" => Data!PanelSound
\* A panel is built of verified, valid files only (dataset.py, panel.py:82).
PanelVerified == Data!PanelVerified
\* Spaces give back what was drawn, and grids reach all there is, once (tuning/models.py).
SpacesSound == part = "spaces" => Space!SpaceSound
\* Stops, promotions and exploits are justified by the reports in whatever order
\* they came, and survive a checkpoint (tuning/schedulers/algorithms.py); searchers
\* keep the best they have seen and the locked trial is on the front
\* (tuning/searchers/algorithms.py, tuning/objectives.py); trials score the model
\* and window they name (tuning/rl_objective.py); early stopping means patience
\* without improvement (rl/callbacks/core.py:201).
DecisionsSound ==
  /\ part = "schedulers" => Sched!DecisionsSound
  /\ part = "searchers" => Search!SearchersSound
  /\ part = "trials" => Trial!TrialHonest
  /\ part = "training" => Loop!EarlyStopJustified
=============================================================================
