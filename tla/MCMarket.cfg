SPECIFICATION MCMarketSpec
CONSTANTS
  Parts = {"env", "data", "training", "schedulers", "searchers", "spaces", "trials", "layers"}
  Assets <- MCAssets
  Markets = {"CN", "US"}
  MarketOf <- MCMarketOf
  ActionUnit = 2
  Configs <- MCConfigs
  Rows <- MCRows
  Actions <- MCActions
  TPlusOneMarkets = {"CN"}
  LotSize <- MCLotSize
  CostRate <- MCCostRate
  InitialCash = 600
  Sessions = 3
  DataAssets <- MCDataAssets
  Foreign = {"jp"}
  LastDay = 3
  Bars <- DataBars
  Files <- DataFiles
  Tables <- DataTables
  Rebalance = {1, 3}
  NoBar = NoBar
  NoRate = NoRate
  NoPrice = NoPrice
  CallbackConfigs <- MCCallbackConfigs
  Scores = {1, 2, 3}
  Worst = 0
  MaxSteps = 5
  Schedulers <- StudySchedulers
  Trials <- StudyTrials
  Levels = {1, 2}
  Factor = 2
  Metrics = {1, 2}
  NaN <- WorstUtility
  MinTrials = 2
  Interval = 2
  MaxReports <- ReportLimits
  Algorithms = {"tpe", "cma_es", "nsga_ii", "pso", "genetic", "annealing"}
  Values = {1, 2}
  Lowest <- WorstUtility
  PopulationSize = 2
  MaxBatch = 2
  MaxTrials = 4
  Spaces <- SmallSpaces
  Grain = 2
  Divisions = 4
  Retries = 2
  Folds = 3
  Seeds = 2
  TrainEnd = 3
  Width = 2
  Strides = {0, 1, 3}
  Lengths = {7, 9, 12}
  MaxDeaths = 2
  Environments <- LayerEnvironments
  RiskDirectives <- LayerRisks
  Reviews <- LayerReviews
  Strategies <- LayerStrategies
  Teams <- LayerTeams
  Indices = {0, 1, 5}
  Portfolios <- LayerPortfolios
  LayerActions <- MCLayerActions
  Value = 20
  Ids = {"r1", "r2"}
CHECK_DEADLOCK FALSE
INVARIANTS
  MarketTypes
  AccountSound
  LimitsKept
  PanelSound
  LayersSound
  DecisionsSound
  SpacesSound
PROPERTIES
  PanelVerified
