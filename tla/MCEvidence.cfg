SPECIFICATION MCEvidenceSpec
CONSTANTS
  Parts = {"runs", "universe", "benchmark", "replays", "reports", "release"}
  Tasks <- FormalTasks
  Kinds <- RunKinds
  Executors = {"e1", "e2"}
  MinSeeds = 2
  ProviderOnly = TRUE
  MaxTampering = 1
  Files = {1, 2, 3, 4}
  SymbolOf <- Symbols
  Histories <- SourceRows
  Cutoff = 2
  Assets = 2
  HeldOut = 1
  MaxReplaced = 1
  Builders = {"b1", "b2"}
  Runs <- Reviewed
  AgentRuns = {"agents"}
  HpoRuns = {"search"}
  Packages <- ReviewPackages
  Exporters = {"x", "y"}
  PayloadRequired = TRUE
  MaxEdits = 1
  Sources <- SourceRuns
  Replays = {"r1", "r2"}
  Named = {1}
  Metrics = {10, 13}
  Absolute = 1
  Relative = 10
  Minimum = 2
  Multiplier = 2
  MaxRenewals = 1
  Directories = {"d1", "d2"}
  Held <- HeldRuns
  Requests <- RunsAskedFor
  MaxRuns = 2
  MaxChanges = 1
  Documents = {"a", "c"}
  Content <- Exported
  Writers = {"w1", "w2"}
  MaxCommits = 2
CHECK_DEADLOCK FALSE
INVARIANTS
  EvidenceTypes
  FormalRunsHonest
  UniverseSound
  ReplaysJustified
  PublicationsSound
