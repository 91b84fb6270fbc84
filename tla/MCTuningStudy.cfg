SPECIFICATION FairSpec
CONSTANTS
    Kinds = {"random", "grid", "history", "state", "swarm"}
    MaxTrials = 4
    BatchSize = 2
    Population = 3
    GridSize = 3
    Startup = 1
    MaxCrashes = 2
    MaxRecorded = 3
INVARIANTS
    TypeOK
    StudyConsistent
    WorkBounded
PROPERTIES
    StoredTrialsKept
    PendingRecovered
    ReplayCompletes
