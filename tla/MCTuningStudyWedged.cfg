SPECIFICATION FairSpec
CONSTANTS
    Kinds = {"state"}
    MaxTrials = 4
    BatchSize = 2
    Population = 3
    GridSize = 3
    Startup = 1
    MaxCrashes = 1
    MaxRecorded = 3
PROPERTIES
    StudyCompletes
