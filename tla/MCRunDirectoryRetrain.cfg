SPECIFICATION FairSpec
CONSTANTS
    Trainers = {}
    Retrainers = {r1, r2}
    Validators = {}
    Testers = {}
    Nobody = Nobody
    r1 = r1
    r2 = r2
    Concurrent = 1
    MaxCrashes = 1
CHECK_DEADLOCK FALSE
PROPERTIES
    RetrainLocks
