SPECIFICATION Spec
CONSTANTS
    Trainers = {}
    Retrainers = {r1, r2, r3}
    Validators = {v1}
    Testers = {e1, e2}
    Nobody = Nobody
    r1 = r1
    r2 = r2
    r3 = r3
    v1 = v1
    e1 = e1
    e2 = e2
    Concurrent = 1
    MaxCrashes = 2
SYMMETRY MCSymmetry
CHECK_DEADLOCK FALSE
INVARIANTS
    TypeOK
    SummaryDescribesRun
    TestOfFinalModel
    ManifestVerifies
    LockedCheckpointComplete
PROPERTIES
    TestWrittenOnce
