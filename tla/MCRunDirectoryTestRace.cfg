SPECIFICATION Spec
CONSTANTS
    Trainers = {t1}
    Retrainers = {}
    Validators = {}
    Testers = {e1, e2}
    Nobody = Nobody
    t1 = t1
    e1 = e1
    e2 = e2
    Concurrent = 2
    MaxCrashes = 0
SYMMETRY MCSymmetry
CHECK_DEADLOCK FALSE
PROPERTIES
    TestWrittenOnce
