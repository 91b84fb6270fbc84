SPECIFICATION Spec
CONSTANTS
    Jobs = {j1, p1}
    Protected = {p1}
    Workers = 1
    MaxRestarts = 0
    MaxFaults = 0
INVARIANTS
    CancelledChildSignalled
CHECK_DEADLOCK FALSE
