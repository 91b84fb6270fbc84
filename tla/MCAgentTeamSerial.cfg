SPECIFICATION Spec
CONSTANTS
    lead = lead
    worker = worker
    risk = risk
    Instances <- MCInstances
    Configs <- MCSerial
    Answers <- MCAnswers
    Fallback <- MCFallback
    Tools <- MCTools
    Weight <- MCWeight
    Quorum = 50
    MaxRetries <- MCRetries
    MaxToolRounds <- MCRounds
    MaxToolCalls = 2
    MaxExpensive = 1
CHECK_DEADLOCK FALSE
INVARIANTS
    TimeoutIsolated
