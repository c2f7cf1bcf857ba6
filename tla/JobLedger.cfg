SPECIFICATION JobSpec
CONSTANTS
    Nobody = Nobody
    NoJob = NoJob
    Workers = {w1, w2}
    Jobs = {j1, j2}
    TTL = 1
    NoLock = NoLock
    MaxFailures = 2
    ExitOnOutage = TRUE
    MaxFence = 3
    MaxCount = 3
    MaxAttempts = 2
    BackoffBase = 1
    BackoffFactor = 2
    MaxBackoff = 2
    Backoff <- MCBackoff
SYMMETRY LedgerSymmetry
INVARIANTS
    JobTypeOK
    RunningUnderMark
    StartsAccounted
    OneBoundWorker
    RecoveredMeansFenced
PROPERTIES
    OutcomesFinal
CHECK_DEADLOCK FALSE
