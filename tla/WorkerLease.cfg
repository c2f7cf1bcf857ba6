SPECIFICATION LeaseFairSpec
CONSTANTS
    Nobody = Nobody
    Workers = {w1, w2, w3}
    TTL = 2
    NoLock = NoLock
    MaxFailures = 2
    ExitOnOutage = FALSE
    MaxFence = 3
    MaxCount = 3
INVARIANTS
    LeaseTypeOK
    FencesIssued
    FencesDistinct
PROPERTIES
    ZombieHarmless
    DeadLeaseExpires
CHECK_DEADLOCK FALSE
