SPECIFICATION ExecFairSpec
CONSTANTS
    NoLevel = NoLevel
    Plans = {p1}
    Levels = {l1, l2}
    Venues = {"simulated", "rest", "queued"}
    FullSize = 2
    MaxTries = 2
    MaxFaults = 3
INVARIANTS
    ExecTypeOK
    EntryNotRepeated
    ReducedOnce
    ClosedMeansFlat
    ExposureRecorded
PROPERTIES
    UnknownNotDead
    LostOrderFound
