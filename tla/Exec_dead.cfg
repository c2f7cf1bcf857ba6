SPECIFICATION ExecSpec
CONSTANTS
    NoLevel = NoLevel
    Plans = {p1}
    Levels = {l1}
    Venues = {"rest"}
    FullSize = 2
    MaxTries = 2
    MaxFaults = 1
INVARIANTS
    DeadMeansFlat
