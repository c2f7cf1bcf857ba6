SPECIFICATION HoldoutSpec
CONSTANTS
    Procs = {p1, p2}
    Strategies = {s1}
    Datasets = {1, 2}
    Starts = {1, 2}
    MaxVersion = 2
    NoSegment = NoSegment
    NoStrategy = NoStrategy
INVARIANTS
    HoldoutTypeOK
    OneLook
    NoLeak
    LooksPaid
