SPECIFICATION PaperFairSpec
CONSTANTS
    NoSnapshot = NoSnapshot
    Plans = {p1, p2}
    MaxCrashes = 2
    MaxFaults = 1
INVARIANTS
    PaperTypeOK
    TradesOnce
    RefsUnique
    VenueAgrees
    RestoredWhole
PROPERTIES
    ComesBack
