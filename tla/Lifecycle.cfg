SPECIFICATION LifeFairSpec
CONSTANTS
    Rules = {drawdown, cusum}
    MaxFaults = 2
INVARIANTS
    LifeTypeOK
    EarnedOnly
    MonitorStops
PROPERTIES
    MonitorOnlyLowers
    HaltFollowedUp
CHECK_DEADLOCK FALSE
