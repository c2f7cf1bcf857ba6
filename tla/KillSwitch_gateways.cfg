SPECIFICATION KillSpec
CONSTANTS
    Gateways = {g1}
    Operators = {o1}
    MaxEvents = 4
SYMMETRY KillSymmetry
INVARIANTS
    KillTypeOK
    HaltBindsGateways
