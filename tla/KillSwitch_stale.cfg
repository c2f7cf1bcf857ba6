SPECIFICATION KillSpec
CONSTANTS
    Gateways = {}
    Operators = {o1, o2}
    MaxEvents = 3
SYMMETRY KillSymmetry
INVARIANTS
    HaltBindsOperators
