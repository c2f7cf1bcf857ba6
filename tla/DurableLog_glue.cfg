SPECIFICATION LogSpec
CONSTANTS
    Procs = {p1}
    QuarantineFails = TRUE
    MaxAppends = 2
INVARIANTS
    AckedReadable
