SPECIFICATION LogSpec
CONSTANTS
    Procs = {p1, p2}
    QuarantineFails = FALSE
    MaxAppends = 4
INVARIANTS
    LogTypeOK
    NeverCorrupt
    OneWriter
    AckedReadable
PROPERTIES
    ImplementsLog
