SPECIFICATION MCSpec
CONSTANTS
    Procs = {"linux", "r5_0", "r5_1"}
    Initial = 1
    Arm = TRUE
    MaxCalls = 4
    Bytes = 6
    Chars = {0, 1}
    Starts = {0, 2, 4}
    Page = 4
    MaxSize = 13
CHECK_DEADLOCK FALSE
INVARIANTS
    TypeOK
    UnitsAccounted
PROPERTIES
    NobodySpinsOverAUnit
    CallsExact
