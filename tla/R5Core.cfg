SPECIFICATION MCSpec
CONSTANTS
    Half = 5
    GTC_HZ = 3
    Cycles = 2
    Times = {0, 1, 2, 12}
    Last = 12
    Lines = 3
    Handlers = {"masterIsr", "Undef", "SVC", "PAbt", "DAbt", "IRQ", "FIQ"}
    Size = 10
    MaxLines = 7
    MaxStarts = 2
CHECK_DEADLOCK FALSE
INVARIANTS
    TypesOK
    NoTornRead
    NothingLostOrEarly
    MemoryAsLinked
    ContextRestored
    TraceIsComplete
PROPERTIES
    WaitsLongEnough
    PrintsInOrder
