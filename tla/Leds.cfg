SPECIFICATION MCSpec
CONSTANTS
    MaxCount = 2
    MaxSeq = 3
    Together = TRUE
    Word = 256
    Blank = 100
    Nul = 101
    Other = 102
    Counts = {1, 2, 15}
    MaxRuns = 3
    MaxStops = 1
    Digits = {0, 2, 7, 9}
    MaxLen = 4
CHECK_DEADLOCK FALSE
INVARIANTS
    TypesOK
    ReadsLeadingNumber
PROPERTIES
    BlinksAsAsked
    RequestAcknowledged
    PrintsOwnAck
    MessagesServed
